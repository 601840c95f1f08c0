----------------------------- MODULE SecretStore -----------------------------
(***************************************************************************)
(* What the secret vault holds and the operations on it, as functions of   *)
(* the store (secret/vault.go).                                            *)
(***************************************************************************)
EXTENDS Naturals

CONSTANTS
  Name, Value, Group,
  NoValue, NoGroup    \* the secret does not exist, and belongs to no group

NoneAssumption == NoValue \notin Value /\ NoGroup \notin Group

Store == [value : [Name -> Value \union {NoValue}], group : [Name -> Group \union {NoGroup}],
          groups : SUBSET Group]

EmptyStore ==
  [value |-> [n \in Name |-> NoValue], group |-> [n \in Name |-> NoGroup], groups |-> {}]

Op == [verb : {"set"}, name : Name, value : Value]
      \union [verb : {"setWithGroup"}, name : Name, value : Value, group : Group \union {NoGroup}]
      \union [verb : {"remove"}, name : Name]
      \union [verb : {"addGroup", "deleteGroup"}, group : Group]
      \union {op \in [verb : {"renameGroup"}, group : Group, to : Group] : op.group # op.to}
      \union [verb : {"assignGroup"}, name : Name, group : Group \union {NoGroup}]

Refused(op, s) ==
  \/ op.verb = "renameGroup" /\ (op.group \notin s.groups \/ op.to \in s.groups)
  \/ op.verb = "assignGroup" /\ s.value[op.name] = NoValue

\* Every secret of one group goes to another.
Moved(s, from, to) == [n \in Name |-> IF s.group[n] = from THEN to ELSE s.group[n]]

DeleteGroupOnly(s, group) == [s EXCEPT !.groups = @ \ {group}]
DeleteGroup(s, group) == [s EXCEPT !.groups = @ \ {group}, !.group = Moved(s, group, NoGroup)]

Change(op, s) ==
  CASE op.verb = "set" -> [s EXCEPT !.value[op.name] = op.value]
    [] op.verb = "setWithGroup" ->
         [s EXCEPT !.value[op.name] = op.value, !.group[op.name] = op.group,
                   !.groups = @ \union ({op.group} \ {NoGroup})]
    [] op.verb = "remove" -> [s EXCEPT !.value[op.name] = NoValue, !.group[op.name] = NoGroup]
    [] op.verb = "addGroup" -> [s EXCEPT !.groups = @ \union {op.group}]
    [] op.verb = "deleteGroup" -> DeleteGroup(s, op.group)
    [] op.verb = "renameGroup" ->
         [s EXCEPT !.groups = (@ \ {op.group}) \union {op.to}, !.group = Moved(s, op.group, op.to)]
    [] op.verb = "assignGroup" ->
         [s EXCEPT !.group[op.name] = op.group, !.groups = @ \union ({op.group} \ {NoGroup})]

\* Every secret with a group exists and its group does.
GroupsClosed(s) ==
  \A n \in Name : s.group[n] # NoGroup => s.value[n] # NoValue /\ s.group[n] \in s.groups

=============================================================================
