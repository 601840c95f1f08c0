----------------------------- MODULE SpillStore -----------------------------
(***************************************************************************)
(* Oversized output is moved to a file and read back by id (bash/spill.go).*)
(* The table of records is locked; the file is written between two locked  *)
(* sections, by any goroutine that has output to keep.  The files belong   *)
(* to one process: nothing reads them after it has ended.                  *)
(***************************************************************************)
EXTENDS Naturals, FiniteSets

CONSTANTS
  Spill,     \* spill ids, each used once
  Writer,    \* goroutines that store output
  MaxSpills, \* records
  SpillTTL   \* lifetime of a record

SpillAssumption == IsFiniteSet(Spill) /\ MaxSpills \in Nat \ {0} /\ SpillTTL \in Nat \ {0}

VARIABLES
  now,     \* the clock
  spills,  \* id -> when the record expires, 0 without a record
  files,   \* id -> "none", "partial" or "whole"
  store,   \* writer -> the Store in progress
  reader   \* the Read in progress: its id, between the check and the opening

spillVars == <<spills, files, store, reader>>

NotStoring == [pc |-> "idle", id |-> {}]

SpillInit ==
  /\ spills = [s \in Spill |-> 0]
  /\ files = [s \in Spill |-> "none"]
  /\ store = [w \in Writer |-> NotStoring]
  /\ reader = {}

Recorded(table) == {s \in Spill : table[s] # 0}
Outlived == {s \in Recorded(spills) : now > spills[s]}

\* reapLocked: the file goes with the record.
Reaped == [s \in Spill |-> IF s \in Outlived THEN 0 ELSE spills[s]]
Cleaned == [s \in Spill |-> IF s \in Outlived THEN "none" ELSE files[s]]

HasRoom == Cardinality(Recorded(Reaped)) < MaxSpills

\* A new id is random: it names nothing that anyone still holds.
Unused ==
  {s \in Spill \ reader : spills[s] = 0 /\ files[s] = "none" /\ \A w \in Writer : store[w].id # {s}}

\* The quota is checked before anything is written.
StoreCheck(w) ==
  /\ store[w].pc = "idle"
  /\ spills' = Reaped /\ files' = Cleaned
  /\ IF HasRoom
     THEN Unused # {} /\ store' = [store EXCEPT ![w] = [pc |-> "create", id |-> {CHOOSE s \in Unused : TRUE}]]
     ELSE UNCHANGED store
  /\ UNCHANGED reader

StoreCreate(w) ==
  \E s \in store[w].id :
    /\ store[w].pc = "create"
    /\ files' = [files EXCEPT ![s] = "partial"]
    /\ store' = [store EXCEPT ![w].pc = "write"]
    /\ UNCHANGED <<spills, reader>>

\* Compressed and closed; or an error, and the file is removed.
StoreWrite(w) ==
  \E s \in store[w].id :
    /\ store[w].pc = "write"
    /\ \/ files' = [files EXCEPT ![s] = "whole"] /\ store' = [store EXCEPT ![w].pc = "insert"]
       \/ files' = [files EXCEPT ![s] = "none"] /\ store' = [store EXCEPT ![w] = NotStoring]
    /\ UNCHANGED <<spills, reader>>

CanInsertUnchecked == TRUE

\* The quota is checked again: others may have stored meanwhile.
CanInsert == HasRoom

StoreInsert(w) ==
  \E s \in store[w].id :
    /\ store[w].pc = "insert"
    /\ IF CanInsert
       THEN spills' = [Reaped EXCEPT ![s] = now + SpillTTL] /\ files' = Cleaned
       ELSE spills' = Reaped /\ files' = [Cleaned EXCEPT ![s] = "none"]
    /\ store' = [store EXCEPT ![w] = NotStoring]
    /\ UNCHANGED reader

\* Read finds a live record and its file, and opens the file after the unlock.
ReadCheck(s) ==
  /\ reader = {}
  /\ spills[s] # 0 /\ now <= spills[s] /\ files[s] # "none"
  /\ reader' = {s}
  /\ UNCHANGED <<spills, files, store>>

ReadOpen ==
  /\ reader # {}
  /\ reader' = {}
  /\ UNCHANGED <<spills, files, store>>

-----------------------------------------------------------------------------

SpillTypeOK ==
  /\ spills \in [Spill -> Nat]
  /\ files \in [Spill -> {"none", "partial", "whole"}]
  /\ \A w \in Writer :
       /\ store[w].pc \in {"idle", "create", "write", "insert"}
       /\ store[w].id \subseteq Spill
  /\ reader \subseteq Spill

\* The store keeps to its limit, and disk and table agree: every record has its whole file and
\* every other file is one that a Store in progress will record or remove.  Stores overlap
\* between their two checks.
SpillsAgree ==
  /\ Cardinality(Recorded(spills)) <= MaxSpills
  /\ \A s \in Spill :
       /\ spills[s] # 0 => files[s] = "whole"
       /\ files[s] # "none" /\ spills[s] = 0 => \E w \in Writer : store[w].id = {s}

\* A read that opened its file found it whole: a reaped one is missing, never half there.
ReadsAreWhole == \A s \in reader : files[s] # "partial"

=============================================================================
