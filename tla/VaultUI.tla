------------------------------ MODULE VaultUI ------------------------------
(***************************************************************************)
(* The vault in use: requests of the vault UI, which need a session before *)
(* they reach the vault, command lines and servers that reach it directly. *)
(* The UI's password and the vault's files share one file lock.            *)
(***************************************************************************)
EXTENDS Naturals, FiniteSets

CONSTANTS
  Request, Line,  \* actors: goroutines of the UI, and other processes
  UI,             \* the process of the UI
  Token, Password, PairLifetime, SessionIdle, SessionAbsolute, FailureCooldown, FailureLimit,
  Key, Name, Value, Group, NoValue, NoGroup,
  Ops,            \* the updates that are asked for
  Budgets,        \* bounds: calls of each kind
  MaxTime         \* bound: the clock

VARIABLES
  now, pairing, sessions, guard, verifier, lock, req, ended, issued,
  key, keySafe, enc, encSafe, mutex, act,
  budget          \* calls and faults left, by kind

Actor == Request \union Line
Home == [a \in Actor |-> IF a \in Request THEN UI ELSE a]

S == INSTANCE VaultSessions
V == INSTANCE SecretVault

ASSUME VaultAssumption ==
  /\ S!SessionAssumption /\ V!NoneAssumption /\ V!KeyAssumption
  /\ Request \intersect Line = {} /\ UI \notin Line /\ Ops \subseteq V!Op
  /\ MaxTime \in Nat /\ S!Begin <= MaxTime

vars == <<now, pairing, sessions, guard, verifier, lock, req, ended, issued,
          key, keySafe, enc, encSafe, mutex, act, budget>>

sessionVars == <<pairing, sessions, guard, verifier, req, ended, issued>>
vaultVars == <<key, keySafe, enc, encSafe, mutex, act>>

Init ==
  /\ S!SessionInit /\ V!VaultInit
  /\ lock = {}
  /\ budget \in Budgets

Spend(kind) == budget[kind] > 0 /\ budget' = [budget EXCEPT ![kind] = @ - 1]

Tick ==
  /\ now < MaxTime
  /\ now' = now + 1
  /\ UNCHANGED <<sessionVars, vaultVars, lock, budget>>

\* A request of the UI: pairing, or one that names a session.
Pair(r) ==
  /\ act[r].pc = "idle"
  /\ S!PairCheck(r)
  /\ UNCHANGED <<now, vaultVars, budget>>

Ask(r) ==
  /\ act[r].pc = "idle"
  /\ \E t \in Token, p \in Password :
       \/ \E kind \in {"login", "setup"} : Spend("auth") /\ S!Authorize(r, t, kind, p)
       \/ \E kind \in {"status", "logout"} : Spend("auth") /\ S!Authorize(r, t, kind, p)
       \/ Spend("vault") /\ S!Authorize(r, t, "vault", p)
  /\ UNCHANGED <<now, vaultVars>>

\* An authorized request reaches the vault: an update, or the overview.
Serve(r) ==
  /\ req[r].pc = "vault"
  /\ (\E op \in Ops : V!MutateBegin(r, op)) \/ V!ReadEnc(r)
  /\ S!EndRequest(r)
  /\ UNCHANGED <<now, pairing, sessions, guard, verifier, ended, issued, budget>>

\* vault set, rm or list, or a secret for a command.
CommandLine(a) ==
  /\ Spend("vault")
  /\ (\E op \in Ops : V!MutateBegin(a, op)) \/ V!ReadEnc(a)
  /\ UNCHANGED <<now, sessionVars>>

\* vault ui-reset.
ResetPassword ==
  /\ Spend("auth")
  /\ verifier # {}
  /\ S!Reset
  /\ UNCHANGED <<now, vaultVars>>

SessionStep(r) == S!SessionStep(r) /\ UNCHANGED <<now, vaultVars, budget>>

VaultStep(a) == V!VaultStep(a) /\ UNCHANGED <<now, sessionVars, budget>>

VaultFails(a) ==
  /\ Spend("fault")
  /\ V!MutateFails(a)
  /\ UNCHANGED <<now, sessionVars>>

SetupFails(r) ==
  /\ Spend("fault")
  /\ S!SetupFails(r)
  /\ UNCHANGED <<now, vaultVars>>

Crash(a) ==
  /\ Spend("fault")
  /\ V!VaultCrash(a)
  /\ UNCHANGED <<now, sessionVars>>

CrashUI ==
  /\ Spend("fault")
  /\ V!VaultCrash(UI)
  /\ S!RestartUI
  /\ UNCHANGED now

PowerLoss ==
  /\ Spend("fault")
  /\ V!VaultPowerLoss
  /\ S!RestartUI
  /\ UNCHANGED now

Next ==
  \/ Tick
  \/ \E r \in Request : Pair(r) \/ Ask(r) \/ Serve(r) \/ SessionStep(r) \/ SetupFails(r)
  \/ \E a \in Line : CommandLine(a) \/ Crash(a)
  \/ \E a \in Actor : VaultStep(a) \/ VaultFails(a)
  \/ ResetPassword \/ CrashUI \/ PowerLoss

\* What has been called goes on: file operations and derivations return.
Fairness ==
  /\ \A r \in Request : WF_vars(SessionStep(r)) /\ WF_vars(Serve(r))
  /\ \A a \in Actor : WF_vars(VaultStep(a))

Spec == Init /\ [][Next]_vars /\ Fairness

-----------------------------------------------------------------------------
\* Types; each lock has the holder that thinks it has it, the password's gate among them
\* (ui_auth.go:143), and the failure counter stays below its limit.
TypeOK ==
  /\ now \in S!Begin..MaxTime
  /\ S!SessionTypeOK /\ V!VaultTypeOK
  /\ lock = {a \in Actor : act[a].pc \in {"load", "key", "syncKey", "seal", "sync", "answer"}}
              \union {r \in Request : req[r].pc = "setupWrite"}

\* The vault can always be opened with the key that is there, although key and ciphertext are two
\* files that crashes and power losses separate (vault.go:407, :427); what is answered lasts.
VaultSurvives == V!VaultSurvives

\* Each update is applied to what the ones before it left: processes lose no update to another
\* (vault.go:323).
Promise == INSTANCE VaultContents WITH contents <- V!StoreOf(enc), safe <- V!StoreOf(encSafe)
VaultKeepsPromise == Promise!Spec

\* See VaultSessions (server.go:592, :565).
EndedStaysEnded == S!EndedStaysEnded

\* See VaultSessions (server.go:203).
OneSessionPerCode == S!OneSessionPerCode

\* Every request and every operation ends, although both locks, the mutex and the gate are in
\* their way, and although their holder may crash.
RequestsEnd ==
  <>[](/\ \A r \in Request : req[r].pc = "idle"
       /\ \A a \in Actor : act[a].pc = "idle")

=============================================================================
