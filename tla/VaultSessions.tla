---------------------------- MODULE VaultSessions ----------------------------
(***************************************************************************)
(* Who may use the vault UI: pairing, sessions and the password            *)
(* (vaultui/server.go, secret/ui_auth.go).  Every request is served by a   *)
(* goroutine of its own; the mutexes of the server and of the password     *)
(* make single steps atomic and are not held between them.                 *)
(***************************************************************************)
EXTENDS Naturals, FiniteSets

CONSTANTS
  Request,      \* goroutines that serve requests
  Token,        \* session tokens, each issued once
  Password,
  PairLifetime, SessionIdle, SessionAbsolute, FailureCooldown,
  FailureLimit  \* wrong passwords before the cooldown

SessionAssumption ==
  /\ PairLifetime \in Nat /\ SessionIdle \in Nat /\ SessionAbsolute \in Nat
  /\ FailureCooldown \in Nat /\ FailureLimit \in Nat \ {0}

VARIABLES
  now,          \* the clock
  pairing,      \* the code: whether it has been used, and when it expires
  sessions,     \* token -> {} or {its session}
  guard,        \* of the password: failures, blockedUntil, and whether the gate is taken
  verifier,     \* ui.json: {} or {the password it was derived from}
  lock,         \* holder of .lock, which the vault shares
  req,          \* request -> what it is doing
  ended,        \* tokens logged out, expired or of a server that has ended
  issued        \* tokens issued

sessionVars == <<pairing, sessions, guard, verifier, req, ended, issued>>

Free == [pc |-> "idle", token |-> {}, password |-> {}, at |-> 0]
Unguarded == [failures |-> 0, blockedUntil |-> 0, gate |-> FALSE]

\* The zero time is longer ago than any session lasts.
ZeroTime == 0
Begin == SessionAbsolute + 1

SessionInit ==
  /\ now = Begin
  /\ pairing = [used |-> FALSE, expires |-> now + PairLifetime]
  /\ sessions = [t \in Token |-> {}]
  /\ guard = Unguarded
  /\ verifier = {}
  /\ req = [r \in Request |-> Free]
  /\ ended = {} /\ issued = {}

Goto(r, pc) == req' = [req EXCEPT ![r].pc = pc]
EndRequest(r) == req' = [req EXCEPT ![r] = Free]

\* A pairing request with the right code; any other changes nothing.
PairCheckEach(r) ==
  /\ req[r].pc = "idle" /\ now < pairing.expires
  /\ pairing' = [pairing EXCEPT !.used = TRUE]
  /\ req' = [req EXCEPT ![r] = [Free EXCEPT !.pc = "issue", !.at = now]]
  /\ UNCHANGED <<sessions, guard, verifier, lock, ended, issued>>

PairCheck(r) ==
  /\ req[r].pc = "idle"
  /\ ~pairing.used /\ now < pairing.expires
  /\ pairing' = [pairing EXCEPT !.used = TRUE]
  /\ req' = [req EXCEPT ![r] = [Free EXCEPT !.pc = "issue", !.at = now]]
  /\ UNCHANGED <<sessions, guard, verifier, lock, ended, issued>>

\* A fresh token, unless there is no randomness: then the code is used up all the same.
NewToken == CHOOSE t \in Token : t \notin issued

PairIssue(r) ==
  /\ req[r].pc = "issue"
  /\ \/ /\ issued # Token
        /\ sessions' = [sessions EXCEPT ![NewToken] =
                           {[created |-> req[r].at, seen |-> req[r].at, auth |-> FALSE]}]
        /\ issued' = issued \union {NewToken}
     \/ UNCHANGED <<sessions, issued>>
  /\ EndRequest(r)
  /\ UNCHANGED <<pairing, guard, verifier, lock, ended>>

ExpiredIdle(s) == now > s.seen + SessionIdle
Expired(s) == now > s.seen + SessionIdle \/ now > s.created + SessionAbsolute

\* authorize: every expired session goes, and then the token is looked up.
Kept == [t \in Token |-> {s \in sessions[t] : ~Expired(s)}]

Authorize(r, t, kind, password) ==
  /\ req[r].pc = "idle"
  /\ t \in issued
  /\ ended' = ended \union {u \in Token : sessions[u] # {} /\ Kept[u] = {}}
  /\ \/ \E s \in Kept[t] :
          /\ kind = "vault" => s.auth
          /\ sessions' = [Kept EXCEPT ![t] = {[s EXCEPT !.seen = now]}]
          /\ req' = [req EXCEPT ![r] = [pc |-> kind, token |-> {t}, password |-> {password}, at |-> 0]]
     \/ /\ \A s \in Kept[t] : kind = "vault" /\ ~s.auth
        /\ sessions' = Kept
        /\ UNCHANGED req
  /\ UNCHANGED <<pairing, guard, verifier, lock, issued>>

Status(r) ==
  /\ req[r].pc = "status"
  /\ EndRequest(r)
  /\ UNCHANGED <<pairing, sessions, guard, verifier, lock, ended, issued>>

Logout(r) ==
  \E t \in req[r].token :
    /\ req[r].pc = "logout"
    /\ sessions' = [sessions EXCEPT ![t] = {}]
    /\ ended' = ended \union {t}
    /\ EndRequest(r)
    /\ UNCHANGED <<pairing, guard, verifier, lock, issued>>

\* Setup holds the file lock from the check that there is no password until it is written.
Setup(r) ==
  /\ req[r].pc = "setup" /\ lock = {}
  /\ IF verifier # {} THEN EndRequest(r) /\ UNCHANGED lock ELSE Goto(r, "setupWrite") /\ lock' = {r}
  /\ UNCHANGED <<pairing, sessions, guard, verifier, ended, issued>>

SetupWrite(r) ==
  /\ req[r].pc = "setupWrite"
  /\ verifier' = req[r].password
  /\ lock' = lock \ {r}
  /\ Goto(r, "authenticate")
  /\ UNCHANGED <<pairing, sessions, guard, ended, issued>>

\* Writing the password fails: the lock is given back.
SetupFails(r) ==
  /\ req[r].pc = "setupWrite"
  /\ lock' = lock \ {r}
  /\ EndRequest(r)
  /\ UNCHANGED <<pairing, sessions, guard, verifier, ended, issued>>

\* The command line removes the password.
Reset ==
  /\ lock = {}
  /\ verifier' = {}
  /\ UNCHANGED <<pairing, sessions, guard, lock, req, ended, issued>>

\* Verify: the cooldown, then the gate, which one derivation at a time passes and nobody waits for.
VerifyCheck(r) ==
  /\ req[r].pc = "login"
  /\ IF now < guard.blockedUntil THEN EndRequest(r) ELSE Goto(r, "gate")
  /\ UNCHANGED <<pairing, sessions, guard, verifier, lock, ended, issued>>

VerifyGate(r) ==
  /\ req[r].pc = "gate"
  /\ IF guard.gate
     THEN EndRequest(r) /\ UNCHANGED guard
     ELSE Goto(r, "load") /\ guard' = [guard EXCEPT !.gate = TRUE]
  /\ UNCHANGED <<pairing, sessions, verifier, lock, ended, issued>>

Compared(r) == IF verifier = req[r].password THEN "deriveRight" ELSE "deriveWrong"

LoadGateKept(r) ==
  /\ req[r].pc = "load"
  /\ IF verifier = {} THEN EndRequest(r) ELSE Goto(r, Compared(r))
  /\ UNCHANGED <<pairing, sessions, guard, verifier, lock, ended, issued>>

\* Without a password to compare with the gate is given back at once.
Load(r) ==
  /\ req[r].pc = "load"
  /\ IF verifier = {}
     THEN EndRequest(r) /\ guard' = [guard EXCEPT !.gate = FALSE]
     ELSE Goto(r, Compared(r)) /\ UNCHANGED guard
  /\ UNCHANGED <<pairing, sessions, verifier, lock, ended, issued>>

Derive(r) ==
  /\ req[r].pc \in {"deriveRight", "deriveWrong"}
  /\ guard' = [guard EXCEPT !.gate = FALSE]
  /\ Goto(r, IF req[r].pc = "deriveRight" THEN "right" ELSE "wrong")
  /\ UNCHANGED <<pairing, sessions, verifier, lock, ended, issued>>

VerifyRight(r) ==
  /\ req[r].pc = "right"
  /\ guard' = [guard EXCEPT !.failures = 0, !.blockedUntil = ZeroTime]
  /\ Goto(r, "authenticate")
  /\ UNCHANGED <<pairing, sessions, verifier, lock, ended, issued>>

\* A failure is counted after the delay, when others may have been counted.
VerifyWrong(r) ==
  /\ req[r].pc = "wrong"
  /\ guard' = IF guard.failures + 1 >= FailureLimit
              THEN [guard EXCEPT !.failures = 0, !.blockedUntil = now + FailureCooldown]
              ELSE [guard EXCEPT !.failures = @ + 1]
  /\ EndRequest(r)
  /\ UNCHANGED <<pairing, sessions, verifier, lock, ended, issued>>

\* The session may have ended since it was authorized: a zero one takes its place.
Authenticate(r) ==
  \E t \in req[r].token :
    /\ req[r].pc = "authenticate"
    /\ sessions' = [sessions EXCEPT ![t] =
          {[created |-> IF @ = {} THEN ZeroTime ELSE (CHOOSE s \in @ : TRUE).created,
            seen |-> now, auth |-> TRUE]}]
    /\ EndRequest(r)
    /\ UNCHANGED <<pairing, guard, verifier, lock, ended, issued>>

\* The process ends and another is started: everything but the password file is new.
RestartUI ==
  /\ pairing' = [used |-> FALSE, expires |-> now + PairLifetime]
  /\ sessions' = [t \in Token |-> {}]
  /\ guard' = Unguarded
  /\ req' = [r \in Request |-> Free]
  /\ ended' = issued
  /\ UNCHANGED <<verifier, issued>>

SessionStep(r) ==
  \/ PairIssue(r) \/ Status(r) \/ Logout(r) \/ Setup(r) \/ SetupWrite(r)
  \/ VerifyCheck(r) \/ VerifyGate(r) \/ Load(r) \/ Derive(r) \/ VerifyRight(r) \/ VerifyWrong(r) \/ Authenticate(r)

-----------------------------------------------------------------------------
\* Types; the gate is taken by exactly one derivation, and the counter stays below its limit.
SessionTypeOK ==
  /\ \A t \in Token : Cardinality(sessions[t]) <= 1 /\ (sessions[t] # {} => t \in issued)
  /\ verifier \subseteq Password /\ Cardinality(verifier) <= 1
  /\ guard.failures \in 0..FailureLimit - 1 /\ guard.blockedUntil \in Nat
  /\ Cardinality({r \in Request : req[r].pc \in {"load", "deriveRight", "deriveWrong"}})
       = IF guard.gate THEN 1 ELSE 0
  /\ ended \subseteq issued

\* A session that was logged out or has expired is never served again, although a login that was
\* waiting for its password writes it back: the zero one expires before it is looked up.
EndedStaysEnded ==
  [][\A r \in Request :
       req[r].pc = "idle" => \A t \in req'[r].token : t \notin ended']_sessionVars

\* A pairing code opens one session, whatever requests race for it.
OneSessionPerCode ==
  Cardinality(issued \ ended) + Cardinality({r \in Request : req[r].pc = "issue"}) <= 1

=============================================================================
