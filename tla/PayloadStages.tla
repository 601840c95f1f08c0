---------------------------- MODULE PayloadStages ----------------------------
(***************************************************************************)
(* Payloads that arrive in pieces (payload/stages.go).  A piece that ends  *)
(* inside a body is kept under a stage id; the next one names the stage    *)
(* and the line it starts with.                                            *)
(*                                                                         *)
(* A text is the sequence of its lines, so that one that ends with a       *)
(* newline has an empty last line.  The lines of a payload are numbered    *)
(* and the last of them is its seal: a text parses when it holds the seal. *)
(* A line that was cut is Cut.                                             *)
(***************************************************************************)
EXTENDS Naturals, Sequences, FiniteSets

CONSTANTS
  Payload,    \* payloads a client sends
  Stage,      \* stage ids, each used once
  Lines,      \* lines of a payload, the seal included
  MaxStages,  \* stages kept
  StageTTL    \* lifetime of a stage

StageAssumption ==
  Lines \in Nat \ {0} /\ MaxStages \in Nat \ {0} /\ StageTTL \in Nat

Empty == 0
Cut == Lines + 1
Line == 0..Lines + 1
Seal == Lines

VARIABLES
  now,      \* the clock
  stages,   \* id -> [text, expires], or NoStage
  sender,   \* payload -> what its client knows: its stage, if any, and got_lines
  result,   \* payload -> the text that was parsed, <<>> before
  clean,    \* payloads whose pieces all ended at the end of a line, without its newline
  issued    \* stage ids handed out

stageVars == <<stages, sender, result, clean, issued>>

NoStage == [text |-> <<>>, expires |-> 0]
NothingSent == [stage |-> {}, got |-> 0]

StageInit ==
  /\ stages = [s \in Stage |-> NoStage]
  /\ sender = [p \in Payload |-> NothingSent]
  /\ result = [p \in Payload |-> <<>>]
  /\ clean = Payload
  /\ issued = {}

Staged(table) == {s \in Stage : table[s] # NoStage}

\* reapLocked.
Live == [s \in Stage |-> IF now > stages[s].expires THEN NoStage ELSE stages[s]]

\* evictOldestLocked, of what has been reaped: the first to expire.
Oldest(table) == {s \in Staged(table) : \A u \in Staged(table) : table[s].expires <= table[u].expires}

\* A piece: the lines from..upto of the payload, then nothing, a newline, or part of a line.
Whole(from, upto) == [i \in 1..(upto + 1 - from) |-> from + i - 1]
Piece(from, upto, ending) ==
  CASE ending = "line" -> Whole(from, upto)
    [] ending = "newline" -> Append(Whole(from, upto), Empty)
    [] ending = "part" -> Append(Whole(from, upto), Cut)

JoinedBare(text, piece) == SubSeq(text, 1, Len(text) - 1) \o <<Cut>> \o Tail(piece)

\* What is kept and what comes are put together with one newline between them.
Joined(text, piece) ==
  IF text[Len(text)] = Empty THEN SubSeq(text, 1, Len(text) - 1) \o piece ELSE text \o piece

Parses(text) == \E i \in DOMAIN text : text[i] = Seal

ToSeal(text) == SubSeq(text, 1, CHOOSE i \in DOMAIN text : text[i] = Seal)

\* The first text that parses is the payload, up to its seal; the stage goes with it.
Finish(p, text, table) ==
  /\ result' = [result EXCEPT ![p] = ToSeal(text)]
  /\ stages' = table
  /\ sender' = [sender EXCEPT ![p] = NothingSent]
  /\ UNCHANGED issued

NoVictims(table) == {{}}

AnyVictim(table) ==
  IF Cardinality(Staged(table)) >= MaxStages THEN {{s} : s \in Staged(table)} ELSE {{}}

\* What a full table gives up for one more stage: whichever is oldest, even when the stage to be
\* kept is one it already holds.
Victims(table) ==
  IF Cardinality(Staged(table)) >= MaxStages THEN {{s} : s \in Oldest(table)} ELSE {{}}

Keep(p, id, text) ==
  \E victims \in Victims(Live) :
    /\ stages' = [s \in Stage |->
          IF s = id THEN [text |-> text, expires |-> now + StageTTL]
          ELSE IF s \in victims THEN NoStage ELSE Live[s]]
    /\ sender' = [sender EXCEPT ![p] = [stage |-> {id}, got |-> Len(text)]]
    /\ issued' = issued \union {id}
    /\ UNCHANGED result

\* The first piece.
Send(p) ==
  \E upto \in 1..Lines, ending \in {"line", "newline", "part"} :
    LET text == Piece(1, upto, ending)
    IN /\ sender[p] = NothingSent /\ result[p] = <<>>
       /\ IF Parses(text)
          THEN Finish(p, text, stages) /\ UNCHANGED clean
          ELSE /\ Stage \ issued # {}
               /\ Keep(p, CHOOSE s \in Stage \ issued : TRUE, text)
               /\ clean' = IF ending = "line" THEN clean \union {p} ELSE clean \ {p}

\* The next piece starts with the line after those the client was told have arrived.
Resume(p) ==
  \E s \in sender[p].stage :
    IF Live[s] = NoStage \/ sender[p].got >= Lines
    THEN \* unknown or expired, or nothing left to send: the client starts again
         /\ stages' = Live
         /\ sender' = [sender EXCEPT ![p] = NothingSent]
         /\ UNCHANGED <<result, clean, issued>>
    ELSE \E upto \in sender[p].got + 1..Lines, ending \in {"line", "newline", "part"} :
           LET text == Joined(Live[s].text, Piece(sender[p].got + 1, upto, ending))
           IN IF Parses(text)
              THEN Finish(p, text, [Live EXCEPT ![s] = NoStage]) /\ UNCHANGED clean
              ELSE /\ Keep(p, s, text)
                   /\ clean' = IF ending = "line" THEN clean ELSE clean \ {p}

-----------------------------------------------------------------------------

StageTypeOK ==
  /\ \A s \in Stage :
       /\ stages[s].expires \in Nat
       /\ \A i \in DOMAIN stages[s].text : stages[s].text[i] \in Line
  /\ \A p \in Payload : sender[p].stage \subseteq issued /\ sender[p].got \in Nat
  /\ clean \subseteq Payload /\ issued \subseteq Stage
  /\ Cardinality(Staged(stages)) <= MaxStages

\* A payload put together from pieces that end with their last line is the payload: no line is
\* missing, repeated or cut, whatever was evicted or expired on the way.
AssembledWhole ==
  \A p \in clean : result[p] # <<>> => result[p] = Whole(1, Lines)

\* The same wherever a piece ends, when each resume starts after the lines it was told.
ResumeKeepsEveryLine ==
  \A p \in Payload : result[p] # <<>> => result[p] = Whole(1, Lines)

\* A stage that has not expired goes only when its payload is complete, or as the oldest of a
\* full table.
StagesLostLast ==
  [][\A s \in Staged(stages) :
       stages'[s] = NoStage /\ now <= stages[s].expires
       => \/ \E p \in Payload : s \in sender[p].stage /\ result'[p] # result[p]
          \/ Cardinality(Staged(Live)) >= MaxStages /\ s \in Oldest(Live)]_stageVars

=============================================================================
