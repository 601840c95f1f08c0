--------------------------- MODULE EditTransforms ---------------------------
(***************************************************************************)
(* The content transforms of light_file (internal/file/apply.go): a batch  *)
(* of spans resolved by line number and guard against one preimage, and a  *)
(* find and replace.                                                       *)
(*                                                                         *)
(* A line is a sequence of characters.  A client sends its spans from what *)
(* it last read of the file, which others change meanwhile: any number and *)
(* any guard may meet any content.  A transform depends on nothing but its *)
(* preimage, so each behaviour is one request.  Line endings are kept      *)
(* apart, as the one kind the file has or "mixed".                         *)
(***************************************************************************)
EXTENDS Integers, FiniteSets, Sequences, SequencesExt, FiniteSetsExt

CONSTANTS
    Char,           \* the characters of a line
    Files,          \* the contents a request may find, with their endings
    Batches,        \* the sequences of spans clients send
    Seds            \* the find and replace requests clients send

\* A batch has a span (TransformEdits refuses "no edits"); its numbers are any int.
Spans == [start : Int, end : Int, startGuard : Seq(Char), endGuard : Seq(Char),
          new : Seq(Seq(Char))]

InputsAreTyped ==
    /\ Files \subseteq [lines : Seq(Seq(Char)), eol : {"lf", "crlf", "mixed"}]
    /\ Batches \subseteq Seq(Spans) \ {<<>>}
    /\ Seds \subseteq [find : Char, replace : Char, all : BOOLEAN, count : Nat]

VARIABLES
    lines,          \* the lines of the file
    eol,            \* "lf", "crlf" or "mixed"
    answer          \* of the request
vars == <<lines, eol, answer>>

NoAnswer == [verb |-> "none"]
Refused == [verb |-> "refused"]
-----------------------------------------------------------------------------
(***************************************************************************)
(* Brackets                                                                *)
(***************************************************************************)
Openers == {"(", "[", "{"}
Closers == {")", "]", "}"}
Quotes == {"'", "dq", "bq"}

pair(open, close) == <<open, close>> \in {<<"(", ")">>, <<"[", "]">>, <<"{", "}">>}

Scan(s, c) ==
    CASE s.quote # "none" /\ s.escaped -> [s EXCEPT !.escaped = FALSE]
      [] s.quote # "none" /\ ~s.escaped /\ c = "\\" -> [s EXCEPT !.escaped = TRUE]
      [] s.quote # "none" /\ ~s.escaped /\ c = s.quote -> [s EXCEPT !.quote = "none"]
      [] s.quote = "none" /\ c \in Quotes -> [s EXCEPT !.quote = c]
      [] s.quote = "none" /\ c \in Openers -> [s EXCEPT !.stack = Append(@, c)]
      [] s.quote = "none" /\ c \in Closers ->
            IF s.stack # <<>> /\ pair(Last(s.stack), c)
            THEN [s EXCEPT !.stack = Front(@)] ELSE [s EXCEPT !.ok = FALSE]
      [] OTHER -> s

balanced(ls) ==
    LET s == FoldLeft(Scan, [stack |-> <<>>, quote |-> "none", escaped |-> FALSE, ok |-> TRUE],
                      FlattenSeq(ls))
    IN  s.ok /\ s.stack = <<>> /\ s.quote = "none"

closerOnly(line) == ToSet(line) \subseteq Closers \union {";", ",", " "}
-----------------------------------------------------------------------------
(***************************************************************************)
(* Spans                                                                   *)
(***************************************************************************)
replaceLines(ls, from, to, new) == SubSeq(ls, 1, from - 1) \o new \o SubSeq(ls, to + 1, Len(ls))

\* The first line from i on that is g, 0 if there is none.
FirstFrom(ls, i, g) ==
    LET found == {j \in i..Len(ls) : ls[j] = g} IN IF found = {} THEN 0 ELSE Min(found)

Candidates(ls, start, end) ==
    {i \in DOMAIN ls : ls[i] = start /\ (end # <<>> => FirstFrom(ls, i, end) # 0)}

locateGuardFirst(ls, start, end) ==
    LET found == Candidates(ls, start, end) IN IF found = {} THEN 0 ELSE Min(found)

\* The one line the guard may mean, 0 if there is none or more than one.
locateGuard(ls, start, end) ==
    LET found == Candidates(ls, start, end)
    IN  IF Cardinality(found) = 1 THEN Min(found) ELSE 0

NoEdit == [ok |-> FALSE]

resolveEdit(ls, span) ==
    LET moved == span.startGuard # <<>> /\ ls[span.start] # span.startGuard
        start == IF moved THEN locateGuard(ls, span.startGuard, span.endGuard) ELSE span.start
        bound == CASE span.end = 0 /\ span.endGuard = <<>> -> start
                   [] span.end = 0 /\ span.endGuard # <<>> -> FirstFrom(ls, start, span.endGuard)
                   [] span.end # 0 /\ moved -> start + span.end - span.start
                   [] OTHER -> span.end
        missed == span.endGuard # <<>> /\ ls[bound] # span.endGuard
        end == IF missed THEN FirstFrom(ls, start, span.endGuard) ELSE bound
    IN  CASE span.start \notin DOMAIN ls -> NoEdit
          [] span.start \in DOMAIN ls /\ start = 0 -> NoEdit
          [] OTHER ->
                IF bound \notin start..Len(ls) \/ end = 0 THEN NoEdit
                ELSE [ok |-> TRUE, start |-> start, end |-> end, new |-> span.new,
                      asked |-> span, adjusted |-> FALSE]

Beside(from, to) == (Min({from, to}) + 1)..Max({from, to})

\* The span's end moved over lines of closing brackets, when just one move balances.
autoSnap(ls, edit) ==
    LET Moved(d) == [edit EXCEPT !.end = @ + d, !.adjusted = TRUE]
        moves == {d \in (-3..3) \ {0} :
                    /\ edit.end + d \in edit.start..Len(ls)
                    /\ \A i \in Beside(edit.end, edit.end + d) : closerOnly(ls[i])
                    /\ balanced(replaceLines(ls, edit.start, edit.end + d, edit.new))}
    IN  IF Cardinality(moves) = 1 THEN Moved(Min(moves)) ELSE NoEdit

\* The elements of a set in order: the k-th has k - 1 before it.
Sorted(S, Before(_, _)) ==
    [k \in 1..Cardinality(S) |-> CHOOSE x \in S : Cardinality({y \in S : Before(y, x)}) = k - 1]

InOrder(edits) ==
    LET Before(i, j) == edits[i].start < edits[j].start \/ (edits[i].start = edits[j].start /\ i < j)
        order == Sorted(DOMAIN edits, Before)
    IN  [k \in DOMAIN order |-> edits[order[k]]]

Overlap(edits) == \E k \in 2..Len(edits) : edits[k].start <= edits[k - 1].end

\* From the last span to the first, so that no line number moves.
Applied(ls, edits) ==
    FoldRight(LAMBDA e, text : replaceLines(text, e.start, e.end, e.new), edits, ls)

Done(ls, edits) == [ok |-> TRUE, lines |-> ls, edits |-> edits]

\* The brackets of the result, or of the same edit with its end snapped.
Snapped(ls, edits, candidate) ==
    LET snap == IF Len(edits) = 1 /\ balanced(edits[1].new) THEN autoSnap(ls, edits[1]) ELSE NoEdit
    IN  IF balanced(candidate) THEN Done(candidate, edits)
        ELSE IF snap.ok THEN Done(Applied(ls, <<snap>>), <<snap>>) ELSE NoEdit

TransformEdits(batch, allowUnbalanced, ls) ==
    LET resolved == [k \in DOMAIN batch |-> resolveEdit(ls, batch[k])]
        edits == InOrder(resolved)
        candidate == Applied(ls, edits)
    IN  CASE \E k \in DOMAIN batch : ~resolved[k].ok -> NoEdit
          [] OTHER -> IF Overlap(edits) THEN NoEdit
                      ELSE IF allowUnbalanced THEN Done(candidate, edits)
                      ELSE Snapped(ls, edits, candidate)
-----------------------------------------------------------------------------
(***************************************************************************)
(* Find and replace                                                        *)
(***************************************************************************)
Places(ls) == UNION {{<<i, k>> : k \in DOMAIN ls[i]} : i \in DOMAIN ls}

\* The places of the character, in the order of the text.
Matches(ls, c) ==
    Sorted({p \in Places(ls) : ls[p[1]][p[2]] = c},
           LAMBDA p, q : p[1] < q[1] \/ (p[1] = q[1] /\ p[2] < q[2]))

validateMatchCount(n, sed) ==
    /\ n > 0
    /\ sed.count > 0 => n = sed.count
    /\ n > 1 => sed.all \/ sed.count > 0

sedText(ls, sed) ==
    LET found == Matches(ls, sed.find)
        limit == IF sed.all THEN Len(found) ELSE IF sed.count > 0 THEN sed.count ELSE 1
        hit == {found[k] : k \in 1..limit}
    IN  IF ~validateMatchCount(Len(found), sed) THEN NoEdit
        ELSE Done([i \in DOMAIN ls |-> [k \in DOMAIN ls[i] |->
                        IF <<i, k>> \in hit THEN sed.replace ELSE ls[i][k]]], <<>>)
-----------------------------------------------------------------------------
\* Any CRLF in the preimage makes every ending of the result one.
Endings(after) == IF eol # "lf" /\ Len(after) > 1 THEN "crlf" ELSE "lf"

Init ==
    /\ \E f \in Files : lines = f.lines /\ eol = f.eol
    /\ answer = NoAnswer

\* Answer the request with what its transform did, or refuse it.
Answer(r, ok) ==
    IF r.ok THEN /\ lines' = r.lines
                 /\ eol' = Endings(r.lines)
                 /\ answer' = ok
    ELSE answer' = Refused /\ UNCHANGED <<lines, eol>>

Edit(batch, allowUnbalanced) ==
    /\ answer = NoAnswer
    /\ \E r \in {TransformEdits(batch, allowUnbalanced, lines)} :
        Answer(r, IF r.ok THEN [verb |-> "edit", edits |-> r.edits, spans |-> Len(batch),
                                allow |-> allowUnbalanced] ELSE Refused)

Sed(sed) ==
    /\ answer = NoAnswer
    /\ \E r \in {sedText(lines, sed)} : Answer(r, [verb |-> "sed", sed |-> sed])

Next ==
    \/ \E batch \in Batches, allow \in BOOLEAN : Edit(batch, allow)
    \/ \E sed \in Seds : Sed(sed)

Spec == Init /\ [][Next]_vars
-----------------------------------------------------------------------------
(***************************************************************************)
(* Properties                                                              *)
(***************************************************************************)
\* The lines between the spans, in their order, with each span's lines in its place.
Woven(ls, edits) ==
    LET Gap(k) == SubSeq(ls, IF k = 1 THEN 1 ELSE edits[k - 1].end + 1, edits[k].start - 1)
        Piece(k) == Gap(k) \o edits[k].new
    IN  FlattenSeq([k \in DOMAIN edits |-> Piece(k)])
        \o SubSeq(ls, Last(edits).end + 1, Len(ls))

\* The edit is of the lines its span names.
Guarded(ls, e) ==
    LET asked == e.asked
        Ends(k) == asked.endGuard # <<>> => ls[k] = asked.endGuard
    IN  /\ asked.startGuard # <<>> => ls[e.start] = asked.startGuard
        /\ e.start # asked.start =>
                \A i \in DOMAIN ls \ {e.start} :
                    ls[i] = asked.startGuard => ~ \E j \in i..Len(ls) : Ends(j)
        /\ \E k \in e.start..Len(ls) :
                /\ Ends(k)
                /\ asked.end # 0 /\ asked.endGuard = <<>> => k - e.start = asked.end - asked.start
                /\ ~e.adjusted => k = e.end
                /\ \A i \in Beside(k, e.end) : closerOnly(ls[i])

(* "TransformEdits resolves every span against one preimage and applies the *)
(* non-overlapping set bottom-up, so line numbers never drift" (apply.go):  *)
(* an accepted batch replaces the lines its spans and guards name, each     *)
(* span by its own lines, and nothing else, however stale the numbers; a    *)
(* moved guard was unique; a snapped end moved over closing brackets only;  *)
(* brackets balance unless the client waived it; and a file with one kind   *)
(* of line ending keeps it.                                                 *)
EditsExact ==
    [][/\ answer'.verb = "edit" =>
            /\ lines' = Woven(lines, answer'.edits)
            /\ Len(answer'.edits) = answer'.spans
            /\ \A e \in ToSet(answer'.edits) : Guarded(lines, e)
            /\ answer'.allow \/ balanced(lines')
       /\ answer'.verb = "sed" =>
            lines' = [i \in DOMAIN lines |-> [k \in DOMAIN lines[i] |->
                        IF lines[i][k] = answer'.sed.find
                        THEN answer'.sed.replace ELSE lines[i][k]]]
       /\ answer'.verb \in {"edit", "sed"} /\ Len(lines) > 1 /\ Len(lines') > 1 /\ eol # "mixed" =>
            eol' = eol]_vars
=============================================================================
