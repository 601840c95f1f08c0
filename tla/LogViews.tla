------------------------------ MODULE LogViews ------------------------------
(***************************************************************************)
(* The bounded view of a stream and the way back to its bytes: the         *)
(* outline of internal/logs, the buffer that collects the stream and the   *)
(* read_block that recovers lines of its spill.                            *)
(*                                                                         *)
(* A stream is a sequence of tokens, one byte each: "w" and "v" are text,  *)
(* "1" and "2" digits, "T" a timestamp, " " a blank, "lf", "cr", "esc",    *)
(* "bel", "[", "]" and "\\" themselves.  The tokens a template captures    *)
(* are the runs of digits; the fixed text around a rendered row is         *)
(* RowWidth bytes wide, a seam SeamWidth, a clamp mark ClampWidth.         *)
(***************************************************************************)
EXTENDS Integers, FiniteSets, Sequences, SequencesExt, FiniteSetsExt

CONSTANTS
    Chunks,         \* what a command may write at once
    MaxWrites,      \* bound: writes of the command
    CaptureLimit,   \* bytes a boundedBuffer retains
    FirstLines,     \* number of the first line: 1, or a file window's offset + 1
    LineMax, Budget, MinLines, MinBytes,    \* Options
    RunCap,         \* spanRunCap
    ListMax,        \* values a slot's row has room for (slotWidth)
    OpaqueMin,      \* more distinct values than these are sampled
    RowWidth, SeamWidth, ClampWidth

ASSUME BoundsAssumption ==
    /\ {MaxWrites, CaptureLimit, LineMax, MinLines, MinBytes, OpaqueMin,
        RowWidth, SeamWidth, ClampWidth} \subseteq Nat
    /\ FirstLines \subseteq Nat \ {0}
    /\ RunCap \in Nat \ {0} /\ ListMax \in Nat \ {0}
    /\ Budget \in Nat /\ Budget \div 2 >= SeamWidth + 3

VARIABLES
    buf,        \* boundedBuffer.buf
    lost,       \* boundedBuffer.dropped
    writes,     \* writes so far
    first,      \* number of the stream's first line
    view,       \* what the client was handed
    got         \* the last read_block: the row it was for, and the lines it returned
vars == <<buf, lost, writes, first, view, got>>
-----------------------------------------------------------------------------
(***************************************************************************)
(* terminalNormalize                                                       *)
(***************************************************************************)
Params == {"1", "2"}                        \* 0x30-0x3F
Intermediates == {" "}                      \* 0x20-0x2F
Finals == {"w", "v", "T", "[", "]", "\\"}   \* 0x40-0x7E
Token == Params \union Intermediates \union Finals \union {"lf", "cr", "esc", "bel"}

ASSUME ChunksAssumption == Chunks \subseteq Seq(Token)

At(text, i) == IF i \in 1..Len(text) THEN text[i] ELSE "end"

Skip(text, i, S) == Min({j \in i..(Len(text) + 1) : At(text, j) \notin S})

CSIEnd(text, i) ==
    LET j == Skip(text, Skip(text, i + 2, Params), Intermediates)
    IN  IF At(text, j) \in Finals THEN j ELSE 0

\* A scan that does not stop at the end of the line.
OSCStopsCrossing(text, i) ==
    {j \in (i + 2)..Len(text) : \/ text[j] = "bel"
                                \/ text[j] = "esc" /\ At(text, j + 1) = "\\"}

OSCStops(text, i) ==
    {j \in (i + 2)..Len(text) : \/ text[j] \in {"bel", "lf"}
                                \/ text[j] = "esc" /\ At(text, j + 1) = "\\"}

OSCEnd(text, i) ==
    LET stops == OSCStops(text, i)
    IN  CASE stops = {} -> 0
          [] stops # {} /\ At(text, Min(stops)) = "lf" -> 0
          [] stops # {} /\ At(text, Min(stops)) = "bel" -> Min(stops)
          [] stops # {} /\ At(text, Min(stops)) = "esc" -> Min(stops) + 1

\* The last position of the control sequence at i, 0 if it stays visible.
ControlEnd(text, i) ==
    CASE At(text, i) = "esc" /\ At(text, i + 1) = "[" -> CSIEnd(text, i)
      [] At(text, i) = "esc" /\ At(text, i + 1) = "]" -> OSCEnd(text, i)
      [] OTHER -> 0

\* One turn of the pass: s is the output, where its last line starts, and the
\* next position to look at.
Turn(text, s, i) ==
    CASE i < s.next -> s
      [] i >= s.next /\ ControlEnd(text, i) > 0 -> [s EXCEPT !.next = ControlEnd(text, i) + 1]
      [] i >= s.next /\ text[i] = "cr" /\ At(text, i + 1) = "lf" ->
            [out |-> Append(s.out, "lf"), start |-> Len(s.out) + 1, next |-> i + 2]
      [] i >= s.next /\ text[i] = "cr" /\ At(text, i + 1) # "lf" ->
            [s EXCEPT !.out = SubSeq(s.out, 1, s.start)]
      [] i >= s.next /\ text[i] = "lf" ->
            [s EXCEPT !.out = Append(s.out, "lf"), !.start = Len(s.out) + 1]
      [] OTHER -> [s EXCEPT !.out = Append(s.out, text[i])]

terminalNormalize(text) ==
    FoldLeftDomain(LAMBDA s, i : Turn(text, s, i),
                   [out |-> <<>>, start |-> 0, next |-> 1], text).out
-----------------------------------------------------------------------------
(***************************************************************************)
(* Lines, templates and groups                                             *)
(***************************************************************************)
\* strings.Split(text, "\n")
Split(text) ==
    FoldLeft(LAMBDA ls, c : IF c = "lf" THEN Append(ls, <<>>)
                            ELSE Append(Front(ls), Append(Last(ls), c)),
             << <<>> >>, text)

splitRawLines(text) ==
    LET ls == Split(text)
    IN  IF text = <<>> THEN <<>> ELSE IF Last(ls) = <<>> THEN Front(ls) ELSE ls

\* The line without its timestamp and the blanks around it.
stripLinePrefix(line) ==
    LET from == IF At(line, 1) = "T" THEN 2 ELSE 1
        text == {i \in from..Len(line) : line[i] # " "}
    IN  IF text = {} THEN <<>> ELSE SubSeq(line, Min(text), Max(text))

\* Every run of digits becomes one slot, its digits the slot's value.
Templatize(body) ==
    FoldLeft(LAMBDA t, c :
                 CASE c \notin Params -> [t EXCEPT !.template = Append(@, c)]
                   [] c \in Params /\ t.template # <<>> /\ Last(t.template) = "slot" ->
                        [t EXCEPT !.slots[Len(t.slots)] = Append(@, c)]
                   [] OTHER -> [template |-> Append(t.template, "slot"),
                                slots |-> Append(t.slots, <<c>>)],
             [template |-> <<>>, slots |-> <<>>], body)

\* The numbers of a set in order: the k-th has k - 1 below it.
Ascending(S) ==
    [k \in 1..Cardinality(S) |-> CHOOSE n \in S : Cardinality({m \in S : m < n}) = k - 1]

\* Of each line, whether it shows anything, its template and the values of its slots.
ShapeOf(body) ==
    [shown |-> body # <<>>, template |-> Templatize(body).template, slots |-> Templatize(body).slots]

Shapes(lines) == [i \in DOMAIN lines |-> ShapeOf(stripLinePrefix(lines[i]))]

Alike(shapes, i) ==
    {j \in DOMAIN shapes : shapes[j].shown /\ shapes[j].template = shapes[i].template}

\* The groups, in the order of their first lines; "members" are indices of shapes.
Group(shapes, members, firstLine) ==
    [template |-> shapes[members[1]].template,
     rows  |-> [k \in DOMAIN members |-> shapes[members[k]].slots],
     lines |-> [k \in DOMAIN members |-> firstLine + members[k] - 1]]

Groups(shapes, firstLine) ==
    LET leaders == Ascending({i \in DOMAIN shapes : shapes[i].shown /\ i = Min(Alike(shapes, i))})
    IN  [g \in DOMAIN leaders |-> Group(shapes, Ascending(Alike(shapes, leaders[g])), firstLine)]

GroupTemplates(lines, firstLine) == Groups(Shapes(lines), firstLine)
-----------------------------------------------------------------------------
(***************************************************************************)
(* Rows of a view                                                          *)
(***************************************************************************)
Row(kind, of, width) == [kind |-> kind, of |-> of, width |-> width, cut |-> 0]

LineRow(line) == Row("line", [text |-> line], Len(line))
TextRows(text) ==
    LET lines == Split(text) IN [i \in DOMAIN lines |-> LineRow(lines[i])]

\* The runs of consecutive numbers in S, in order; those past RunCap are counted.
RunsOf(S) ==
    LET los == Ascending({n \in S : n - 1 \notin S})
    IN  [r \in DOMAIN los |-> [lo |-> los[r],
                               hi |-> Min({n \in S : n >= los[r] /\ n + 1 \notin S})]]

RunTotal(runs) == FoldLeft(LAMBDA n, r : n + r.hi - r.lo + 1, 0, runs)

renderLineSet(lines) ==
    LET runs == RunsOf(ToSet(lines))
        listed == SubSeq(runs, 1, Min({RunCap, Len(runs)}))
    IN  [listed |-> listed, overflow |-> RunTotal(SubSeq(runs, Len(listed) + 1, Len(runs)))]

Number(digits) == FoldLeft(LAMBDA n, c : 10 * n + (IF c = "1" THEN 1 ELSE 2), 0, digits)

Rising(values) == \A i \in 1..(Len(values) - 1) : Number(values[i]) < Number(values[i + 1])

\* What the row of a slot says of its values.
describeSlot(uniq, nrows) ==
    LET List(k) == [shape |-> "list", values |-> SubSeq(uniq, 1, k), more |-> Len(uniq) - k]
    IN  IF Len(uniq) > 2 /\ Rising(uniq)
            THEN [shape |-> "range", values |-> <<uniq[1], Last(uniq)>>, more |-> Len(uniq) - 2]
        ELSE IF Len(uniq) = nrows /\ Len(uniq) > OpaqueMin
            THEN [List(2) EXCEPT !.shape = "sample"]
        ELSE List(Min({ListMax, Len(uniq)}))

Widths(values) == FoldLeft(LAMBDA n, v : n + Len(v) + 1, 0, values)

\* The distinct elements of a sequence, in the order they first occur.
Uniq(s) == FoldLeft(LAMBDA u, x : IF Contains(u, x) THEN u ELSE Append(u, x), <<>>, s)

\* A slot that never changes is part of the head, each other has a row.
RenderTemplateGroup(g) ==
    LET column(i) == [k \in DOMAIN g.rows |-> g.rows[k][i]]
        slots == DOMAIN g.rows[1]
        varying == Ascending({i \in slots : Len(Uniq(column(i))) > 1})
        fixed == [i \in slots \ ToSet(varying) |-> g.rows[1][i]]
        head == Row("group", [template |-> g.template, fixed |-> fixed, count |-> Len(g.rows),
                              span |-> renderLineSet(g.lines)],
                    RowWidth + Len(g.template))
        slotRow(i) ==
            LET said == describeSlot(Uniq(column(i)), Len(g.rows))
            IN  Row("slot", [template |-> g.template, slot |-> i, said |-> said],
                    RowWidth + Widths(said.values))
    IN  <<head>> \o [v \in DOMAIN varying |-> slotRow(varying[v])]

RowsWidth(rows) == IF rows = <<>> THEN 0
                   ELSE FoldLeft(LAMBDA n, r : n + r.width, Len(rows) - 1, rows)

ClampLines(rows) ==
    [i \in DOMAIN rows |->
        IF rows[i].width > LineMax
        THEN [rows[i] EXCEPT !.width = LineMax + ClampWidth, !.cut = rows[i].width - LineMax]
        ELSE rows[i]]

Prefix(rows, k) == SubSeq(rows, 1, k)
Suffix(rows, k) == SubSeq(rows, Len(rows) - k + 1, Len(rows))
MarkerLen(dropped) == SeamWidth + (IF dropped < 10 THEN 1 ELSE 2)

\* How many rows of the head are kept, whole, and how many of the tail.
HeadRowsGreedy(rows) == Max({h \in 0..Len(rows) : RowsWidth(Prefix(rows, h)) <= Budget - SeamWidth - 2})

HeadRows(rows) == Max({h \in 0..Len(rows) : RowsWidth(Prefix(rows, h)) <= Budget \div 2})

TailRows(rows, h) ==
    LET overhead == IF h > 0 THEN RowsWidth(Prefix(rows, h)) + 2 ELSE 1
        Fits(k) == overhead + MarkerLen(Len(rows) - k - h) + RowsWidth(Suffix(rows, k)) <= Budget
    IN  Max({t \in 0..(Len(rows) - h) : \A k \in 1..t : Fits(k)})

\* No whole row fits: what is kept of the first one, around a seam.
PartOf(row, width) == Row("part", row.of, Min({width, row.width}))

PartsOf(row, later, marker, room) ==
    IF room < 2 THEN <<PartOf(row, Budget)>>
    ELSE <<PartOf(row, (room * 4) \div 7), Row("cut", [later |-> later], marker),
           PartOf(row, room - (room * 4) \div 7)>>

HardCut(rows) ==
    LET later == Len(rows) - 1
        marker == SeamWidth + (IF later = 0 THEN 2 ELSE 3)
    IN  [rows |-> PartsOf(rows[1], later, marker, Budget - marker - 2), dropped |-> later]

\* The first h rows, the last t, and a seam that counts the n between them.
Seamed(rows, h, t, n) ==
    [rows |-> Prefix(rows, h) \o <<Row("seam", [dropped |-> n], MarkerLen(n))>> \o Suffix(rows, t),
     dropped |-> n]

KeepEnds(rows, h, t) ==
    IF h = 0 /\ t = 0 THEN HardCut(rows) ELSE Seamed(rows, h, t, Len(rows) - h - t)

KeepHead(rows, h) == KeepEnds(rows, h, TailRows(rows, h))

BudgetCap(rows) ==
    IF RowsWidth(rows) <= Budget THEN [rows |-> rows, dropped |-> 0]
    ELSE KeepHead(rows, HeadRows(rows))
-----------------------------------------------------------------------------
(***************************************************************************)
(* Analyze and Compact                                                     *)
(***************************************************************************)
\* An elision judged by the text the terminal shows.
ResultOfShown(rows, raw, outlined, dropped, groups) ==
    [rows |-> rows, elided |-> rows # TextRows(terminalNormalize(raw)),
     outlined |-> outlined, dropped |-> dropped, groups |-> groups]

\* Elided is judged by the bytes the command wrote.
deliver(rows, raw, outlined, dropped, groups) ==
    [rows |-> rows, elided |-> rows # TextRows(raw), outlined |-> outlined,
     dropped |-> dropped, groups |-> groups]

Bounded(norm) == BudgetCap(ClampLines(TextRows(norm)))

OutlineRows(groups) ==
    IF groups = <<>> THEN <<LineRow(<<>>)>>
    ELSE FlattenSeq([g \in DOMAIN groups |-> RenderTemplateGroup(groups[g])])

Outline(groups) == BudgetCap(ClampLines(OutlineRows(groups)))

\* The outline, unless it is no shorter than the text under the same budget.
Shorter(raw, groups, bounded, outline) ==
    IF RowsWidth(outline.rows) >= RowsWidth(bounded.rows)
    THEN deliver(bounded.rows, raw, FALSE, bounded.dropped, groups)
    ELSE deliver(outline.rows, raw, TRUE, outline.dropped, groups)

ViewOf(raw, norm, groups) == Shorter(raw, groups, Bounded(norm), Outline(groups))

AnalyzeLines(raw, norm, lines, firstLine) ==
    IF raw = <<>> \/ (Len(lines) < MinLines /\ Len(raw) <= MinBytes)
    THEN deliver(TextRows(raw), raw, FALSE, 0, <<>>)
    ELSE ViewOf(raw, norm, GroupTemplates(lines, firstLine))

AnalyzeText(raw, norm, firstLine) == AnalyzeLines(raw, norm, splitRawLines(norm), firstLine)

Analyze(raw, firstLine) == AnalyzeText(raw, terminalNormalize(raw), firstLine)

NoView == [made |-> FALSE]
NoGot == [row |-> 0]

\* The view and the bytes its spill id recovers.
Stream(res, spilled, skipped) ==
    [made |-> TRUE, rows |-> res.rows, elided |-> res.elided, outlined |-> res.outlined,
     dropped |-> res.dropped, groups |-> res.groups, spill |-> spilled, skipped |-> skipped]

exact(raw) == Stream(deliver(TextRows(raw), raw, FALSE, 0, <<>>), <<>>, TRUE)

\* off: LIGHT_NO_COMPACT; stored: whether the spill store accepts the bytes.
Backed(raw, res, off, stored) ==
    CASE off -> exact(raw)
      [] ~off /\ ~res.elided -> Stream(res, <<>>, FALSE)
      [] ~off /\ res.elided /\ ~stored -> exact(raw)
      [] ~off /\ res.elided /\ stored -> Stream(res, <<raw>>, FALSE)

Compact(raw, firstLine, off, stored) == Backed(raw, Analyze(raw, firstLine), off, stored)

\* A file window is shown as an outline backed by a spill, or numbered and whole.
Window(raw, stream) == IF stream.outlined /\ stream.spill # <<>> THEN stream ELSE exact(raw)

WindowOf(raw, res, off, stored) ==
    IF res.outlined THEN Window(raw, Backed(raw, res, off, stored)) ELSE exact(raw)

compactWindow(raw, firstLine, off, stored) == WindowOf(raw, Analyze(raw, firstLine), off, stored)
-----------------------------------------------------------------------------
(***************************************************************************)
(* The spill a read_block selects from                                     *)
(***************************************************************************)
selectRanges(value, runs) ==
    LET lines == Split(value)
        Part(r) == IF r.lo > Len(lines) THEN <<>>
                   ELSE SubSeq(lines, r.lo, Min({r.hi, Len(lines)}))
    IN  FlattenSeq([r \in DOMAIN runs |-> Part(runs[r])])
-----------------------------------------------------------------------------
Init ==
    /\ buf = <<>> /\ lost = 0 /\ writes = 0
    /\ first \in FirstLines
    /\ view = NoView
    /\ got = NoGot

\* The command writes; what does not fit the buffer is counted and dropped.
Write(chunk) ==
    LET room == Max({CaptureLimit - Len(buf), 0})
    IN  /\ ~view.made
        /\ writes < MaxWrites
        /\ writes' = writes + 1
        /\ buf' = buf \o SubSeq(chunk, 1, Min({room, Len(chunk)}))
        /\ lost' = lost + Max({Len(chunk) - room, 0})
        /\ UNCHANGED <<first, view, got>>

\* The command ended: its stream is shown.
ShowStream(off, stored) ==
    /\ ~view.made
    /\ first = 1
    /\ view' = Compact(buf, first, off, stored)
    /\ UNCHANGED <<buf, lost, writes, first, got>>

\* A window of a file is shown; the lines of a window all end.
ShowWindow(off, stored) ==
    /\ ~view.made
    /\ buf # <<>> /\ Last(buf) = "lf"
    /\ view' = compactWindow(buf, first, off, stored)
    /\ UNCHANGED <<buf, lost, writes, first, got>>

\* The client recovers the lines a row of the outline names.
ReadBlock(i) ==
    /\ view.made /\ view.spill # <<>> /\ got = NoGot
    /\ i \in DOMAIN view.rows /\ view.rows[i].kind = "group"
    /\ got' = [row |-> i, lines |-> selectRanges(view.spill[1], view.rows[i].of.span.listed)]
    /\ UNCHANGED <<buf, lost, writes, first, view>>

Next ==
    \/ \E chunk \in Chunks : Write(chunk)
    \/ \E off, stored \in BOOLEAN : ShowStream(off, stored) \/ ShowWindow(off, stored)
    \/ view.made /\ \E i \in DOMAIN view.rows : ReadBlock(i)

Spec == Init /\ [][Next]_vars
-----------------------------------------------------------------------------
(***************************************************************************)
(* Properties                                                              *)
(***************************************************************************)
\* A raw line by itself: what a terminal leaves of a line that ends, of the
\* i-th line of a stream (the last one may not end), and its shape.
EndedBody(line) == stripLinePrefix(Front(terminalNormalize(Append(line, "lf"))))

BodyOf(raw, i) ==
    IF i < Len(Split(raw)) THEN EndedBody(Split(raw)[i])
    ELSE stripLinePrefix(terminalNormalize(Split(raw)[i]))

\* The groups are the lines of the raw stream, each counted from "first".
GroupsAre(groups, raw) ==
    LET Telling == {i \in DOMAIN splitRawLines(raw) : BodyOf(raw, i) # <<>>}
        Holds(g, i) == \E k \in DOMAIN groups[g].lines :
                            /\ groups[g].lines[k] = i + first - 1
                            /\ [template |-> groups[g].template, slots |-> groups[g].rows[k]]
                               = Templatize(BodyOf(raw, i))
    IN  /\ \A i \in Telling : \E g \in DOMAIN groups : Holds(g, i)
        /\ FoldLeft(LAMBDA n, g : n + Len(g.lines), 0, groups) = Cardinality(Telling)

NamedIn(runs) == UNION {r.lo .. r.hi : r \in ToSet(runs)}

\* A row names lines of its group only and counts the others; a row of values
\* accounts for every value that occurs.
RowIsOf(row, g) ==
    CASE row.kind = "group" ->
            LET named == NamedIn(row.of.span.listed)
            IN  /\ row.of.count = Len(g.lines)
                /\ named \subseteq ToSet(g.lines)
                /\ Cardinality(named) + row.of.span.overflow = Len(g.lines)
                /\ \A k \in DOMAIN g.rows, i \in DOMAIN row.of.fixed : g.rows[k][i] = row.of.fixed[i]
      [] row.kind = "slot" ->
            LET values == {g.rows[k][row.of.slot] : k \in DOMAIN g.rows}
                said == row.of.said
            IN  /\ ToSet(said.values) \subseteq values
                /\ Len(said.values) + said.more = Cardinality(values)
                /\ said.shape = "range" =>
                        \A v \in values : Number(v) \in Number(said.values[1])..Number(said.values[2])
      [] OTHER -> TRUE

(* "Every template group is rendered, INCLUDING groups of one" (analyze.go, *)
(* Analyze) and "Every number named is still a real raw line number"        *)
(* (collapse.go, renderLineSet): an outline accounts for every line of the  *)
(* raw stream that shows anything, once, under the number of that line in   *)
(* the raw stream, whatever control sequences the stream holds and wherever *)
(* the writes cut it; and its rows say nothing a line of the group does not *)
(* hold.                                                                    *)
OutlineNamesEveryLine ==
    view.made /\ view.outlined =>
        LET heads == {i \in DOMAIN view.rows : view.rows[i].kind = "group"}
        IN  /\ GroupsAre(view.groups, buf)
            /\ \A i \in DOMAIN view.rows : view.rows[i].kind \in {"group", "slot"} =>
                    \E g \in ToSet(view.groups) :
                        g.template = view.rows[i].of.template /\ RowIsOf(view.rows[i], g)
            /\ view.dropped = 0 /\ (\A i \in DOMAIN view.rows : view.rows[i].kind # "part") =>
                    {view.rows[i].of.template : i \in heads}
                    = {g.template : g \in ToSet(view.groups)}

\* Every line read_block returned has the template of the row it was asked for.
GotMatches ==
    LET row == view.rows[got.row].of
    IN  /\ Len(got.lines) = Cardinality(NamedIn(row.span.listed))
        /\ \A i \in DOMAIN got.lines : Templatize(EndedBody(got.lines[i])).template = row.template

(* "If the view handed to a model is not the bytes the command produced,    *)
(* the exact bytes must be recoverable, and the pointer that recovers them  *)
(* must resolve" (deliver.go): a view is the raw stream or has its spill,   *)
(* whether or not the store took it, and the lines an outline names are     *)
(* the lines read_block finds under those numbers.  (For a file window that *)
(* starts past line 1 the last part does not hold.)                         *)
ElisionRecoverable ==
    view.made =>
        /\ view.spill = <<buf>> \/ view.rows = TextRows(buf)
        /\ first = 1 /\ got # NoGot => GotMatches

(* "Every number named is still a real raw line number that read_block      *)
(* resolves byte-for-byte against the spill" (collapse.go, renderLineSet),  *)
(* said of every outline, those of file windows included.                   *)
WindowLinesResolve == got # NoGot => GotMatches

\* The rows of a view before its budget.
RowsBeforeBudget ==
    ClampLines(IF view.outlined THEN OutlineRows(view.groups)
               ELSE TextRows(terminalNormalize(buf)))

(* BudgetCap "keeps whole lines from BOTH the head and the tail ... so a    *)
(* verdict on the last line survives as surely as the opening lines": a     *)
(* view that lost rows is within the budget and counts what it lost, and    *)
(* the last row that says anything is in it whenever it fits the half of    *)
(* the budget that is the tail's.                                           *)
EndsSurvive ==
    view.made /\ ~view.skipped /\ view.dropped > 0 =>
        LET all == RowsBeforeBudget
            kept == {i \in DOMAIN view.rows : view.rows[i].kind \in {"line", "group", "slot"}}
            said == {i \in DOMAIN all : all[i].width > 0}
            tail == Len(all) - Max(said) + 1
        IN  /\ RowsWidth(view.rows) <= Budget
            /\ (\A i \in DOMAIN view.rows : view.rows[i].kind # "part") =>
                    Cardinality(kept) + view.dropped = Len(all)
            /\ said # {} /\ RowsWidth(Suffix(all, tail)) + MarkerLen(Len(all)) + 2
                              <= Budget - Budget \div 2 =>
                    Suffix(all, tail) = Suffix(view.rows, tail)
=============================================================================
