---------------------------- MODULE MCTextTools -----------------------------
(***************************************************************************)
(* An instance of TextTools: what a command writes, the contents of files  *)
(* and the requests that meet them.                                        *)
(***************************************************************************)
EXTENDS TextTools

\* Lines of one template under three values, a redrawn line, a control
\* sequence cut off by the end of its line and one cut by the end of a write,
\* a bell, blank lines, and lines wider than LineMax.
MCChunks == {
    <<"w", "1", "cr", "lf">>,
    <<"T", " ", "w", "1", "2", "lf">>,
    <<"v", "cr", "w", "2", "lf">>,
    <<"esc", "]", "v", "lf">>,
    <<"v", "bel", "w", "lf", "lf">>,
    <<"esc", "[", "1", "w", "v">>,
    [i \in 1..8 |-> IF i = 8 THEN "lf" ELSE "v"],
    [i \in 1..7 |-> "v"]}

MCChar == {"a", "b", "{", "}", "'"}

A == <<"a">>
O == <<"{">>
C == <<"}">>
Q == <<"'", "{">>

MCFiles ==
    {[lines |-> f, eol |-> IF f[1] = C /\ Len(f) > 1 THEN "crlf" ELSE "lf"] :
        f \in UNION {[1..n -> {A, O, C}] : n \in 1..3}}
    \union {[lines |-> <<Q, C>>, eol |-> "lf"], [lines |-> <<A, Q, C>>, eol |-> "mixed"]}

Span(s, e, sg, eg, new) ==
    [start |-> s, end |-> e, startGuard |-> sg, endGuard |-> eg, new |-> new]
Valid(s) == s.end = 0 \/ s.end >= s.start

Singles == {Span(s, e, sg, eg, new) : s \in 1..3, e \in 0..3, sg \in {<<>>, A, C},
                                      eg \in {<<>>, C}, new \in {<<A>>, <<C>>, <<O, <<>> >>}}
Pairable == {Span(s, e, sg, <<>>, new) : s \in 1..3, e \in {0, 2}, sg \in {<<>>, A},
                                         new \in {<<A, A>>, <<C>>}}

MCBatches == {<<s>> : s \in {x \in Singles : Valid(x)}}
             \union {<<s, t>> : s \in {x \in Pairable : Valid(x)}, t \in {x \in Pairable : Valid(x)}}
MCSeds == [find : {"a", "}"}, replace : {"b"}, all : BOOLEAN, count : {0, 1, 2}]
=============================================================================
