----------------------------- MODULE ReadDedup ------------------------------
(***************************************************************************)
(* The read lane of light_file: readWindow and readItems with the shared   *)
(* response budget, the continuation cursor and the dedup ledger.          *)
(*                                                                         *)
(* An item is one window of one path.  A rendered section is a number of   *)
(* units SecLen[item][version]; a stub is StubLen units long; one response *)
(* carries at most Budget units.  The server handles one request at a      *)
(* time, but a batch reads its files one by one while other processes may  *)
(* write them.                                                             *)
(***************************************************************************)
EXTENDS ReadLedger

CONSTANTS Items, Paths, PathOf,   \* windows, files, and the file of a window
          Versions, SecLen,       \* contents of a file, and section lengths
          Epochs,                 \* context epochs the client reads under
          Batches,                \* the item lists the client sends
          Budget, StubLen,        \* readBudget, and the length of a stub
          MaxTime,                \* bound on the clock
          MaxReads,               \* bound on the reads a behaviour starts
          MaxWrites,              \* bound on the writes to the files
          Gone, None              \* a missing file; no request, no cursor

ASSUME ReadAssumption ==
    /\ PathOf \in [Items -> Paths]
    /\ SecLen \in [Items -> [Versions -> Nat \ {0}]]
    /\ Batches \subseteq Seq(Items) \ {<<>>}
    /\ Budget \in Nat \ {0} /\ StubLen \in Nat \ {0}
    /\ MaxTime \in Nat /\ MaxReads \in Nat /\ MaxWrites \in Nat
    /\ Gone \notin Versions

VARIABLES
    file,       \* [Paths -> version or Gone]
    ledger,     \* the dedup ledger
    now,        \* the clock
    req,        \* the batch request in progress, or None
    cursor,     \* the continuation the client holds, or None
    reads,      \* reads started
    writes,     \* writes to the files
    received,   \* history: <<window, unit>> the client has received
    cut,        \* history: windows marked by a response that did not carry them whole
    stubbed,    \* history: windows the last response answered with a stub
    got,        \* history: the last unit received of the batch in progress
    whole,      \* history: every unit of a forced batch so far followed the one before
    steady      \* history: no file has changed since the batch began

vars == <<file, ledger, now, req, cursor, reads, writes, received, cut, stubbed, got,
          whole, steady>>
world == <<file, now, writes>>
client == <<cursor, reads>>

\* A window as a caller sees it, and the ledger's key for it: the epoch, the path,
\* and the file's hash with the window folded in.
Window(e, i, v) == <<e, i, v>>
KeyOfFile(e, i, v) == <<e, CHOOSE j \in Items : PathOf[j] = PathOf[i], v>>  \* mutant
Key(e, i, v) == <<e, i, v>>
Windows == Epochs \X Items \X Versions
KeysOf(p) == {k \in Windows : PathOf[k[2]] = p}
Units(w) == {<<w, u>> : u \in 1..SecLen[w[2]][w[3]]}
Least(a, b) == IF a < b THEN a ELSE b

-----------------------------------------------------------------------------
Init ==
    /\ file \in [Paths -> Versions]
    /\ ledger = <<>>
    /\ now = 0
    /\ req = None
    /\ cursor = None
    /\ reads = 0
    /\ writes = 0
    /\ received = {}
    /\ cut = {}
    /\ stubbed = {}
    /\ got = None
    /\ whole = TRUE
    /\ steady = TRUE

\* readWindow: one file window, sized before the ledger is asked.  A first line
\* above the budget is cut there; the rest is recoverable only if the spill store
\* took it.
ReadWindow(e, i, force, spilled) ==
    LET v == file[PathOf[i]]
        k == Key(e, i, v)
        w == Window(e, i, v)
        shipped == Least(SecLen[i][v], Budget)
        readable == IF spilled THEN SecLen[i][v] ELSE shipped
    IN
    /\ req = None
    /\ v # Gone
    /\ reads < MaxReads
    /\ reads' = reads + 1
    /\ IF Elides(ledger, k, now, force)
       THEN /\ ledger' = Marked(ledger, k, now)
            /\ stubbed' = {w}
            /\ UNCHANGED <<received, cut>>
       ELSE /\ ledger' = Recorded(Marked(ledger, k, now), k, now, shipped)
            /\ stubbed' = {}
            /\ received' = received \cup {<<w, u>> : u \in 1..readable}
            /\ cut' = IF readable < SecLen[i][v] THEN cut \cup {w} ELSE cut
    /\ UNCHANGED <<world, req, cursor, got, whole, steady>>

-----------------------------------------------------------------------------
(* readItems. *)

\* A batch starts afresh; a cursor the client still held is forgotten.
StartBatch(e, items, force) ==
    /\ req = None
    /\ reads < MaxReads
    /\ reads' = reads + 1
    /\ req' = [epoch |-> e, items |-> items, force |-> force, item |-> 1, byte |-> 0,
               used |-> 0, out |-> <<>>, marked |-> {}, stubs |-> {}]
    /\ cursor' = None
    /\ got' = None
    /\ whole' = TRUE
    /\ steady' = TRUE
    /\ UNCHANGED <<world, ledger, received, cut, stubbed>>

\* The client sends the same items again with the cursor it was given.
ContinueBatch ==
    /\ req = None
    /\ cursor # None
    /\ req' = [epoch |-> cursor.epoch, items |-> cursor.items, force |-> cursor.force,
               item |-> cursor.item, byte |-> cursor.byte,
               used |-> 0, out |-> <<>>, marked |-> {}, stubs |-> {}]
    /\ UNCHANGED <<world, ledger, cursor, reads, received, cut, stubbed, got, whole, steady>>

\* The item the batch is at, and how much of it a response would still carry.
\* Only a fresh item, at byte 0, is put to the ledger.
Item == req.items[req.item]
Version == file[PathOf[Item]]
ItemKey == Key(req.epoch, Item, Version)
ItemWindow == Window(req.epoch, Item, Version)
Stubbed == req.byte = 0 /\ Elides(ledger, ItemKey, now, req.force)
Asked == IF req.byte = 0 THEN Marked(ledger, ItemKey, now) ELSE ledger
Length == IF Stubbed THEN StubLen ELSE SecLen[Item][Version]
RoomOfPage == Budget                                            \* mutant
Room == Budget - req.used
Fits == Length - req.byte <= Room
Carried == IF Fits THEN Length - req.byte ELSE Room

\* A part of a section that is not the whole of it, though its key is marked.
Partial == ~Stubbed /\ (req.byte > 0 \/ ~Fits)

\* The page with this item's part: the units as they reach the client.
Part == [n \in 1..Carried |-> [at |-> req.item, unit |-> req.byte + n,
                               win |-> ItemWindow, stub |-> Stubbed]]

\* The ledger is asked first and told of the delivery after.
Remember ==
    \E asked \in {Asked} :
        ledger' = IF Stubbed THEN asked ELSE Recorded(asked, ItemKey, now, Carried)

\* Unit y comes straight after unit x, or first if there is none.
Follows(x, y, items) ==
    IF x = None THEN y.at = 1 /\ y.unit = 1
    ELSE \/ y.at = x.at /\ y.unit = x.unit + 1
         \/ y.at = x.at + 1 /\ y.unit = 1 /\ x.unit = SecLen[items[x.at]][x.win[3]]

\* What a response that reaches the client adds to the history; a page is empty
\* only if it resumes just past the end of a section that shrank meanwhile.
Deliver ==
    \E page \in {req.out \o Part} :
    /\ received' = received \cup {<<page[n].win, page[n].unit>> :
                                    n \in {m \in 1..Len(page) : ~page[m].stub}}
    /\ got' = IF page = <<>> THEN got ELSE page[Len(page)]
    /\ whole' = (whole /\ \A n \in 1..Len(page) :
                   Follows(IF n = 1 THEN got ELSE page[n - 1], page[n], req.items))

Readable == Version # Gone /\ req.byte <= Length

\* An unreadable item, or a cursor past the item's section, fails the whole
\* request: what earlier items put into the page is thrown away.
FailBatch ==
    /\ req # None
    /\ ~Readable
    /\ cut' = cut \cup req.marked
    /\ stubbed' = {}
    /\ req' = None
    /\ cursor' = None
    /\ UNCHANGED <<world, ledger, reads, received, got, whole, steady>>

\* The item fits: it joins the page.  The last item ends the request.
AppendItem ==
    /\ req # None
    /\ Readable
    /\ Fits
    /\ Remember
    /\ IF req.item < Len(req.items)
       THEN /\ req' = [req EXCEPT !.item = req.item + 1, !.byte = 0,
                         !.used = req.used + Carried, !.out = req.out \o Part,
                         !.marked = IF Stubbed THEN @ ELSE @ \cup {ItemWindow},
                         !.stubs = IF Stubbed THEN @ \cup {ItemWindow} ELSE @]
            /\ UNCHANGED <<cursor, received, stubbed, got, whole>>
       ELSE /\ Deliver
            /\ stubbed' = IF Stubbed THEN req.stubs \cup {ItemWindow} ELSE req.stubs
            /\ req' = None
            /\ cursor' = None
    /\ cut' = IF Partial THEN cut \cup {ItemWindow} ELSE cut
    /\ UNCHANGED <<world, reads, steady>>

\* The item does not fit: the page takes what it has room for and names the
\* place to go on from.
NextByteAgain(r, carried) == r.byte                            \* mutant
NextByte(r, carried) == r.byte + carried
CutPage ==
    /\ req # None
    /\ Readable
    /\ ~Fits
    /\ Remember
    /\ Deliver
    /\ stubbed' = req.stubs
    /\ cut' = IF Partial THEN cut \cup {ItemWindow} ELSE cut
    /\ cursor' = [epoch |-> req.epoch, items |-> req.items, force |-> req.force,
                  item |-> req.item, byte |-> NextByte(req, Carried), instub |-> Stubbed]
    /\ req' = None
    /\ UNCHANGED <<world, reads, steady>>

-----------------------------------------------------------------------------
(* The files and the clock. *)

\* light_file commits new content and drops the path from the ledger.
ToolWrites(p, v) ==
    /\ req = None
    /\ file[p] # v
    /\ writes < MaxWrites
    /\ writes' = writes + 1
    /\ file' = [file EXCEPT ![p] = v]
    /\ ledger' = Invalidated(ledger, KeysOf(p))
    /\ steady' = FALSE
    /\ UNCHANGED <<now, req, client, received, cut, stubbed, got, whole>>

\* Anything else writes or removes a file, between two items of a batch too.
OutsideWrites(p, v) ==
    /\ file[p] # v
    /\ writes < MaxWrites
    /\ writes' = writes + 1
    /\ file' = [file EXCEPT ![p] = v]
    /\ steady' = FALSE
    /\ UNCHANGED <<now, ledger, req, client, received, cut, stubbed, got, whole>>

Tick ==
    /\ now < MaxTime
    /\ now' = now + 1
    /\ UNCHANGED <<file, writes, ledger, req, client, received, cut, stubbed, got, whole, steady>>

ServeBatch == FailBatch \/ AppendItem \/ CutPage

Next ==
    \/ \E e \in Epochs, force \in BOOLEAN :
         \/ \E i \in Items, spilled \in BOOLEAN : ReadWindow(e, i, force, spilled)
         \/ \E items \in Batches : StartBatch(e, items, force)
    \/ ContinueBatch
    \/ ServeBatch
    \/ \E p \in Paths : (\E v \in Versions : ToolWrites(p, v))
                        \/ (\E v \in Versions \cup {Gone} : OutsideWrites(p, v))
    \/ Tick

\* The server answers the request it has; a client that holds a cursor, and has
\* nothing else left to send, goes on.
Fairness == WF_vars(ServeBatch) /\ WF_vars(ContinueBatch)

Spec == Init /\ [][Next]_vars /\ Fairness

-----------------------------------------------------------------------------
(* Properties. *)

Unit == [at: Nat, unit: Nat, win: Windows, stub: BOOLEAN]
Request == [epoch: Epochs, items: Batches, force: BOOLEAN, item: Nat, byte: Nat,
            used: 0..Budget, out: Seq(Unit),
            marked: SUBSET Windows, stubs: SUBSET Windows]
Cursor == [epoch: Epochs, items: Batches, force: BOOLEAN, item: Nat, byte: Nat,
           instub: BOOLEAN]

ASSUME NoneAssumption == None \notin Unit /\ None \notin Request /\ None \notin Cursor

\* Types; a response under construction stays within the read budget, and the
\* request and the cursor name an item of their list.
TypeOK ==
    /\ file \in [Paths -> Versions \cup {Gone}]
    /\ \A n \in 1..Len(ledger) :
         ledger[n] \in [key: Windows, expires: 1..(MaxTime + TTL), delivered: 0..Budget]
    /\ now \in 0..MaxTime /\ writes \in 0..MaxWrites /\ reads \in 0..MaxReads
    /\ req # None => req \in Request /\ req.item <= Len(req.items) /\ Len(req.out) = req.used
    /\ cursor # None => cursor \in Cursor /\ cursor.item <= Len(cursor.items)
    /\ received \subseteq (Windows \X Nat) /\ cut \subseteq Windows /\ stubbed \subseteq Windows

\* The list is in order of last use, so that expire may stop at the first live
\* entry from the back; a key has one entry; the capacity holds.
LedgerOrdered ==
    /\ Len(ledger) <= Capacity
    /\ \A m, n \in 1..Len(ledger) : m < n =>
         /\ ledger[m].expires >= ledger[n].expires
         /\ ledger[m].key # ledger[n].key

\* Every use of the ledger leaves only entries that are alive.
NoExpiredAfterUse ==
    [][ledger' # ledger =>
         \/ file' # file
         \/ \A n \in 1..Len(ledger') : ledger'[n].expires > now]_vars

\* A stub stands for bytes the caller has received under that epoch, except for a
\* window some batch page marked without carrying the whole section: that page was
\* cut by the budget, resumed in another version, or thrown away by an error.
StubBackedUnlessCut ==
    \A w \in stubbed : Units(w) \subseteq received \/ w \in cut

\* The pages of a forced batch, put together, are the sections of its items, in
\* order, every unit once, as long as no file changed under it; in particular no
\* cursor of theirs is refused.
ForcedBatchWhole ==
    [][(req # None /\ req' = None /\ cursor' = None /\ req.force /\ steady
          /\ \A n \in 1..Len(req.items) : file[PathOf[req.items[n]]] # Gone)
         => got' # None /\ whole' /\ got'.at = Len(req.items)
            /\ got'.unit = SecLen[got'.win[2]][got'.win[3]]]_vars

\* A client that follows its cursors reaches the end of the batch (or an error
\* that ends it), whatever is written to the files meanwhile.
PagingTerminates == cursor # None ~> cursor = None

=============================================================================
