---- MODULE FreezerTableRefinement ----
(***************************************************************************)
(* The files of a table implement AncientTable's Spec (ImplementsTable),   *)
(* for every set of contents and sizes, file size, buffer limit and number *)
(* of crashes.                                                             *)
(*                                                                         *)
(* The table the files hold is a record made of the repaired index and the *)
(* bytes it points to.  Beyond FreezerTableProofs' IInv the argument needs *)
(* what makes the bytes of an item final once the index names them: the    *)
(* buffers hold whole items (Buffers), the next item starts where the last *)
(* one ends (HeadEnd), and the data the index names has been flushed       *)
(* (FlushedData), so that no power failure damages it.                     *)
(***************************************************************************)
EXTENDS FreezerTableProofs, FreezerTableView

\* What SMT leaves open is tried with Zenon, and once more with Z3.
USE SMT, Zenon, Z3T(30)

----
(***************************************************************************)
(* The invariant of the data.                                              *)
(***************************************************************************)
\* The head file, with the data that is still in the buffer.
HeadFile == IF pc \in Indexing THEN dat[mem.headId] ELSE dat[mem.headId] \o batch.data

Buffers == pc \in Writing => Whole(batch.index, mem.headBytes, HeadFile, mem.headBytes + Len(batch.data))

HeadEnd == pc \notin CuttingHead /\ mem.headId = LastEntry(idx).filenum => LastEntry(idx).offset = mem.headBytes

FlushedData ==
    /\ datSync <= Len(dat[mem.headId])
    /\ \A k \in 2 .. Len(idx) : idx[k].filenum = mem.headId => idx[k].offset <= datSync

\* The virtual tail only grows, so what the metadata file may still hold is lower.
OldTails == \A m \in metaOld : m <= meta

DataInv ==
    /\ mode = "open" => Buffers /\ HeadEnd /\ FlushedData /\ OldTails
    /\ mode = "down" => metaOld = {}

----
(***************************************************************************)
(* The table that files hold.                                              *)
(***************************************************************************)
Rec(lo, head, val, hid, dur, hidDur) ==
    [lo |-> lo, head |-> head, val |-> val, hid |-> hid, dur |-> dur, hidDur |-> hidDur]

\* The table an open table's files hold, and the one that closed files hold.
OpenTable(I, D, m, old, n) ==
    Rec(I[1].offset, HeadOf(I), ItemsOf(I, D, HeadOf(I)), RepairedTail(I, m), I[1].offset + n - 1, DurTail(I, m, old))
ShutTable(I, D, m, old) ==
    Rec(I[1].offset, HeadOf(I), ItemsOf(I, D, HeadOf(I)), RepairedTail(I, m), HeadOf(I), DurTail(I, m, old))

\* The mapping: view is the table that the files hold.
Seeing ==
    /\ IInv /\ DataInv
    /\ mode = "open" => view = OpenTable(idx, dat, meta, metaOld, idxSync)
    /\ mode = "down" => view = ShutTable(RepairedIndex(idx, dat), dat, meta, metaOld)

Mapped == [Abstract!Next]_<<view, mode>>

\* What the definition of View says, in these terms.
LEMMA ViewOpen ==
    ASSUME IInv, mode = "open", view = View(idx, dat, meta, metaOld, idxSync, TRUE)
    PROVE  view = OpenTable(idx, dat, meta, metaOld, idxSync)
<1>1. RepairedIndex(idx, dat) = idx
  BY Zenon, OpenFacts, BackedRepair
<1> QED BY Zenon, <1>1 DEF View, OpenTable, HeadOf, ItemsOf, DurTail, Rec

LEMMA NextView ==
    ASSUME IInv', view' = View(idx', dat', meta', metaOld', idxSync', mode' = "open")
    PROVE  /\ mode' = "open" => view' = OpenTable(idx', dat', meta', metaOld', idxSync')
           /\ mode' /= "open" => view' = ShutTable(RepairedIndex(idx', dat'), dat', meta', metaOld')
<1>1. ASSUME mode' = "open"
      PROVE  view' = OpenTable(idx', dat', meta', metaOld', idxSync')
  <2>1. GoodIndex(idx') /\ DataFiles(dat') /\ Backed(idx', dat', mem'.headId)
    BY Zenon, <1>1 DEF IInv, OpenInv, Types
  <2>2. RepairedIndex(idx', dat') = idx'
    BY Zenon, <2>1, BackedRepair
  <2>3. view' = View(idx', dat', meta', metaOld', idxSync', TRUE)
    BY Zenon, <1>1 DEF View
  <2> QED BY Zenon, <2>2, <2>3 DEF View, OpenTable, HeadOf, ItemsOf, DurTail, Rec
<1>2. ASSUME mode' /= "open"
      PROVE  view' = ShutTable(RepairedIndex(idx', dat'), dat', meta', metaOld')
  <2>1. view' = View(idx', dat', meta', metaOld', idxSync', FALSE)
    BY Zenon, <1>2 DEF View
  <2> QED BY Zenon, <2>1 DEF View, ShutTable, HeadOf, ItemsOf, DurTail, Rec
<1> QED BY Zenon, <1>1, <1>2

----
(***************************************************************************)
(* The operations of AncientTable on such a record, and its bounds.        *)
(***************************************************************************)
\* Records whose items are in V.
Tables(V) == [lo : Int, head : Int, val : V, hid : Int, dur : Int, hidDur : Int]

LEMMA RecFields ==
    ASSUME NEW V, NEW a \in Int, NEW b \in Int, NEW c \in V, NEW d \in Int, NEW e \in Int, NEW f \in Int,
           NEW T, T = Rec(a, b, c, d, e, f)
    PROVE  T \in Tables(V) /\ T.lo = a /\ T.head = b /\ T.val = c /\ T.hid = d /\ T.dur = e /\ T.hidDur = f
BY DEF Tables, Rec

LEMMA SameTable ==
    ASSUME NEW V, NEW T \in Tables(V), NEW U \in Tables(V), T.lo = U.lo, T.head = U.head, T.val = U.val,
           T.hid = U.hid, T.dur = U.dur, T.hidDur = U.hidDur
    PROVE  T = U
BY DEF Tables

LEMMA RecHeadTruncated ==
    ASSUME NEW a \in Int, NEW b \in Int, NEW c, NEW d \in Int, NEW e \in Int, NEW f \in Int, NEW n \in Int,
           NEW T, T = Rec(a, b, c, d, e, f)
    PROVE  Abstract!HeadTruncated(T, n) = Rec(a, n, [i \in a .. n - 1 |-> c[i]], d, n, f)
<1> DEFINE x == [i \in a .. n - 1 |-> c[i]]
           V == {c, x}
           U == [T EXCEPT !.head = n, !.val = x, !.dur = n]
           W == Rec(a, n, x, d, n, f)
<1>0. c \in V /\ x \in V
  OBVIOUS
<1> HIDE DEF V, x
<1>1. T \in Tables(V) /\ T.lo = a /\ T.val = c /\ T.hid = d /\ T.hidDur = f
  BY <1>0, RecFields
<1>2. Abstract!HeadTruncated(T, n) = U
  BY Zenon, <1>1 DEF Abstract!HeadTruncated, Abstract!Cut, x
<1>3. U \in Tables(V) /\ U.lo = a /\ U.head = n /\ U.val = x /\ U.hid = d /\ U.dur = n /\ U.hidDur = f
  BY Zenon, <1>0, <1>1 DEF Tables
<1>4. W \in Tables(V) /\ W.lo = a /\ W.head = n /\ W.val = x /\ W.hid = d /\ W.dur = n /\ W.hidDur = f
  BY <1>0, RecFields
<1> HIDE DEF U, W
<1>5. U = W
  BY <1>3, <1>4, SameTable
<1> QED BY Zenon, <1>2, <1>5 DEF x, W

LEMMA RecDropped ==
    ASSUME NEW a \in Int, NEW b \in Int, NEW c, NEW d \in Int, NEW e \in Int, NEW f \in Int, NEW n \in Int,
           NEW T, T = Rec(a, b, c, d, e, f)
    PROVE  Abstract!Dropped(T, n) = Rec(n, b, [i \in n .. b - 1 |-> c[i]], d, b, d)
<1> DEFINE x == [i \in n .. b - 1 |-> c[i]]
           V == {c, x}
           U == [T EXCEPT !.lo = n, !.val = x, !.dur = b, !.hidDur = d]
           W == Rec(n, b, x, d, b, d)
<1>0. c \in V /\ x \in V
  OBVIOUS
<1> HIDE DEF V, x
<1>1. T \in Tables(V) /\ T.head = b /\ T.val = c /\ T.hid = d
  BY <1>0, RecFields
<1>2. Abstract!Dropped(T, n) = U
  BY Zenon, <1>1 DEF Abstract!Dropped, Abstract!Cut, x
<1>3. U \in Tables(V) /\ U.lo = n /\ U.head = b /\ U.val = x /\ U.hid = d /\ U.dur = b /\ U.hidDur = d
  BY Zenon, <1>0, <1>1 DEF Tables
<1>4. W \in Tables(V) /\ W.lo = n /\ W.head = b /\ W.val = x /\ W.hid = d /\ W.dur = b /\ W.hidDur = d
  BY <1>0, RecFields
<1> HIDE DEF U, W
<1>5. U = W
  BY <1>3, <1>4, SameTable
<1> QED BY Zenon, <1>2, <1>5 DEF x, W

LEMMA RecTailTruncated ==
    ASSUME NEW a \in Int, NEW b \in Int, NEW c, NEW d \in Int, NEW e \in Int, NEW f \in Int, NEW n \in Int,
           NEW T, T = Rec(a, b, c, d, e, f)
    PROVE  Abstract!TailTruncated(T, n) = Rec(a, b, c, n, e, f)
<1> DEFINE V == {c}
           U == [T EXCEPT !.hid = n]
           W == Rec(a, b, c, n, e, f)
<1>0. c \in V
  OBVIOUS
<1> HIDE DEF V
<1>1. T \in Tables(V) /\ T.lo = a /\ T.head = b /\ T.val = c /\ T.dur = e /\ T.hidDur = f
  BY <1>0, RecFields
<1>2. U \in Tables(V) /\ U.lo = a /\ U.head = b /\ U.val = c /\ U.hid = n /\ U.dur = e /\ U.hidDur = f
  BY <1>0, <1>1 DEF Tables
<1>3. W \in Tables(V) /\ W.lo = a /\ W.head = b /\ W.val = c /\ W.hid = n /\ W.dur = e /\ W.hidDur = f
  BY <1>0, RecFields
<1>4. Abstract!TailTruncated(T, n) = U
  BY Zenon DEF Abstract!TailTruncated
<1> HIDE DEF U, W
<1>5. U = W
  BY <1>2, <1>3, SameTable
<1> QED BY Zenon, <1>4, <1>5 DEF W

LEMMA RecSynced ==
    ASSUME NEW a \in Int, NEW b \in Int, NEW c, NEW d \in Int, NEW e \in Int, NEW f \in Int,
           NEW T, T = Rec(a, b, c, d, e, f)
    PROVE  Abstract!Synced(T) = Rec(a, b, c, d, b, d)
<1> DEFINE V == {c}
           U == [T EXCEPT !.dur = b, !.hidDur = d]
           W == Rec(a, b, c, d, b, d)
<1>0. c \in V
  OBVIOUS
<1> HIDE DEF V
<1>1. T \in Tables(V) /\ T.lo = a /\ T.head = b /\ T.val = c /\ T.hid = d
  BY <1>0, RecFields
<1>2. U \in Tables(V) /\ U.lo = a /\ U.head = b /\ U.val = c /\ U.hid = d /\ U.dur = b /\ U.hidDur = d
  BY Zenon, <1>0, <1>1 DEF Tables
<1>3. W \in Tables(V) /\ W.lo = a /\ W.head = b /\ W.val = c /\ W.hid = d /\ W.dur = b /\ W.hidDur = d
  BY <1>0, RecFields
<1>4. Abstract!Synced(T) = U
  BY Zenon, <1>1 DEF Abstract!Synced
<1> HIDE DEF U, W
<1>5. U = W
  BY <1>2, <1>3, SameTable
<1> QED BY Zenon, <1>4, <1>5 DEF W

LEMMA RecCrash ==
    ASSUME NEW a \in Int, NEW b \in Int, NEW c, NEW d \in Int, NEW e \in Int, NEW f \in Int,
           NEW T, T = Rec(a, b, c, d, e, f), NEW h \in e .. b, NEW t \in f .. d
    PROVE  Rec(a, h, [i \in a .. h - 1 |-> c[i]], t, h, t) \in Abstract!AfterCrash(T)
<1> DEFINE V == {c}
<1>0. c \in V
  OBVIOUS
<1> HIDE DEF V
<1>1. T.lo = a /\ T.head = b /\ T.val = c /\ T.hid = d /\ T.dur = e /\ T.hidDur = f
  BY <1>0, RecFields
<1>2. Abstract!Cut(T, T.lo, h) = [i \in a .. h - 1 |-> c[i]]
  BY Zenon, <1>1 DEF Abstract!Cut
<1>3. Rec(a, h, [i \in a .. h - 1 |-> c[i]], t, h, t)
        = [lo |-> T.lo, head |-> h, val |-> Abstract!Cut(T, T.lo, h), hid |-> t, dur |-> h, hidDur |-> t]
  BY Zenon, <1>1, <1>2 DEF Rec
<1>4. h \in T.dur .. T.head /\ t \in T.hidDur .. T.hid
  BY Zenon, <1>1
<1>5. [lo |-> T.lo, head |-> h, val |-> Abstract!Cut(T, T.lo, h), hid |-> t, dur |-> h, hidDur |-> t] \in Abstract!AfterCrash(T)
  BY <1>4 DEF Abstract!AfterCrash
<1> QED BY Zenon, <1>3, <1>5

LEMMA RecAppended ==
    ASSUME NEW a \in Int, NEW b \in Int, NEW c, NEW d \in Int, NEW e \in Int, NEW f \in Int, NEW vs, Len(vs) \in Nat,
           NEW T, T = Rec(a, b, c, d, e, f)
    PROVE  Abstract!Appended(T, vs)
             = Rec(a, b + Len(vs), [i \in a .. b + Len(vs) - 1 |-> IF i < b THEN c[i] ELSE vs[i - b + 1]], d, e, f)
<1> DEFINE n == b + Len(vs)
           x == [i \in a .. b + Len(vs) - 1 |-> IF i < b THEN c[i] ELSE vs[i - b + 1]]
           V == {c, x}
           U == [T EXCEPT !.head = n, !.val = x]
           W == Rec(a, n, x, d, e, f)
<1>0. c \in V /\ x \in V /\ n \in Int
  OBVIOUS
<1> HIDE DEF V, x, n
<1>1. T \in Tables(V) /\ T.lo = a /\ T.head = b /\ T.val = c /\ T.hid = d /\ T.dur = e /\ T.hidDur = f
  BY <1>0, RecFields
<1>2. Abstract!Appended(T, vs) = U
  <2> DEFINE y == [i \in T.lo .. T.head + Len(vs) - 1 |-> IF i < T.head THEN T.val[i] ELSE vs[i - T.head + 1]]
  <2>1. Abstract!Appended(T, vs) = [T EXCEPT !.head = @ + Len(vs), !.val = y]
    BY Zenon DEF Abstract!Appended
  <2>2. y = x
    BY Zenon, <1>1 DEF x
  <2>3. T.head + Len(vs) = n
    BY Zenon, <1>1 DEF n
  <2> HIDE DEF y
  <2> QED BY Zenon, <2>1, <2>2, <2>3
<1>3. U \in Tables(V) /\ U.lo = a /\ U.head = n /\ U.val = x /\ U.hid = d /\ U.dur = e /\ U.hidDur = f
  BY Zenon, <1>0, <1>1 DEF Tables
<1>4. W \in Tables(V) /\ W.lo = a /\ W.head = n /\ W.val = x /\ W.hid = d /\ W.dur = e /\ W.hidDur = f
  BY <1>0, RecFields
<1> HIDE DEF U, W
<1>5. U = W
  BY <1>3, <1>4, SameTable
<1>6. Abstract!Appended(T, vs) = Rec(a, n, x, d, e, f)
  BY Zenon, <1>2, <1>5 DEF W
<1> QED BY Zenon, <1>6 DEF x, n

\* The virtual tail after a crash lies between the least one and the one before.
LEMMA TailCrashed ==
    ASSUME NEW I, GoodIndex(I), NEW m \in Nat, NEW old \in SUBSET Nat, \A x \in old : x <= m, NEW n \in old \cup {m}
    PROVE  RepairedTail(I, n) \in DurTail(I, m, old) .. RepairedTail(I, m)
<1> DEFINE o == I[1].offset
           s == Min(old \cup {m})
           a == RepairedTail(I, n)
           b == DurTail(I, m, old)
           c == RepairedTail(I, m)
<1>1. n \in Nat /\ n <= m
  OBVIOUS
<1>2. o \in Nat
  BY Zenon, Positions
<1>3. c = (IF m >= o THEN m ELSE o) /\ b = (IF o >= s THEN o ELSE s) /\ s \in Nat /\ s <= n
  BY Zenon, TailFacts
<1>4. a = (IF n >= o THEN n ELSE o)
  BY Zenon, <1>1, TailFacts
<1> HIDE DEF o, s, a, b, c
<1>5. a \in b .. c
  BY <1>1, <1>2, <1>3, <1>4
<1> QED BY Zenon, <1>5 DEF a, b, c

----
(***************************************************************************)
(* The steps that leave the table as it is.                                *)
(***************************************************************************)
\* A step of the files, with the invariants on the side the lemmas may use.
Sees == Seeing /\ IInv' /\ view' = View(idx', dat', meta', metaOld', idxSync', mode' = "open")

\* The bytes that the index names are the same after the step.
SameBytes == \A k \in 2 .. Len(idx) : \A p \in 1 .. idx[k].offset : dat'[idx[k].filenum][p] = dat[idx[k].filenum][p]

LEMMA SeesOpen ==
    ASSUME Sees, mode = "open"
    PROVE  /\ IInv /\ IInv' /\ Buffers /\ HeadEnd /\ FlushedData /\ OldTails
           /\ view = OpenTable(idx, dat, meta, metaOld, idxSync)
           /\ mode' = "open" => view' = OpenTable(idx', dat', meta', metaOld', idxSync')
           /\ mode' /= "open" => view' = ShutTable(RepairedIndex(idx', dat'), dat', meta', metaOld')
<1>1. /\ IInv /\ IInv' /\ Buffers /\ HeadEnd /\ FlushedData /\ OldTails
      /\ view = OpenTable(idx, dat, meta, metaOld, idxSync)
  BY Zenon DEF Sees, Seeing, DataInv
<1>2. IInv' /\ view' = View(idx', dat', meta', metaOld', idxSync', mode' = "open")
  BY Zenon DEF Sees
<1> QED BY Zenon, <1>1, <1>2, NextView

LEMMA NowOpen ==
    ASSUME IInv', mode' = "open"
    PROVE  /\ GoodIndex(idx') /\ Backed(idx', dat', mem'.headId) /\ PcInv' /\ DataFiles(dat') /\ Types'
BY Zenon DEF IInv, OpenInv, Types

LEMMA MapsSame ==
    ASSUME Sees, mode = "open", mode' = "open", UNCHANGED <<idx, idxSync, meta, metaOld>>, SameBytes
    PROVE  Mapped
<1>1. /\ IInv /\ IInv' /\ view = OpenTable(idx, dat, meta, metaOld, idxSync)
      /\ view' = OpenTable(idx', dat', meta', metaOld', idxSync')
  BY Zenon, SeesOpen
<1>2. GoodIndex(idx) /\ Backed(idx, dat, mem.headId) /\ DataFiles(dat)
  BY Zenon, <1>1, OpenFacts
<1>3. Backed(idx, dat', mem'.headId) /\ DataFiles(dat')
  BY Zenon, <1>1, NowOpen
<1>4. Agrees(idx, dat, dat')
  BY <1>2, <1>3, BackedAgrees DEF SameBytes
<1>5. ItemsOf(idx, dat', HeadOf(idx)) = ItemsOf(idx, dat, HeadOf(idx))
  BY Zenon, <1>2, <1>4, ItemsUnchanged
<1>6. view' = view
  BY Zenon, <1>1, <1>5 DEF OpenTable
<1> QED BY Zenon, <1>6 DEF Mapped

\* The steps that only fill or empty the buffers.
LEMMA BuffersOnly ==
    ASSUME Sees, mode = "open", UNCHANGED <<files, mem, mode>>, pc \notin CuttingHead, Buffers'
    PROVE  DataInv' /\ Mapped
<1>1. UNCHANGED <<idx, idxSync, dat, datSync, meta, metaOld, mem, mode>> /\ mode' = "open" /\ mode' /= "down"
  BY DEF files
<1>2. Mapped
  BY Zenon, <1>1, MapsSame DEF SameBytes
<1>3. HeadEnd /\ FlushedData /\ OldTails
  BY Zenon, SeesOpen
<1>4. HeadEnd' /\ FlushedData' /\ OldTails'
  BY Zenon, <1>1, <1>3 DEF HeadEnd, FlushedData, OldTails
<1> QED BY Zenon, <1>1, <1>2, <1>4 DEF DataInv

LEMMA SeesReset ==
    ASSUME Sees, reset
    PROVE  DataInv' /\ Mapped
<1>1. mode = "open" /\ pc = "idle" /\ UNCHANGED <<files, mem, mode>>
      /\ batch' = [data |-> <<>>, index |-> <<>>, cur |-> mem.items, prevItem |-> mem.items]
  BY Zenon DEF reset, Idle
<1>2. batch'.index = <<>>
  BY <1>1
<1>3. Buffers'
  BY Zenon, <1>2, WholeEmpty DEF Buffers
<1>4. pc \notin CuttingHead
  BY <1>1 DEF CuttingHead
<1> QED BY Zenon, <1>1, <1>3, <1>4, BuffersOnly

LEMMA SeesRollbackNothing ==
    ASSUME Sees, rollback, ~(batch.prevItem < mem.items)
    PROVE  DataInv' /\ Mapped
<1>1. mode = "open" /\ pc = "batch" /\ UNCHANGED <<files, mem, mode>> /\ pc' = "idle"
  BY Zenon DEF rollback
<1>2. pc \notin CuttingHead /\ pc' \notin Writing
  BY <1>1 DEF CuttingHead, Writing
<1> QED BY Zenon, <1>1, <1>2, BuffersOnly DEF Buffers

LEMMA SeesAppendItem ==
    ASSUME Sees, NEW v \in Values, appendItem(v)
    PROVE  DataInv' /\ Mapped
<1> DEFINE h == mem.headId
           hb == mem.headBytes
           s == dat[h] \o batch.data
<1>1. mode = "open" /\ pc = "batch" /\ UNCHANGED <<files, mem, mode>>
  BY Zenon DEF appendItem
<1>2. UNCHANGED <<dat, mem>>
  BY <1>1 DEF files
<1>3. pc \in Writing /\ pc \notin Indexing /\ pc \notin CuttingHead
  BY <1>1 DEF Writing, Indexing, CuttingHead
<1>4. IInv /\ Buffers
  BY Zenon, <1>1, SeesOpen
<1>5. /\ PcInv /\ h \in Nat /\ hb \in Nat /\ dat[h] \in Seq(Byte) /\ batch.data \in Seq(Byte)
      /\ Len(batch.data) \in Nat
  BY Zenon, <1>1, <1>4, OpenFacts
<1>6. BatchInv /\ batch \in Batches /\ Len(dat[h]) = hb + 0
  BY Zenon, <1>3, <1>4, <1>5 DEF PcInv, IInv, Types
<1>7. Whole(batch.index, hb, s, hb + Len(batch.data))
  BY Zenon, <1>3, <1>4 DEF Buffers, HeadFile
<1>8. CASE ItemFits(v)
  <2> DEFINE off == hb + Len(batch.data)
  <2>1. batch' = Buffered(v, h, off) /\ pc' = AfterBuffering(batch')
    BY Zenon, <1>8 DEF appendItem
  <2>2. off \in Nat
    BY <1>5
  <2>3. IsBuffered(batch', v, h, off)
    BY Zenon, <1>5, <1>6, <2>1, <2>2, BufferedFacts
  <2>4. s \in Seq(Byte) /\ Len(s) = off
    <3> DEFINE a == dat[h]
               c == batch.data
    <3>1. a \in Seq(Byte) /\ c \in Seq(Byte) /\ Len(a) = hb + 0 /\ hb \in Nat
      BY Zenon, <1>5, <1>6
    <3> HIDE DEF a, c, hb
    <3>2. a \o c \in Seq(Byte) /\ Len(a \o c) = hb + Len(c)
      BY <3>1
    <3> QED BY Zenon, <3>2 DEF a, c
  <2>5. /\ batch.index = <<>> => batch.data = <<>>
        /\ \A k \in 1 .. Len(batch.index) : batch.index[k].offset <= off
    BY Zenon, <1>6 DEF BatchInv
  <2>6. pc' \notin Indexing
    BY <2>1 DEF AfterBuffering, Indexing
  <2>7. HeadFile' = s \o Bytes(v)
    <3>1. HeadFile' = dat[h] \o batch'.data
      BY Zenon, <1>2, <2>6 DEF HeadFile
    <3>2. batch'.data = batch.data \o Bytes(v)
      BY Zenon, <2>3 DEF IsBuffered
    <3> DEFINE a == dat[h]
               c == batch.data
               b == Bytes(v)
    <3>3. a \in Seq(Byte) /\ c \in Seq(Byte) /\ b \in Seq(Byte)
      BY Zenon, <1>5, ByteFacts
    <3> HIDE DEF a, c, b
    <3>4. a \o (c \o b) = (a \o c) \o b
      BY SMTT(30), Z3T(30), <3>3, JoinFacts
    <3> QED BY Zenon, <3>1, <3>2, <3>4 DEF a, b, c
  <2> HIDE DEF s
  <2>8. Whole(batch'.index, hb, s \o Bytes(v), hb + Len(batch'.data))
    BY ZenonT(40), <1>5, <1>6, <1>7, <2>3, <2>4, <2>5, BufferedWhole
  <2>9. Buffers'
    BY ZenonT(40), <1>2, <2>7, <2>8 DEF Buffers
  <2> QED BY Zenon, <1>1, <1>3, <2>9, BuffersOnly
<1>9. CASE ~ItemFits(v)
  <2>1. pc' = "full" /\ batch' = batch
    BY Zenon, <1>9 DEF appendItem
  <2>2. pc' \notin Indexing
    BY <2>1 DEF Indexing
  <2>3. HeadFile' = s
    BY Zenon, <1>2, <2>1, <2>2 DEF HeadFile
  <2>4. Buffers'
    BY Zenon, <1>2, <1>7, <2>1, <2>3 DEF Buffers
  <2> QED BY Zenon, <1>1, <1>3, <2>4, BuffersOnly
<1> QED BY <1>8, <1>9

LEMMA SeesCommitWrite ==
    ASSUME Sees, commitWrite
    PROVE  DataInv' /\ Mapped
<1> DEFINE h == mem.headId
           s == dat[h] \o batch.data
<1>1. /\ mode = "open" /\ pc \in {"full", "flush", "batch"} /\ pc' = NextWrite(pc) /\ dat' = [dat EXCEPT ![h] = s]
      /\ UNCHANGED <<idx, idxSync, datSync, meta, metaOld, mem, batch, mode>>
  BY Zenon DEF commitWrite
<1>2. /\ IInv /\ IInv' /\ Buffers /\ HeadEnd /\ FlushedData /\ OldTails
  BY Zenon, <1>1, SeesOpen
<1>3. /\ GoodIndex(idx) /\ Backed(idx, dat, h) /\ h \in DOMAIN dat /\ dat[h] \in Seq(Byte) /\ batch.data \in Seq(Byte)
      /\ Len(dat[h]) \in Nat
  BY Zenon, <1>1, <1>2, OpenFacts
<1>4. dat'[h] = s /\ \A g \in DOMAIN dat : g /= h => dat'[g] = dat[g]
  BY Zenon, <1>1, <1>3
<1>5. pc \in Writing /\ pc \notin Indexing /\ pc' \in Indexing /\ pc \notin CuttingHead /\ pc' \notin CuttingHead
  BY <1>1 DEF NextWrite, Writing, Indexing, CuttingHead
<1>6. HeadFile = s /\ HeadFile' = s
  BY Zenon, <1>1, <1>4, <1>5 DEF HeadFile
<1>7. Len(dat[h]) <= Len(s) /\ Len(s) \in Nat /\ \A p \in 1 .. Len(dat[h]) : s[p] = dat[h][p]
  <2> DEFINE a == dat[h]
             c == batch.data
  <2>1. a \in Seq(Byte) /\ c \in Seq(Byte)
    BY Zenon, <1>3
  <2> HIDE DEF a, c
  <2>2. Len(a) <= Len(a \o c) /\ Len(a \o c) \in Nat /\ \A p \in 1 .. Len(a) : (a \o c)[p] = a[p]
    BY <2>1
  <2> QED BY Zenon, <2>2 DEF a, c
<1> HIDE DEF s
<1>8. SameBytes
  <2> SUFFICES ASSUME NEW k \in 2 .. Len(idx), NEW p \in 1 .. idx[k].offset
               PROVE  dat'[idx[k].filenum][p] = dat[idx[k].filenum][p]
    BY Zenon DEF SameBytes
  <2>1. k \in 1 .. Len(idx) /\ idx[k].offset \in Nat
    BY Zenon, <1>3, Positions
  <2>2. CASE idx[k].filenum = h
    <3>1. idx[k].offset <= Len(dat[h])
      BY Zenon, <1>3, <2>2 DEF Backed
    <3>2. p \in 1 .. Len(dat[h])
      BY <1>3, <2>1, <3>1
    <3> QED BY Zenon, <1>4, <1>7, <2>2, <3>2
  <2>3. CASE idx[k].filenum /= h
    <3>1. idx[k].filenum \in DOMAIN dat
      BY Zenon, <1>3, <2>1, HeldFiles DEF Backed
    <3> QED BY Zenon, <1>4, <2>3, <3>1
  <2> QED BY <2>2, <2>3
<1>9. mode' = "open" /\ mode' /= "down"
  BY <1>1
<1>10. Mapped
  BY Zenon, <1>1, <1>8, <1>9, MapsSame
<1>11. FlushedData'
  <2>1. datSync <= Len(dat[h]) /\ datSync \in Nat
    BY Zenon, <1>2 DEF FlushedData, IInv, Types
  <2>2. datSync <= Len(s)
    BY <1>3, <1>7, <2>1
  <2> QED BY Zenon, <1>1, <1>2, <1>4, <2>2 DEF FlushedData
<1>12. Buffers' /\ HeadEnd' /\ OldTails'
  BY Zenon, <1>1, <1>2, <1>5, <1>6 DEF Buffers, HeadEnd, OldTails
<1> QED BY Zenon, <1>9, <1>10, <1>11, <1>12 DEF DataInv

----
(***************************************************************************)
(* A batch is written to the index: items are appended to the table.       *)
(***************************************************************************)
\* All of the head file has been flushed.
LEMMA FlushedNow ==
    ASSUME IInv', mode' = "open", datSync' = Len(dat'[mem'.headId])
    PROVE  FlushedData'
<1>1. GoodIndex(idx') /\ Backed(idx', dat', mem'.headId) /\ DataFiles(dat') /\ datSync' \in Nat
  BY Zenon, NowOpen DEF IInv, Types
<1>2. datSync' <= Len(dat'[mem'.headId])
  BY <1>1
<1> QED BY Zenon, <1>1, <1>2 DEF FlushedData, Backed

\* The numbers in the record of an open table.
LEMMA OpenNumbers ==
    ASSUME IInv, mode = "open"
    PROVE  /\ idx[1].offset \in Int /\ HeadOf(idx) \in Int /\ RepairedTail(idx, meta) \in Int
           /\ idx[1].offset + idxSync - 1 \in Int /\ DurTail(idx, meta, metaOld) \in Int
           /\ meta \in Nat /\ metaOld \in SUBSET Nat
           /\ idx[1].offset + idxSync - 1 <= HeadOf(idx) /\ RepairedTail(idx, meta) = meta
<1>1. GoodIndex(idx) /\ PcInv /\ Types
  BY Zenon, OpenFacts DEF IInv
<1>2. meta \in Nat /\ metaOld \in SUBSET Nat
  <2>1. 0 .. MaxItems \subseteq Nat
    OBVIOUS
  <2>2. meta \in 0 .. MaxItems /\ metaOld \subseteq 0 .. MaxItems
    BY Zenon, <1>1 DEF Types
  <2> HIDE DEF Max
  <2> QED BY Zenon, <2>1, <2>2
<1>3. /\ idx[1].offset \in Nat /\ Len(idx) \in Nat /\ HeadOf(idx) = idx[1].offset + Len(idx) - 1 /\ HeadOf(idx) \in Nat
  BY Zenon, <1>1, Positions
<1>4. idxSync \in 1 .. Len(idx) /\ idx[1].offset <= meta
  BY Zenon, <1>1 DEF Types, PcInv
<1>5. /\ RepairedTail(idx, meta) = (IF meta >= idx[1].offset THEN meta ELSE idx[1].offset)
      /\ DurTail(idx, meta, metaOld) = (IF idx[1].offset >= Min(metaOld \cup {meta}) THEN idx[1].offset ELSE Min(metaOld \cup {meta}))
      /\ Min(metaOld \cup {meta}) \in Nat
  BY Zenon, <1>1, <1>2, TailFacts
<1> DEFINE o == idx[1].offset
           n == Len(idx)
           s == Min(metaOld \cup {meta})
           r == RepairedTail(idx, meta)
           d == DurTail(idx, meta, metaOld)
           g == HeadOf(idx)
<1>6. o \in Nat /\ n \in Nat /\ g = o + n - 1 /\ idxSync \in 1 .. n /\ o <= meta /\ s \in Nat
      /\ r = (IF meta >= o THEN meta ELSE o) /\ d = (IF o >= s THEN o ELSE s)
  BY Zenon, <1>3, <1>4, <1>5
<1> HIDE DEF o, n, s, r, d, g
<1>7. o \in Int /\ g \in Int /\ r \in Int /\ o + idxSync - 1 \in Int /\ d \in Int /\ o + idxSync - 1 <= g /\ r = meta
  BY <1>2, <1>6
<1> QED BY Zenon, <1>2, <1>7 DEF o, n, s, r, d, g

LEMMA ViewFields ==
    ASSUME Sees, mode = "open"
    PROVE  view.lo = idx[1].offset /\ view.head = HeadOf(idx) /\ view.hid = meta
<1> DEFINE c == ItemsOf(idx, dat, HeadOf(idx))
           V == {c}
           a == idx[1].offset
           b == HeadOf(idx)
           d == RepairedTail(idx, meta)
           e == idx[1].offset + idxSync - 1
           f == DurTail(idx, meta, metaOld)
<1>1. IInv /\ view = Rec(a, b, c, d, e, f)
  BY Zenon, SeesOpen DEF OpenTable
<1>2. a \in Int /\ b \in Int /\ d \in Int /\ e \in Int /\ f \in Int /\ d = meta
  BY Zenon, <1>1, OpenNumbers
<1>3. c \in V
  OBVIOUS
<1> HIDE DEF a, b, c, d, e, f, V
<1>4. view.lo = a /\ view.head = b /\ view.hid = d
  BY <1>1, <1>2, <1>3, RecFields
<1> QED BY Zenon, <1>2, <1>4 DEF a, b

LEMMA MapsAppend ==
    ASSUME Sees, mode = "open", mode' = "open", NEW X \in Seq(Entries), X /= <<>>, idx' = idx \o X,
           UNCHANGED <<dat, idxSync, meta, metaOld>>, HeadOf(idx') <= MaxItems,
           \A k \in 1 .. Len(X) : Decode(ReadItem(idx', dat, Len(idx) - 1 + k)) \in Values
    PROVE  Mapped
<1> DEFINE n == Len(idx)
           x == Len(X)
           a == idx[1].offset
           b == HeadOf(idx)
           c == ItemsOf(idx, dat, b)
           vs == [k \in 1 .. x |-> Decode(ReadItem(idx', dat, n - 1 + k))]
           d == RepairedTail(idx, meta)
           e == idx[1].offset + idxSync - 1
           f == DurTail(idx, meta, metaOld)
<1>1. IInv /\ IInv' /\ view = OpenTable(idx, dat, meta, metaOld, idxSync) /\ view' = OpenTable(idx', dat', meta', metaOld', idxSync')
  BY Zenon, SeesOpen
<1>2. a \in Int /\ b \in Int /\ d \in Int /\ e \in Int /\ f \in Int
  BY Zenon, <1>1, OpenNumbers
<1>3. /\ GoodIndex(idx) /\ Backed(idx, dat, mem.headId) /\ DataFiles(dat) /\ GoodIndex(idx')
      /\ n \in Nat /\ n >= 1 /\ a \in Nat /\ b = a + n - 1 /\ idx \in Seq(Entries)
  BY Zenon, <1>1, OpenFacts, NowOpen, Positions
<1>4. x \in Nat /\ x >= 1
  OBVIOUS
<1>5. Len(idx') = n + x /\ \A k \in 1 .. n : idx'[k] = idx[k]
  BY <1>3, ConcatFacts
<1>6. idx'[1] = idx[1] /\ HeadOf(idx') = b + x /\ PrefixOf(idx, idx')
  <2>1. 1 \in 1 .. n /\ n <= n + x /\ a + (n + x) - 1 = (a + n - 1) + x
    BY SMTT(30), Z3T(30), <1>3, <1>4
  <2>2. idx'[1] = idx[1]
    BY Zenon, <1>5, <2>1
  <2>3. HeadOf(idx') = a + (n + x) - 1
    BY Zenon, <1>5, <2>2 DEF HeadOf
  <2> QED BY ZenonT(40), <1>3, <1>5, <2>1, <2>2, <2>3 DEF PrefixOf
<1>7. vs \in [1 .. x -> Values] /\ Len(vs) = x /\ \A k \in 1 .. x : vs[k] = Decode(ReadItem(idx', dat, n - 1 + k))
  <2>1. vs \in [1 .. x -> Values] /\ \A k \in 1 .. x : vs[k] = Decode(ReadItem(idx', dat, n - 1 + k))
    BY Zenon
  <2> HIDE DEF vs
  <2>2. Len(vs) = x
    BY <1>4, <2>1
  <2> QED BY Zenon, <2>1, <2>2
<1> HIDE DEF vs
<1>8. Agrees(idx, dat, dat)
  BY <1>3, BackedAgrees
<1>9. ASSUME NEW i \in a .. (b + x) - 1
      PROVE  Decode(ReadItem(idx', dat, i - a + 1)) = IF i < b THEN c[i] ELSE vs[i - b + 1]
  <2>1. CASE i < b
    <3> DEFINE j == i - a + 1
    <3>1. i \in a .. b - 1 /\ j \in Nat /\ j >= 1 /\ j < n
      BY SMTT(30), Z3T(30), <1>3, <2>1
    <3>2. c[i] = Decode(ReadItem(idx, dat, j))
      BY Zenon, <3>1 DEF ItemsOf
    <3> HIDE DEF j
    <3>3. ReadItem(idx, dat, j) = ReadItem(idx', dat, j)
      BY <1>3, <1>6, <1>8, <3>1, ReadSame
    <3> QED BY Zenon, <2>1, <3>2, <3>3 DEF j
  <2>2. CASE ~(i < b)
    <3>1. i - b + 1 \in 1 .. x /\ n - 1 + (i - b + 1) = i - a + 1
      BY SMTT(30), Z3T(30), <1>3, <1>4, <2>2
    <3> QED BY Zenon, <1>7, <2>2, <3>1
  <2> QED BY <2>1, <2>2
<1>10. ItemsOf(idx', dat, b + x) = [i \in a .. b + x - 1 |-> IF i < b THEN c[i] ELSE vs[i - b + 1]]
  <2>1. ItemsOf(idx', dat, b + x) = [i \in a .. (b + x) - 1 |-> Decode(ReadItem(idx', dat, i - a + 1))]
    BY Zenon, <1>6 DEF ItemsOf
  <2>2. (b + x) - 1 = b + x - 1
    BY <1>2, <1>4
  <2> HIDE DEF a, b, c, x
  <2> QED BY Zenon, <1>9, <2>1, <2>2
<1>11. view' = Rec(a, b + x, ItemsOf(idx', dat, b + x), d, e, f)
  BY Zenon, <1>1, <1>6 DEF OpenTable, RepairedTail, DurTail
<1>12. view = Rec(a, b, c, d, e, f)
  BY Zenon, <1>1 DEF OpenTable
<1> HIDE DEF a, b, c, d, e, f, x
<1>13. Abstract!Appended(view, vs) = Rec(a, b + x, [i \in a .. b + x - 1 |-> IF i < b THEN c[i] ELSE vs[i - b + 1]], d, e, f)
  <2>1. Len(vs) \in Nat
    BY Zenon, <1>4, <1>7
  <2>2. Abstract!Appended(view, vs)
          = Rec(a, b + Len(vs), [i \in a .. b + Len(vs) - 1 |-> IF i < b THEN c[i] ELSE vs[i - b + 1]], d, e, f)
    BY <1>2, <1>12, <2>1, RecAppended
  <2> QED BY Zenon, <1>7, <2>2
<1>14. view' = Abstract!Appended(view, vs)
  BY Zenon, <1>10, <1>11, <1>13
<1>15. view.head = b
  BY Zenon, ViewFields DEF b
<1>16. x \in 1 .. MaxItems - view.head
  BY SMTT(30), Z3T(30), <1>2, <1>4, <1>6, <1>15, SizeAssumption
<1>17. mode' = mode
  OBVIOUS
<1>18. Abstract!AppendItems
  BY Zenon, <1>7, <1>14, <1>16, <1>17 DEF Abstract!AppendItems
<1> QED BY Zenon, <1>18 DEF Mapped, Abstract!Next

LEMMA IndexEnd ==
    ASSUME IInv', mode' = "open", pc' \notin CuttingHead
    PROVE  HeadOf(idx') <= MaxItems
BY Zenon, NowOpen DEF PcInv, HeadOf

LEMMA SeesCommitIndex ==
    ASSUME Sees, commitIndex
    PROVE  DataInv' /\ Mapped
<1> DEFINE h == mem.headId
           X == batch.index
           hb == mem.headBytes
           s == dat[h]
<1>1. /\ mode = "open" /\ pc \in Indexing /\ pc' = NextIndex(pc) /\ datSync' = Len(s) /\ idx' = idx \o X
      /\ mem' = [mem EXCEPT !.headBytes = hb + Len(batch.data), !.items = batch.cur]
      /\ batch' = IF pc = "doneIndex" THEN NoBatch ELSE [batch EXCEPT !.data = <<>>, !.index = <<>>]
      /\ UNCHANGED <<idxSync, dat, meta, metaOld, mode>>
  BY Zenon DEF commitIndex, Indexing
<1>2. mode' = "open" /\ mode' /= "down"
  BY <1>1
<1>3. IInv /\ IInv' /\ Buffers /\ HeadEnd /\ OldTails
  BY Zenon, <1>1, SeesOpen
<1>4. pc \in Writing /\ pc \notin CuttingHead /\ pc' \notin CuttingHead
  BY <1>1 DEF Indexing, Writing, CuttingHead, NextIndex
<1>5. /\ GoodIndex(idx) /\ PcInv /\ h \in DOMAIN dat /\ s \in Seq(Byte) /\ X \in Seq(Entries) /\ hb \in Nat
      /\ Len(batch.data) \in Nat /\ idx \in Seq(Entries) /\ batch \in Batches /\ mem \in Fields
  BY Zenon, <1>1, <1>3, OpenFacts DEF IInv, Types
<1>6. BatchInv /\ Len(s) = hb + Len(batch.data) /\ (h = LastEntry(idx).filenum \/ hb = 0)
  BY Zenon, <1>1, <1>4, <1>5 DEF PcInv
<1>7. Whole(X, hb, s, Len(s))
  BY ZenonT(40), <1>1, <1>3, <1>4, <1>6 DEF Buffers, HeadFile
<1>8. mem'.headId = h /\ mem'.headBytes = Len(s)
  BY Zenon, <1>1, <1>5, <1>6 DEF Fields
<1>9. h = LastEntry(idx).filenum => LastEntry(idx).offset = hb
  BY Zenon, <1>3, <1>4 DEF HeadEnd
<1>10. \A k \in 1 .. Len(X) : X[k].filenum = h /\ X[k].offset <= Len(s)
  BY Zenon, <1>6 DEF BatchInv
<1>11. ASSUME NEW k \in 1 .. Len(X)
       PROVE  Decode(ReadItem(idx', dat, Len(idx) - 1 + k)) \in Values
  <2> HIDE DEF h, hb, X
  <2> QED BY ZenonT(40), <1>1, <1>5, <1>6, <1>7, <1>9, <1>10, NewItem
<1>12. /\ X = <<>> => idx' = idx /\ batch.data = <<>>
       /\ X /= <<>> => LastEntry(idx') = X[Len(X)] /\ Len(X) \in 1 .. Len(X)
  <2>1. X = <<>> => idx' = idx /\ batch.data = <<>>
    <3>1. X = <<>> => batch.data = <<>>
      BY Zenon, <1>6 DEF BatchInv
    <3>2. X = <<>> => idx \o X = idx
      BY <1>5
    <3> QED BY Zenon, <1>1, <3>1, <3>2
  <2>2. X /= <<>> => LastEntry(idx') = X[Len(X)] /\ Len(X) \in 1 .. Len(X)
    <3> SUFFICES ASSUME X /= <<>>
                 PROVE  LastEntry(idx') = X[Len(X)] /\ Len(X) \in 1 .. Len(X)
      OBVIOUS
    <3> HIDE DEF X
    <3>1. Len(X) \in Nat /\ Len(X) >= 1 /\ Len(X) \in 1 .. Len(X)
      BY <1>5
    <3>2. Len(idx) \in Nat /\ Len(idx) >= 1
      BY Zenon, <1>5, Positions
    <3>3. Len(idx') = Len(idx) + Len(X) /\ idx'[Len(idx) + Len(X)] = X[Len(X)]
      BY <1>1, <1>5, <3>1, ConcatFacts
    <3>4. Len(idx') /= 1
      BY <3>1, <3>2, <3>3
    <3> QED BY Zenon, <3>1, <3>3, <3>4 DEF LastEntry
  <2> QED BY Zenon, <2>1, <2>2
<1>13. Mapped
  <2>1. CASE X = <<>>
    BY ZenonT(40), <1>1, <1>2, <1>12, <2>1, MapsSame DEF SameBytes
  <2>2. CASE X /= <<>>
    <3>1. HeadOf(idx') <= MaxItems
      BY Zenon, <1>2, <1>3, <1>4, IndexEnd
    <3> HIDE DEF X
    <3> QED BY ZenonT(40), <1>1, <1>2, <1>5, <1>11, <2>2, <3>1, MapsAppend
  <2> QED BY <2>1, <2>2
<1>14. FlushedData'
  BY ZenonT(40), <1>1, <1>2, <1>3, <1>8, FlushedNow
<1>15. HeadEnd'
  <2>1. CASE X = <<>>
    <3>1. Len(s) = hb
      BY <1>5, <1>6, <1>12, <2>1
    <3> QED BY Zenon, <1>8, <1>9, <1>12, <2>1, <3>1 DEF HeadEnd
  <2>2. CASE X /= <<>>
    <3>1. X[Len(X)].offset = Len(s)
      BY ZenonT(40), <1>7, <2>2 DEF Whole
    <3> QED BY Zenon, <1>8, <1>12, <2>2, <3>1 DEF HeadEnd
  <2> QED BY <2>1, <2>2
<1>16. Buffers'
  <2>1. batch'.index = <<>>
    <3>1. NoBatch.index = <<>>
      BY DEF NoBatch
    <3>2. <<>> \in Seq(Byte) /\ <<>> \in Seq(Entries)
      OBVIOUS
    <3>3. [batch EXCEPT !.data = <<>>, !.index = <<>>].index = <<>>
      BY Zenon, <1>5, <3>2 DEF Batches
    <3> QED BY Zenon, <1>1, <3>1, <3>3
  <2> QED BY Zenon, <2>1, WholeEmpty DEF Buffers
<1> QED BY ZenonT(40), <1>1, <1>2, <1>3, <1>13, <1>14, <1>15, <1>16 DEF DataInv, OldTails

LEMMA SeesAdvanceHead ==
    ASSUME Sees, advanceHead
    PROVE  DataInv' /\ Mapped
<1> DEFINE h == mem.headId
           v == arg
<1>1. /\ mode = "open" /\ pc = "advance" /\ dat' = WithFile(dat, h + 1, <<>>) /\ datSync' = 0
      /\ mem' = [mem EXCEPT !.headBytes = 0, !.headId = h + 1]
      /\ batch' = Buffered(v, h + 1, 0) /\ pc' = AfterBuffering(batch')
      /\ UNCHANGED <<idx, idxSync, meta, metaOld, mode>>
  BY Zenon DEF advanceHead
<1>2. mode' = "open" /\ mode' /= "down"
  BY <1>1
<1>3. IInv /\ IInv' /\ OldTails
  BY Zenon, <1>1, SeesOpen
<1>4. pc \in Writing /\ pc' \notin Indexing
  BY <1>1 DEF Writing, Indexing, AfterBuffering
<1>5. /\ GoodIndex(idx) /\ Backed(idx, dat, h) /\ PcInv /\ DataFiles(dat) /\ h \in Nat /\ batch \in Batches /\ mem \in Fields
      /\ LastEntry(idx).filenum \in Nat
  BY Zenon, <1>1, <1>3, OpenFacts DEF IInv, Types
<1>6. v \in Values /\ batch.data = <<>> /\ batch.index = <<>> /\ h = LastEntry(idx).filenum
  <2>1. BatchInv
    BY Zenon, <1>4, <1>5 DEF PcInv
  <2>2. pc \in {"full", "fullIndex", "advance"}
    BY <1>1
  <2> QED BY Zenon, <1>1, <2>1, <2>2 DEF BatchInv
<1>7. /\ h + 1 \in Nat /\ h + 1 /= h /\ 0 \in Nat /\ \A f \in Nat : f <= h => f /= h + 1
      /\ <<>> \in Seq(Byte) /\ Len(<<>>) = 0 /\ Len(<<>>) <= MaxFileSize /\ 0 + 0 = 0
  BY <1>5, SizeAssumption
<1>8. mem'.headId = h + 1 /\ mem'.headBytes = 0
  BY Zenon, <1>1, <1>5, <1>7 DEF Fields
<1>9. dat'[h + 1] = <<>> /\ \A g \in DOMAIN dat : g /= h + 1 => dat'[g] = dat[g]
  <2> DEFINE none == <<>>
             f == h + 1
  <2>1. none \in Seq(Byte) /\ Len(none) <= MaxFileSize /\ f \in Nat /\ dat' = WithFile(dat, f, none)
    BY Zenon, <1>1, <1>7
  <2> HIDE DEF none, f
  <2>2. WithFile(dat, f, none)[f] = none /\ \A g \in DOMAIN dat : g /= f => WithFile(dat, f, none)[g] = dat[g]
    BY ZenonT(40), <1>5, <2>1, WithFileFacts
  <2> QED BY Zenon, <2>1, <2>2 DEF none, f
<1>10. SameBytes
  <2> SUFFICES ASSUME NEW k \in 2 .. Len(idx), NEW p \in 1 .. idx[k].offset
               PROVE  dat'[idx[k].filenum][p] = dat[idx[k].filenum][p]
    BY Zenon DEF SameBytes
  <2>1. k \in 1 .. Len(idx)
    BY Zenon, <1>5, Positions
  <2>2. idx[k].filenum \in DOMAIN dat /\ idx[k].filenum \in Nat /\ idx[k].filenum <= h
    BY Zenon, <1>5, <2>1, HeldFiles DEF Backed
  <2> QED BY Zenon, <1>7, <1>9, <2>2
<1>11. Mapped
  BY Zenon, <1>1, <1>2, <1>10, MapsSame
<1>12. FlushedData'
  BY ZenonT(40), <1>1, <1>2, <1>3, <1>7, <1>8, <1>9, FlushedNow
<1>13. HeadEnd'
  BY Zenon, <1>1, <1>6, <1>7, <1>8 DEF HeadEnd
<1>14. IsBuffered(batch', v, h + 1, 0)
  BY Zenon, <1>1, <1>5, <1>6, <1>7, BufferedFacts
<1>15. Whole(batch'.index, 0, <<>> \o Bytes(v), 0 + Len(batch'.data))
  <2>1. /\ Len(<<>>) = 0 + Len(batch.data) /\ 0 = Len(<<>>)
    BY Zenon, <1>6, <1>7
  <2>2. Whole(batch.index, 0, <<>>, 0 + Len(batch.data))
    BY Zenon, <1>6, WholeEmpty
  <2>3. \A k \in 1 .. Len(batch.index) : batch.index[k].offset <= 0 + Len(batch.data)
    <3>1. \A k \in 1 .. Len(batch.index) : FALSE
      BY <1>6
    <3> QED BY Zenon, <3>1
  <2> HIDE DEF h, v
  <2> QED BY ZenonT(40), <1>5, <1>6, <1>7, <1>14, <2>1, <2>2, <2>3, BufferedWhole
<1>16. HeadFile' = <<>> \o Bytes(v)
  <2>1. HeadFile' = <<>> \o batch'.data
    BY Zenon, <1>4, <1>8, <1>9 DEF HeadFile
  <2>2. batch'.data = batch.data \o Bytes(v)
    BY Zenon, <1>14 DEF IsBuffered
  <2>3. Bytes(v) \in Seq(Byte)
    BY Zenon, <1>6, ByteFacts
  <2>4. <<>> \o (<<>> \o Bytes(v)) = <<>> \o Bytes(v)
    <3> DEFINE b == Bytes(v)
    <3> HIDE DEF b
    <3>1. <<>> \o b = b
      BY Zenon, <2>3, JoinFacts DEF b
    <3>2. <<>> \o (<<>> \o b) = <<>> \o b
      BY Zenon, <3>1
    <3> QED BY Zenon, <3>2 DEF b
  <2> QED BY Zenon, <1>6, <2>1, <2>2, <2>4
<1>17. Buffers'
  BY Zenon, <1>8, <1>15, <1>16 DEF Buffers
<1> QED BY ZenonT(40), <1>1, <1>2, <1>3, <1>11, <1>12, <1>13, <1>17 DEF DataInv, OldTails

----
(***************************************************************************)
(* Items are removed at the head.                                          *)
(***************************************************************************)
LEMMA SeesCutIndex ==
    ASSUME Sees, mode = "open", pc \in {"idle", "batch"}, NEW n \in Nat, CutIndex(n), mem.itemHidden <= n, n < mem.items
    PROVE  DataInv' /\ Mapped
<1> DEFINE a == idx[1].offset
           b == HeadOf(idx)
           c == ItemsOf(idx, dat, b)
           d == RepairedTail(idx, meta)
           e == idx[1].offset + idxSync - 1
           f == DurTail(idx, meta, metaOld)
           m == n - mem.itemOffset + 1
<1>1. /\ idx' = SubSeq(idx, 1, m) /\ idxSync' = Len(idx') /\ pc' = "headFiles"
      /\ UNCHANGED <<dat, datSync, meta, metaOld, mem, mode>>
  BY Zenon DEF CutIndex
<1>2. mode' = "open" /\ mode' /= "down" /\ pc' \in CuttingHead /\ pc' \notin Writing /\ pc \notin CuttingHead /\ pc /= "tailFiles"
  BY <1>1 DEF CuttingHead, Writing
<1>3. /\ IInv /\ IInv' /\ FlushedData /\ OldTails /\ view = OpenTable(idx, dat, meta, metaOld, idxSync)
      /\ view' = OpenTable(idx', dat', meta', metaOld', idxSync')
  BY Zenon, <1>2, SeesOpen
<1>4. a \in Int /\ b \in Int /\ d \in Int /\ e \in Int /\ f \in Int
  BY Zenon, <1>3, OpenNumbers
<1>5. /\ GoodIndex(idx) /\ Backed(idx, dat, mem.headId) /\ PcInv /\ DataFiles(dat) /\ idx \in Seq(Entries) /\ GoodIndex(idx')
      /\ Len(idx) \in Nat /\ a \in Nat /\ mem.items \in Nat /\ mem.itemHidden \in Nat /\ Backed(idx', dat', mem'.headId)
  BY ZenonT(40), <1>2, <1>3, OpenFacts, NowOpen
<1>6. mem.itemHidden = meta /\ a <= mem.itemHidden /\ mem.itemOffset = a /\ mem.items = a + Len(idx) - 1
  BY Zenon, <1>2, <1>5 DEF PcInv
<1>7. m \in 1 .. Len(idx) /\ m \in Nat /\ m >= 1 /\ n = a + m - 1 /\ m <= Len(idx)
  <2> DEFINE l == Len(idx)
             i == mem.items
             t == mem.itemHidden
             o == mem.itemOffset
  <2>1. a \in Nat /\ l \in Nat /\ i \in Nat /\ t \in Nat /\ i = a + l - 1 /\ a <= t /\ t <= n /\ n < i /\ o = a
    BY Zenon, <1>5, <1>6
  <2> HIDE DEF a, l, i, t, o
  <2>2. n - o + 1 \in 1 .. l /\ n - o + 1 \in Nat /\ n - o + 1 >= 1 /\ n = a + (n - o + 1) - 1 /\ n - o + 1 <= l
    BY <2>1
  <2> QED BY Zenon, <2>2 DEF l, o
<1> HIDE DEF m
<1>8. Len(idx') = m /\ \A k \in 1 .. m : idx'[k] = idx[k]
  BY ZenonT(40), <1>1, <1>5, <1>7, PrefixFacts
<1>9. idx'[1] = idx[1] /\ HeadOf(idx') = n /\ PrefixOf(idx', idx)
  <2>1. 1 \in 1 .. m
    BY <1>7
  <2> QED BY ZenonT(40), <1>7, <1>8, <2>1 DEF PrefixOf, HeadOf
<1>10. Agrees(idx', dat, dat)
  <2>1. dat' = dat
    BY Zenon, <1>1
  <2> QED BY <1>5, <2>1, BackedAgrees
<1>11. ItemsOf(idx', dat, n) = [i \in a .. n - 1 |-> c[i]]
  <2>1. ItemsOf(idx', dat, HeadOf(idx')) = [i \in idx[1].offset .. HeadOf(idx') - 1 |-> ItemsOf(idx, dat, HeadOf(idx))[i]]
    BY <1>5, <1>9, <1>10, ItemsSame
  <2> QED BY ZenonT(40), <1>9, <2>1
<1>12. view = Rec(a, b, c, d, e, f)
  BY Zenon, <1>3 DEF OpenTable
<1>13. view' = Rec(a, n, ItemsOf(idx', dat, n), d, n, f)
  <2>1. idx'[1].offset + idxSync' - 1 = n
    BY Zenon, <1>1, <1>9 DEF HeadOf
  <2> QED BY ZenonT(40), <1>1, <1>3, <1>9, <2>1 DEF OpenTable, RepairedTail, DurTail
<1> HIDE DEF a, b, c, d, e, f
<1>14. view' = Abstract!HeadTruncated(view, n)
  <2>1. n \in Int
    OBVIOUS
  <2>2. Abstract!HeadTruncated(view, n) = Rec(a, n, [i \in a .. n - 1 |-> c[i]], d, n, f)
    BY SMTT(30), Z3T(30), <1>4, <1>12, <2>1, RecHeadTruncated
  <2> QED BY ZenonT(40), <1>11, <1>13, <2>2
<1>15. n \in view.hid .. view.head - 1
  <2>1. view.hid = meta /\ view.head = mem.items
    BY Zenon, <1>6, ViewFields DEF a, HeadOf
  <2> QED BY <1>5, <1>6, <2>1
<1>16. Abstract!TruncateHead
  BY ZenonT(40), <1>1, <1>14, <1>15 DEF Abstract!TruncateHead
<1>17. FlushedData'
  <2>1. \A k \in 2 .. m : k \in 1 .. m /\ k \in 2 .. Len(idx)
    BY <1>5, <1>7
  <2> QED BY ZenonT(40), <1>1, <1>3, <1>8, <2>1 DEF FlushedData
<1> QED BY Zenon, <1>1, <1>2, <1>3, <1>16, <1>17 DEF DataInv, OldTails, HeadEnd, Buffers, Mapped, Abstract!Next

LEMMA SeesTruncateHead ==
    ASSUME Sees, NEW n \in 0 .. MaxItems, truncateHead(n)
    PROVE  DataInv' /\ Mapped
<1>1. mode = "open" /\ pc = "idle" /\ n < mem.items /\ n >= mem.itemHidden /\ CutIndex(n)
  BY Zenon DEF truncateHead, Idle
<1>2. mem.items \in Nat /\ mem.itemHidden \in Nat
  BY Zenon, <1>1, SeesOpen, OpenFacts
<1>3. n \in Nat /\ mem.itemHidden <= n
  BY <1>1, <1>2
<1> QED BY Zenon, <1>1, <1>3, SeesCutIndex

LEMMA SeesRollback ==
    ASSUME Sees, rollback
    PROVE  DataInv' /\ Mapped
<1>1. mode = "open" /\ pc = "batch"
  BY Zenon DEF rollback
<1>2. PcInv /\ batch.prevItem \in Nat /\ mem.items \in Nat
  BY ZenonT(40), <1>1, SeesOpen, OpenFacts
<1>3. mem.itemHidden <= batch.prevItem
  BY <1>1, <1>2 DEF PcInv, BatchInv, Writing
<1>4. CASE batch.prevItem < mem.items
  <2>1. CutIndex(batch.prevItem)
    BY Zenon, <1>4 DEF rollback
  <2> DEFINE n == batch.prevItem
  <2>2. n \in Nat /\ CutIndex(n) /\ mem.itemHidden <= n /\ n < mem.items
    BY ZenonT(40), <1>2, <1>3, <1>4, <2>1
  <2> HIDE DEF n
  <2> QED BY Zenon, <1>1, <2>2, SeesCutIndex
<1> QED BY Zenon, <1>4, SeesRollbackNothing

\* Removing files leaves the bytes that the index names.
LEMMA FilesRemoved ==
    ASSUME Sees, mode = "open", mode' = "open", UNCHANGED <<idx, idxSync, meta, metaOld>>,
           \A f \in DOMAIN dat' : dat'[f] = dat[f]
    PROVE  Mapped /\ mem'.headId \in DOMAIN dat'
<1>1. GoodIndex(idx) /\ Backed(idx, dat', mem'.headId)
  BY Zenon, SeesOpen, OpenFacts, NowOpen
<1>2. \A k \in 1 .. Len(idx) : idx[k].filenum \in DOMAIN dat' /\ mem'.headId \in DOMAIN dat'
  BY Zenon, <1>1, HeldFiles DEF Backed
<1>3. 1 \in 1 .. Len(idx) /\ \A k \in 2 .. Len(idx) : k \in 1 .. Len(idx)
  BY <1>1, Positions
<1>4. SameBytes
  BY Zenon, <1>2, <1>3 DEF SameBytes
<1> QED BY ZenonT(40), <1>2, <1>3, <1>4, MapsSame

LEMMA SeesTruncateHeadFiles ==
    ASSUME Sees, truncateHeadFiles
    PROVE  DataInv' /\ Mapped
<1> DEFINE h == mem.headId
           l == LastEntry(idx).filenum
           keep == {g \in DOMAIN dat : ~(Open(g) /\ g > l)}
<1>1. /\ mode = "open" /\ pc' = "headData" /\ dat' = [f \in keep |-> dat[f]]
      /\ mem' = [mem EXCEPT !.headId = l]
      /\ datSync' = IF l = h THEN datSync ELSE Len(File(dat, l))
      /\ UNCHANGED <<idx, idxSync, meta, metaOld, mode>>
  BY Zenon DEF truncateHeadFiles
<1>2. mode' = "open" /\ mode' /= "down" /\ pc' \in CuttingHead /\ pc' \notin Writing
  BY <1>1 DEF CuttingHead, Writing
<1>3. IInv /\ IInv' /\ FlushedData /\ OldTails
  BY Zenon, <1>1, SeesOpen
<1>4. \A f \in DOMAIN dat' : f \in DOMAIN dat /\ dat'[f] = dat[f]
  BY Zenon, <1>1
<1>5. Mapped /\ mem'.headId \in DOMAIN dat'
  BY Zenon, <1>1, <1>2, <1>4, FilesRemoved
<1>6. mem \in Fields /\ l \in Nat
  BY Zenon, <1>1, <1>3, OpenFacts DEF IInv, Types
<1>7. mem'.headId = l
  BY Zenon, <1>1, <1>6 DEF Fields
<1>8. FlushedData'
  <2>1. CASE l = h
    BY ZenonT(40), <1>1, <1>3, <1>4, <1>5, <1>7, <2>1 DEF FlushedData
  <2>2. CASE l /= h
    <3>1. File(dat, l) = dat'[l]
      BY ZenonT(40), <1>4, <1>5, <1>7 DEF File
    <3> QED BY ZenonT(40), <1>1, <1>2, <1>3, <1>7, <2>2, <3>1, FlushedNow
  <2> QED BY <2>1, <2>2
<1> QED BY ZenonT(40), <1>1, <1>2, <1>3, <1>5, <1>8 DEF DataInv, OldTails, HeadEnd, Buffers

LEMMA SeesTruncateHeadData ==
    ASSUME Sees, truncateHeadData
    PROVE  DataInv' /\ Mapped
<1> DEFINE h == mem.headId
           e == LastEntry(idx)
           bs == SubSeq(dat[e.filenum], 1, e.offset)
<1>1. /\ mode = "open" /\ pc = "headData" /\ pc' = "idle" /\ dat' = [dat EXCEPT ![e.filenum] = bs]
      /\ datSync' = e.offset /\ mem' = [mem EXCEPT !.headBytes = e.offset, !.items = arg]
      /\ UNCHANGED <<idx, idxSync, meta, metaOld, mode>>
  BY Zenon DEF truncateHeadData
<1>2. mode' = "open" /\ mode' /= "down" /\ pc' \notin CuttingHead /\ pc' \notin Indexing /\ pc' \notin Writing
  BY <1>1 DEF CuttingHead, Indexing, Writing
<1>3. IInv /\ IInv' /\ OldTails
  BY Zenon, <1>1, SeesOpen
<1>4. /\ GoodIndex(idx) /\ Backed(idx, dat, h) /\ PcInv /\ h \in Nat /\ h \in DOMAIN dat /\ dat[h] \in Seq(Byte)
      /\ e.offset \in Nat /\ mem \in Fields /\ Len(dat[h]) \in Nat
  BY Zenon, <1>1, <1>3, OpenFacts DEF IInv, Types
<1>5. h = e.filenum
  BY Zenon, <1>1, <1>4 DEF PcInv
<1>6. Backed(idx, dat', mem'.headId) /\ PcInv' /\ DataFiles(dat') /\ Types'
  BY ZenonT(40), <1>1, <1>2, <1>3, NowOpen
<1>7. dat'[h] = bs /\ \A g \in DOMAIN dat : g /= h => dat'[g] = dat[g]
  BY Zenon, <1>1, <1>4, <1>5
<1>8. mem'.headId = h /\ mem'.headBytes = e.offset
  <2>1. arg \in Nat
    <3>1. pc \in CuttingHead
      BY <1>1 DEF CuttingHead
    <3>2. arg = idx[1].offset + Len(idx) - 1
      BY Zenon, <1>4, <3>1 DEF PcInv
    <3> QED BY Zenon, <1>4, <3>2, Positions
  <2> QED BY Zenon, <1>1, <1>4, <2>1 DEF Fields
<1>9. Len(bs) = e.offset
  <2>1. Len(dat'[mem'.headId]) = mem'.headBytes + 0
    BY Zenon, <1>2, <1>6 DEF PcInv
  <2>2. Len(bs) = e.offset + 0
    BY Zenon, <1>7, <1>8, <2>1
  <2> HIDE DEF bs, e
  <2> QED BY <1>4, <2>2
<1>10. \A p \in 1 .. e.offset : bs[p] = dat[h][p]
  <2> DEFINE s == dat[h]
             n == e.offset
             t == SubSeq(s, 1, n)
  <2>1. s \in Seq(Byte) /\ n \in Nat /\ Len(t) = n
    BY Zenon, <1>4, <1>5, <1>9
  <2> HIDE DEF s, n
  <2>2. \A p \in 1 .. n : t[p] = s[p]
    BY <2>1
  <2> QED BY Zenon, <1>5, <2>2 DEF s, n
<1> HIDE DEF bs, e
<1>11. SameBytes
  <2> SUFFICES ASSUME NEW k \in 2 .. Len(idx), NEW p \in 1 .. idx[k].offset
               PROVE  dat'[idx[k].filenum][p] = dat[idx[k].filenum][p]
    BY Zenon DEF SameBytes
  <2>1. k \in 1 .. Len(idx) /\ idx[k].offset \in Nat
    BY Zenon, <1>4, Positions
  <2>2. CASE idx[k].filenum = h
    <3>1. idx[k].offset <= e.offset
      BY ZenonT(40), <1>6, <1>7, <1>8, <1>9, <2>2 DEF Backed
    <3>2. p \in 1 .. e.offset
      BY SMTT(30), Z3T(30), <1>4, <2>1, <3>1
    <3> QED BY ZenonT(40), <1>7, <1>10, <2>2, <3>2
  <2>3. CASE idx[k].filenum /= h
    <3>1. idx[k].filenum \in DOMAIN dat
      BY Zenon, <1>4, <2>1, HeldFiles DEF Backed
    <3> QED BY Zenon, <1>7, <2>3, <3>1
  <2> QED BY <2>2, <2>3
<1>12. Mapped
  BY Zenon, <1>1, <1>2, <1>11, MapsSame
<1>13. FlushedData'
  BY ZenonT(40), <1>1, <1>2, <1>3, <1>7, <1>8, <1>9, FlushedNow
<1>14. HeadEnd'
  BY Zenon, <1>1, <1>8 DEF HeadEnd, e
<1> QED BY ZenonT(40), <1>1, <1>2, <1>3, <1>12, <1>13, <1>14 DEF DataInv, OldTails, Buffers

----
(***************************************************************************)
(* Items are hidden and removed at the tail.                               *)
(***************************************************************************)
\* The virtual tail is never below the first item of an open table.
LEMMA TailIs ==
    ASSUME IInv', mode' = "open"
    PROVE  RepairedTail(idx', meta') = meta' /\ meta' \in Nat /\ idx'[1].offset <= meta'
<1>1. GoodIndex(idx') /\ PcInv' /\ Types'
  BY Zenon, NowOpen
<1>2. meta' \in Nat
  <2>1. meta' \in 0 .. MaxItems
    BY Zenon, <1>1 DEF Types
  <2> QED BY <2>1
<1>3. idx'[1].offset <= meta' /\ idx'[1].offset \in Nat
  BY Zenon, <1>1, Positions DEF PcInv
<1>4. RepairedTail(idx', meta') = (IF meta' >= idx'[1].offset THEN meta' ELSE idx'[1].offset)
  <2>1. {} \in SUBSET Nat
    OBVIOUS
  <2> QED BY ZenonT(40), <1>1, <1>2, <2>1, TailFacts
<1> QED BY <1>2, <1>3, <1>4

LEMMA SeesTruncateTail ==
    ASSUME Sees, NEW n \in 0 .. MaxItems, truncateTail(n)
    PROVE  DataInv' /\ Mapped
<1> DEFINE a == idx[1].offset
           b == HeadOf(idx)
           c == ItemsOf(idx, dat, b)
           d == RepairedTail(idx, meta)
           e == idx[1].offset + idxSync - 1
           f == DurTail(idx, meta, metaOld)
<1>1. /\ mode = "open" /\ pc = "idle" /\ mem.itemHidden < n /\ n <= mem.items
      /\ mem' = [mem EXCEPT !.itemHidden = n] /\ meta' = n /\ metaOld' = metaOld \cup {meta}
      /\ pc' = pc \/ pc' = "tailIndex"
      /\ UNCHANGED <<idx, idxSync, dat, datSync, mode>>
  BY Zenon DEF truncateTail, Idle
<1>2. mode' = "open" /\ mode' /= "down" /\ pc \notin CuttingHead /\ pc' \notin CuttingHead /\ pc' \notin Writing
  BY <1>1 DEF CuttingHead, Writing
<1>3. /\ IInv /\ IInv' /\ HeadEnd /\ FlushedData /\ OldTails /\ view = OpenTable(idx, dat, meta, metaOld, idxSync)
      /\ view' = OpenTable(idx', dat', meta', metaOld', idxSync')
  BY Zenon, <1>1, <1>2, SeesOpen
<1>4. a \in Int /\ b \in Int /\ d \in Int /\ e \in Int /\ f \in Int /\ meta \in Nat /\ metaOld \in SUBSET Nat
  BY ZenonT(40), <1>1, <1>3, OpenNumbers
<1>5. GoodIndex(idx) /\ PcInv /\ mem.items \in Nat /\ mem \in Fields /\ n \in Nat
  <2>1. n \in Nat
    BY SizeAssumption
  <2> QED BY ZenonT(40), <1>1, <1>3, <2>1, OpenFacts DEF IInv, Types
<1>6. mem.itemHidden = meta /\ mem.items = a + Len(idx) - 1
  BY Zenon, <1>2, <1>5 DEF PcInv
<1>7. mem'.headId = mem.headId /\ mem'.headBytes = mem.headBytes
  BY Zenon, <1>1, <1>5 DEF Fields
<1>8. RepairedTail(idx, n) = n
  <2>1. RepairedTail(idx', meta') = meta'
    BY Zenon, <1>2, <1>3, TailIs
  <2> QED BY Zenon, <1>1, <2>1
<1>9. DurTail(idx, n, metaOld \cup {meta}) = f
  <2>1. meta < n
    BY Zenon, <1>1, <1>6
  <2> QED BY <1>4, <1>5, <2>1, TailRaised
<1>10. view = Rec(a, b, c, d, e, f) /\ view' = Rec(a, b, c, n, e, f)
  BY Zenon, <1>1, <1>3, <1>8, <1>9 DEF OpenTable
<1> HIDE DEF a, b, c, d, e, f
<1>11. view' = Abstract!TailTruncated(view, n)
  <2>1. n \in Int
    BY <1>5
  <2>2. Abstract!TailTruncated(view, n) = Rec(a, b, c, n, e, f)
    BY <1>4, <1>10, <2>1, RecTailTruncated
  <2> QED BY Zenon, <1>10, <2>2
<1>12. n \in view.hid + 1 .. view.head
  <2>1. view.hid = meta /\ view.head = mem.items
    BY Zenon, <1>1, <1>6, ViewFields DEF a, HeadOf
  <2> QED BY SMTT(30), Z3T(30), <1>1, <1>4, <1>5, <1>6, <2>1
<1>13. Abstract!TruncateTail
  BY Zenon, <1>1, <1>11, <1>12 DEF Abstract!TruncateTail
<1>14. OldTails'
  <2>1. \A m \in metaOld \cup {meta} : m \in Nat /\ m <= meta
    BY <1>3, <1>4 DEF OldTails
  <2>2. \A m \in Nat : m <= meta => m <= n
    BY <1>1, <1>4, <1>5, <1>6
  <2> QED BY ZenonT(40), <1>1, <2>1, <2>2 DEF OldTails
<1>15. HeadEnd' /\ FlushedData'
  BY ZenonT(40), <1>1, <1>2, <1>3, <1>7 DEF HeadEnd, FlushedData
<1> QED BY ZenonT(40), <1>2, <1>13, <1>14, <1>15 DEF DataInv, Buffers, Mapped, Abstract!Next

LEMMA SeesTruncateTailFiles ==
    ASSUME Sees, truncateTailFiles
    PROVE  DataInv' /\ Mapped
<1> DEFINE h == mem.headId
           keep == {g \in DOMAIN dat : ~(Open(g) /\ g < idx[1].filenum)}
<1>1. /\ mode = "open" /\ pc = "tailFiles" /\ pc' = "idle" /\ dat' = [f \in keep |-> dat[f]]
      /\ mem' = [mem EXCEPT !.tailId = idx[1].filenum, !.itemOffset = idx[1].offset]
      /\ UNCHANGED <<idx, idxSync, datSync, meta, metaOld, mode>>
  BY Zenon DEF truncateTailFiles
<1>2. mode' = "open" /\ mode' /= "down" /\ pc \notin CuttingHead /\ pc' \notin Writing
  BY <1>1 DEF CuttingHead, Writing
<1>3. IInv /\ IInv' /\ FlushedData /\ OldTails /\ HeadEnd
  BY Zenon, <1>1, SeesOpen
<1>4. \A f \in DOMAIN dat' : f \in DOMAIN dat /\ dat'[f] = dat[f]
  BY Zenon, <1>1
<1>5. Mapped /\ mem'.headId \in DOMAIN dat'
  BY ZenonT(40), <1>1, <1>2, <1>4, FilesRemoved
<1>6. mem \in Fields /\ idx[1].filenum \in Nat /\ idx[1].offset \in Nat
  BY ZenonT(40), <1>1, <1>3, OpenFacts DEF IInv, Types
<1>7. mem'.headId = h /\ mem'.headBytes = mem.headBytes
  BY Zenon, <1>1, <1>6 DEF Fields
<1>8. FlushedData' /\ HeadEnd'
  BY ZenonT(40), <1>1, <1>2, <1>3, <1>4, <1>5, <1>7 DEF FlushedData, HeadEnd
<1> QED BY ZenonT(40), <1>1, <1>2, <1>3, <1>5, <1>8 DEF DataInv, OldTails, Buffers

LEMMA SeesTruncateTailIndex ==
    ASSUME Sees, truncateTailIndex
    PROVE  DataInv' /\ Mapped
<1> DEFINE h == mem.headId
           n == arg
           t == NewTailId(n)
           l == NewDeleted(n)
           o == mem.itemOffset
           p == l - o + 2
           L == Len(idx)
           J == idx'
           a == idx[1].offset
           b == HeadOf(idx)
           c == ItemsOf(idx, dat, b)
           d == RepairedTail(idx, meta)
           e == idx[1].offset + idxSync - 1
           f == DurTail(idx, meta, metaOld)
<1>1. /\ mode = "open" /\ pc = "tailIndex" /\ pc' = "tailFiles" /\ J = <<Entry(t, l)>> \o SubSeq(idx, p, L)
      /\ idxSync' = Len(J) /\ metaOld' = {}
      /\ UNCHANGED <<dat, datSync, meta, mem, mode>>
  BY Zenon DEF truncateTailIndex
<1>2. /\ mode' = "open" /\ mode' /= "down" /\ pc \notin CuttingHead /\ pc /= "tailFiles" /\ pc' \notin CuttingHead
      /\ pc' \notin Writing
  BY <1>1 DEF CuttingHead, Writing
<1>3. /\ IInv /\ IInv' /\ HeadEnd /\ FlushedData /\ view = OpenTable(idx, dat, meta, metaOld, idxSync)
      /\ view' = OpenTable(idx', dat', meta', metaOld', idxSync')
  BY Zenon, <1>1, <1>2, SeesOpen
<1>4. a \in Int /\ b \in Int /\ d \in Int /\ e \in Int /\ f \in Int /\ meta \in Nat /\ metaOld \in SUBSET Nat /\ d = meta
  BY Zenon, <1>1, <1>3, OpenNumbers
<1>5. /\ GoodIndex(idx) /\ PcInv /\ h \in Nat /\ L \in Nat /\ L >= 1 /\ mem.items \in Nat /\ o \in Nat /\ idx \in Seq(Entries)
      /\ mem.tailId \in Nat
  BY Zenon, <1>1, <1>3, OpenFacts
<1>6. /\ n \in Nat /\ n <= mem.items /\ t \in Nat /\ mem.tailId < t /\ (n = mem.items => t = h)
      /\ l \in Nat /\ o <= l /\ l <= n /\ p \in 2 .. L + 1 /\ (p <= L => idx[p].filenum = t)
      /\ (p > 2 => idx[p - 1].filenum /= t)
  BY Zenon, <1>1, <1>3, NewTail
<1>7. /\ o = a /\ n = mem.itemHidden /\ mem.itemHidden = meta /\ mem.items = o + L - 1 /\ o < n
      /\ h = LastEntry(idx).filenum \/ mem.headBytes = 0
  BY Zenon, <1>1, <1>2, <1>5 DEF PcInv
<1> HIDE DEF n, t, l, o, p, L
<1>8. IsTailCut(J, idx, t, l, p)
  <2>1. t /= 0
    BY <1>5, <1>6
  <2>2. IsTailCut(<<Entry(t, l)>> \o SubSeq(idx, p, Len(idx)), idx, t, l, p)
    BY <1>5, <1>6, <2>1, TailIndex DEF L
  <2> QED BY Zenon, <1>1, <2>2 DEF L
<1>9. GoodIndex(J) /\ J[1].offset = l /\ Len(J) = L - p + 2
  BY Zenon, <1>8 DEF IsTailCut, L
<1>10. IsTailOf(J, idx, p)
  <2>1. l = a + p - 2
    <3>1. p = l - o + 2 /\ o = a /\ o \in Nat /\ l \in Nat
      BY ZenonT(40), <1>5, <1>6, <1>7 DEF p
    <3> HIDE DEF a
    <3> QED BY <3>1
  <2> QED BY Zenon, <1>6, <1>8, <2>1 DEF IsTailCut, IsTailOf, L
<1>11. HeadOf(J) = b /\ ItemsOf(J, dat, b) = [i \in l .. b - 1 |-> c[i]]
  <2>1. /\ HeadOf(J) = HeadOf(idx)
        /\ ItemsOf(J, dat, HeadOf(J)) = [i \in J[1].offset .. HeadOf(idx) - 1 |-> ItemsOf(idx, dat, HeadOf(idx))[i]]
    BY <1>5, <1>9, <1>10, TailItems
  <2> QED BY Zenon, <1>9, <2>1
<1>12. RepairedTail(J, meta) = d /\ DurTail(J, meta, {}) = d
  <2>1. RepairedTail(idx', meta') = meta'
    BY Zenon, <1>2, <1>3, TailIs
  <2>2. {} \in SUBSET Nat
    OBVIOUS
  <2>3. DurTail(J, meta, {}) = RepairedTail(J, meta)
    BY ZenonT(40), <1>4, <1>9, <2>2, TailFacts
  <2> QED BY ZenonT(40), <1>1, <1>4, <2>1, <2>3
<1>13. view = Rec(a, b, c, d, e, f)
  BY Zenon, <1>3 DEF OpenTable
<1>14. view' = Rec(l, b, ItemsOf(J, dat, b), d, b, d)
  <2>1. J[1].offset + idxSync' - 1 = b
    BY Zenon, <1>1, <1>11 DEF HeadOf
  <2> QED BY ZenonT(40), <1>1, <1>3, <1>9, <1>11, <1>12, <2>1 DEF OpenTable
<1>15. l \in view.lo .. view.hid
  <2>1. view.lo = a /\ view.hid = meta
    BY Zenon, <1>1, ViewFields
  <2> QED BY SMTT(30), Z3T(30), <1>4, <1>6, <1>7, <2>1
<1> HIDE DEF a, b, c, d, e, f, J
<1>16. view' = Abstract!Dropped(view, l)
  <2>1. l \in Int
    BY <1>6
  <2>2. Abstract!Dropped(view, l) = Rec(l, b, [i \in l .. b - 1 |-> c[i]], d, b, d)
    BY SMTT(30), Z3T(30), <1>4, <1>13, <2>1, RecDropped
  <2> QED BY ZenonT(40), <1>11, <1>14, <2>2
<1>17. Abstract!Drop
  BY ZenonT(40), <1>1, <1>15, <1>16 DEF Abstract!Drop
<1>18. FlushedData'
  <2>1. \A k \in 2 .. Len(J) : \E m \in 2 .. L : J[k] = idx[m]
    BY Zenon, <1>8 DEF IsTailCut, L
  <2> QED BY ZenonT(40), <1>1, <1>3, <2>1 DEF FlushedData, J, L
<1>19. HeadEnd'
  <2> SUFFICES ASSUME h = LastEntry(J).filenum
               PROVE  LastEntry(J).offset = mem.headBytes
    BY Zenon, <1>1 DEF HeadEnd, J
  <2>1. CASE Len(J) /= 1
    BY ZenonT(40), <1>2, <1>3, <1>8, <2>1 DEF HeadEnd, IsTailCut
  <2>2. CASE Len(J) = 1
    <3>1. LastEntry(J).offset = 0
      BY Zenon, <1>8, <2>2 DEF IsTailCut
    <3>2. n = mem.items /\ p - 1 = L /\ L >= 2 /\ p > 2
      <4> DEFINE i == mem.items
      <4>1. /\ L - p + 2 = 1 /\ p = l - o + 2 /\ i = o + L - 1 /\ o < n /\ l <= n /\ n <= i /\ o <= l
            /\ i \in Nat /\ L \in Nat /\ l \in Nat /\ o \in Nat /\ n \in Nat
        BY ZenonT(40), <1>5, <1>6, <1>7, <1>9, <2>2 DEF p
      <4> HIDE DEF i
      <4>2. n = i /\ p - 1 = L /\ L >= 2 /\ p > 2
        BY <4>1
      <4> QED BY Zenon, <4>2 DEF i
    <3>3. LastEntry(idx).filenum /= h
      <4>1. LastEntry(idx).filenum = idx[L].filenum
        BY Zenon, <1>5, LastFacts DEF L
      <4> QED BY Zenon, <1>6, <3>2, <4>1
    <3> QED BY Zenon, <1>7, <3>1, <3>3
  <2> QED BY <2>1, <2>2
<1>20. OldTails'
  BY Zenon, <1>1 DEF OldTails
<1> QED BY ZenonT(40), <1>2, <1>17, <1>18, <1>19, <1>20 DEF DataInv, Buffers, Mapped, Abstract!Next

----
(***************************************************************************)
(* Sync, Close, a power failure, and opening the table again.              *)
(***************************************************************************)
\* The record of a table of which everything has been flushed.
LEMMA FlushedTable ==
    ASSUME NEW I, GoodIndex(I), NEW D, NEW m \in Nat
    PROVE  /\ OpenTable(I, D, m, {}, Len(I)) = ShutTable(I, D, m, {})
           /\ ShutTable(I, D, m, {})
                = Rec(I[1].offset, HeadOf(I), ItemsOf(I, D, HeadOf(I)), RepairedTail(I, m), HeadOf(I), RepairedTail(I, m))
<1>1. {} \in SUBSET Nat
  OBVIOUS
<1>2. DurTail(I, m, {}) = RepairedTail(I, m)
  BY Zenon, <1>1, TailFacts
<1>3. I[1].offset + Len(I) - 1 = HeadOf(I)
  BY Zenon DEF HeadOf
<1> QED BY Zenon, <1>2, <1>3 DEF OpenTable, ShutTable

LEMMA IsSynced ==
    ASSUME Sees, mode = "open", view' = ShutTable(idx, dat, meta, {})
    PROVE  view' = Abstract!Synced(view)
<1> DEFINE a == idx[1].offset
           b == HeadOf(idx)
           c == ItemsOf(idx, dat, b)
           d == RepairedTail(idx, meta)
           e == idx[1].offset + idxSync - 1
           f == DurTail(idx, meta, metaOld)
<1>1. IInv /\ view = OpenTable(idx, dat, meta, metaOld, idxSync)
  BY Zenon, SeesOpen
<1>2. a \in Int /\ b \in Int /\ d \in Int /\ e \in Int /\ f \in Int /\ meta \in Nat
  BY Zenon, <1>1, OpenNumbers
<1>3. view' = Rec(a, b, c, d, b, d)
  BY Zenon, <1>1, <1>2, FlushedTable, OpenFacts
<1>4. view = Rec(a, b, c, d, e, f)
  BY Zenon, <1>1 DEF OpenTable
<1> HIDE DEF a, b, c, d, e, f
<1>5. Abstract!Synced(view) = Rec(a, b, c, d, b, d)
  BY <1>2, <1>4, RecSynced
<1> QED BY Zenon, <1>3, <1>5

LEMMA SeesSync ==
    ASSUME Sees, Sync
    PROVE  DataInv' /\ Mapped
<1>1. /\ mode = "open" /\ idxSync' = Len(idx) /\ datSync' = Len(dat[mem.headId]) /\ metaOld' = {}
      /\ UNCHANGED <<idx, dat, meta, mem, batch, pc, mode>>
  BY Zenon DEF Sync, Flush
<1>2. mode' = "open" /\ mode' /= "down"
  BY <1>1
<1>3. /\ IInv /\ IInv' /\ Buffers /\ HeadEnd /\ view' = OpenTable(idx, dat, meta, {}, Len(idx))
  BY Zenon, <1>1, <1>2, SeesOpen
<1>4. GoodIndex(idx) /\ meta \in Nat
  BY Zenon, <1>1, <1>3, OpenFacts, OpenNumbers
<1>5. view' = Abstract!Synced(view)
  BY Zenon, <1>1, <1>3, <1>4, FlushedTable, IsSynced
<1>6. Abstract!Sync
  BY Zenon, <1>1, <1>5 DEF Abstract!Sync
<1>7. FlushedData'
  BY Zenon, <1>1, <1>2, <1>3, FlushedNow
<1>8. Buffers' /\ HeadEnd' /\ OldTails'
  BY Zenon, <1>1, <1>3 DEF Buffers, HeadFile, HeadEnd, OldTails
<1> QED BY Zenon, <1>2, <1>6, <1>7, <1>8 DEF DataInv, Mapped, Abstract!Next

LEMMA SeesClose ==
    ASSUME Sees, Close
    PROVE  DataInv' /\ Mapped
<1>1. /\ mode = "open" /\ metaOld' = {} /\ mode' = "down" /\ UNCHANGED <<idx, dat, meta>>
  BY Zenon DEF Close, Flush, Idle
<1>2. mode' /= "open"
  BY <1>1
<1>3. IInv /\ view' = ShutTable(RepairedIndex(idx, dat), dat, meta, {})
  BY Zenon, <1>1, <1>2, SeesOpen
<1>4. RepairedIndex(idx, dat) = idx
  BY Zenon, <1>1, <1>3, OpenFacts, BackedRepair
<1>5. view' = Abstract!Synced(view)
  BY Zenon, <1>1, <1>3, <1>4, IsSynced
<1>6. Abstract!Close
  BY Zenon, <1>1, <1>5 DEF Abstract!Close
<1> QED BY Zenon, <1>1, <1>2, <1>6 DEF DataInv, Mapped, Abstract!Next

LEMMA SeesCrash ==
    ASSUME Sees, Crash
    PROVE  DataInv' /\ Mapped
<1> DEFINE h == mem.headId
           T == idx'
           J == repairIndex(idx')
           a == idx[1].offset
           b == HeadOf(idx)
           c == ItemsOf(idx, dat, b)
           d == RepairedTail(idx, meta)
           e == idx[1].offset + idxSync - 1
           f == DurTail(idx, meta, metaOld)
           q == HeadOf(J)
           r == RepairedTail(idx, meta')
<1>1. /\ mode = "open" /\ T \in Torn(idx, idxSync, ZeroEntry) /\ ~Undetectable(T)
      /\ meta' \in metaOld \cup {meta} /\ mode' = "down" /\ metaOld' = {}
  BY Zenon DEF Crash
<1>2. PICK bs \in Torn(dat[h], datSync, ZeroByte) : dat' = [dat EXCEPT ![h] = bs]
  BY Zenon DEF Crash
<1>3. mode' /= "open"
  BY <1>1
<1>4. /\ IInv /\ IInv' /\ FlushedData /\ OldTails /\ view = OpenTable(idx, dat, meta, metaOld, idxSync)
      /\ view' = ShutTable(RepairedIndex(idx', dat'), dat', meta', {})
  BY Zenon, <1>1, <1>3, SeesOpen
<1>5. /\ a \in Int /\ b \in Int /\ d \in Int /\ e \in Int /\ f \in Int /\ meta \in Nat /\ metaOld \in SUBSET Nat
  BY Zenon, <1>1, <1>4, OpenNumbers
<1>6. /\ GoodIndex(idx) /\ Backed(idx, dat, h) /\ DataFiles(dat) /\ h \in DOMAIN dat /\ dat[h] \in Seq(Byte)
      /\ Len(idx) \in Nat /\ idx \in Seq(Entries) /\ a \in Nat
      /\ idxSync \in 1 .. Len(idx) /\ datSync \in Nat /\ DataFiles(dat')
  BY Zenon, <1>1, <1>4, OpenFacts DEF IInv, Types
<1>7. PICK m \in idxSync .. Len(idx) : J = SubSeq(idx, 1, m)
  BY Zenon, <1>1, <1>6, TornIndex
<1>8. m \in 1 .. Len(idx) /\ m \in Nat /\ m <= Len(idx) /\ 1 \in 1 .. m /\ \A k \in 2 .. m : k \in 1 .. m /\ k \in 2 .. Len(idx)
  BY <1>6
<1>9. bs \in Seq(Byte) /\ Len(bs) \in Nat /\ datSync <= Len(bs) /\ \A k \in 1 .. datSync : bs[k] = dat[h][k]
  BY Zenon, <1>6, TornData
<1>10. dat'[h] = bs /\ \A g \in DOMAIN dat : g /= h => dat'[g] = dat[g]
  BY Zenon, <1>2, <1>6
<1>11. /\ GoodIndex(J) /\ Held(J, dat, h) /\ Len(J) = m /\ \A k \in 1 .. m : J[k] = idx[k]
  <2>1. Held(idx, dat, h)
    BY Zenon, <1>6 DEF Backed
  <2> DEFINE K == SubSeq(idx, 1, m)
  <2>2. Len(K) = m /\ \A k \in 1 .. m : K[k] = idx[k]
    BY Zenon, <1>6, <1>8, PrefixFacts
  <2>3. GoodIndex(K)
    BY Zenon, <1>6, <1>8, PrefixGood
  <2>4. Held(K, dat, h)
    BY ZenonT(40), <1>6, <1>8, <2>1, HeldPrefix
  <2> HIDE DEF K
  <2>5. J = K
    BY Zenon, <1>7 DEF K
  <2> QED BY Zenon, <2>2, <2>3, <2>4, <2>5
<1>12. ASSUME NEW k \in 2 .. m
       PROVE  /\ J[k] = idx[k] /\ idx[k].offset \in Nat /\ idx[k].filenum \in DOMAIN dat
              /\ idx[k].filenum = h => idx[k].offset <= datSync
              /\ idx[k].filenum = h => idx[k].offset <= Len(dat[h])
              /\ idx[k].filenum = h => idx[k].offset <= Len(bs)
  <2>1. J[k] = idx[k] /\ idx[k].offset \in Nat /\ (idx[k].filenum = h => idx[k].offset <= datSync)
        /\ (idx[k].filenum = h => idx[k].offset <= Len(dat[h]))
    BY ZenonT(40), <1>4, <1>6, <1>8, <1>11, Positions DEF FlushedData, Backed
  <2>2. \A x \in Nat : x <= datSync => x <= Len(bs)
    BY <1>6, <1>9
  <2>3. idx[k].filenum \in DOMAIN dat
    BY ZenonT(40), <1>6, <1>8, HeldFiles, Positions DEF Backed
  <2> QED BY Zenon, <2>1, <2>2, <2>3
<1> HIDE DEF J
<1>13. Backed(J, dat, h)
  BY Zenon, <1>11, <1>12 DEF Backed
<1>14. Backed(J, dat', h)
  <2>1. DOMAIN dat' = DOMAIN dat
    BY Zenon, <1>2
  <2>2. Held(J, dat', h)
    BY ZenonT(40), <1>10, <1>11, <2>1, HeadChange DEF SameButHead
  <2> QED BY ZenonT(40), <1>10, <1>11, <1>12, <2>2 DEF Backed
<1>15. RepairedIndex(idx', dat') = J
  <2>1. RepairedIndex(J, dat') = J /\ repairIndex(J) = J
    BY ZenonT(40), <1>6, <1>11, <1>14, BackedRepair, RepairIndexKeeps
  <2> QED BY Zenon, <2>1 DEF RepairedIndex, J
<1>16. Agrees(J, dat, dat')
  <2>1. ASSUME NEW k \in 2 .. m, NEW p \in 1 .. J[k].offset
        PROVE  dat'[J[k].filenum][p] = dat[J[k].filenum][p]
    <3>1. CASE idx[k].filenum = h
      <4>1. p \in 1 .. datSync
        BY <1>6, <1>12, <3>1
      <4> QED BY ZenonT(40), <1>9, <1>10, <1>12, <3>1, <4>1
    <3>2. CASE idx[k].filenum /= h
      BY Zenon, <1>10, <1>12, <3>2
    <3> QED BY <3>1, <3>2
  <2>2. \A k \in 2 .. Len(J) : \A p \in 1 .. J[k].offset : dat'[J[k].filenum][p] = dat[J[k].filenum][p]
    BY Zenon, <1>11, <2>1
  <2> QED BY SMTT(30), Z3T(30), <1>6, <1>11, <1>13, <1>14, <2>2, BackedAgrees
<1>17. J[1] = idx[1] /\ q = a + m - 1 /\ PrefixOf(J, idx)
  <2>1. J[1] = idx[1]
    BY Zenon, <1>8, <1>11
  <2> QED BY Zenon, <1>8, <1>11, <2>1 DEF HeadOf, PrefixOf
<1>18. ItemsOf(J, dat', q) = [i \in a .. q - 1 |-> c[i]]
  <2>1. ItemsOf(J, dat', HeadOf(J)) = [i \in idx[1].offset .. HeadOf(J) - 1 |-> ItemsOf(idx, dat, HeadOf(idx))[i]]
    <3>1. GoodIndex(idx) /\ GoodIndex(J) /\ PrefixOf(J, idx) /\ Agrees(J, dat, dat')
      BY ZenonT(40), <1>6, <1>11, <1>16, <1>17
    <3> QED BY <3>1, ItemsSame
  <2> QED BY Zenon, <2>1
<1>19. meta' \in Nat /\ r \in f .. d
  <2>1. meta' \in Nat
    BY Zenon, <1>1, <1>5
  <2>2. \A x \in metaOld : x <= meta
    BY Zenon, <1>4 DEF OldTails
  <2>3. r \in f .. d
    <3>1. GoodIndex(idx) /\ meta \in Nat /\ metaOld \in SUBSET Nat /\ meta' \in metaOld \cup {meta}
      BY Zenon, <1>1, <1>5, <1>6
    <3> QED BY Zenon, <2>2, <3>1, TailCrashed
  <2> QED BY Zenon, <2>1, <2>3
<1>20. view' = Rec(a, q, ItemsOf(J, dat', q), r, q, r)
  <2>1. view' = Rec(J[1].offset, q, ItemsOf(J, dat', q), RepairedTail(J, meta'), q, RepairedTail(J, meta'))
    BY ZenonT(40), <1>4, <1>11, <1>15, <1>19, FlushedTable
  <2>2. RepairedTail(J, meta') = r
    BY Zenon, <1>17 DEF RepairedTail
  <2> QED BY ZenonT(40), <1>17, <2>1, <2>2
<1>21. q \in e .. b
  <2>1. b = a + Len(idx) - 1
    BY Zenon DEF HeadOf
  <2>2. q = a + m - 1
    BY Zenon, <1>17
  <2> HIDE DEF a, b, q
  <2>3. e = a + idxSync - 1
    BY Zenon DEF a
  <2> HIDE DEF e
  <2> QED BY SMTT(30), Z3T(30), <1>6, <1>8, <2>1, <2>2, <2>3
<1>22. view = Rec(a, b, c, d, e, f)
  BY Zenon, <1>4 DEF OpenTable
<1> HIDE DEF a, b, c, d, e, f, q, r
<1>23. Rec(a, q, [i \in a .. q - 1 |-> c[i]], r, q, r) \in Abstract!AfterCrash(view)
  BY ZenonT(40), <1>5, <1>19, <1>21, <1>22, RecCrash
<1>24. Abstract!Crash
  BY Zenon, <1>1, <1>18, <1>20, <1>23 DEF Abstract!Crash
<1> QED BY Zenon, <1>1, <1>3, <1>24 DEF DataInv, Mapped, Abstract!Next

\* Opening gives the table that the files held.
LEMMA SeesNewTable ==
    ASSUME Sees, newTable
    PROVE  DataInv' /\ Mapped
<1> DEFINE I == RepairedIndex(idx, dat)
           e == LastEntry(I)
           f == e.filenum
           bs == SubSeq(File(dat, f), 1, e.offset)
           E == WithFile(dat, f, bs)
           o == I[1].offset
           n == I[1].offset + Len(I) - 1
           t == RepairedTail(I, meta)
<1>1. /\ mode = "down" /\ pc' = pc
      /\ idx' = I /\ idxSync' = Len(I) /\ dat' = E /\ datSync' = Len(bs) /\ meta' = t /\ metaOld' = {}
      /\ mem' = [items |-> n, itemOffset |-> o, itemHidden |-> t, headId |-> f, tailId |-> I[1].filenum, headBytes |-> e.offset]
      /\ mode' = IF t > o /\ t > n THEN "failed" ELSE "open"
  BY Zenon DEF newTable
<1>2. IInv /\ IInv' /\ DataInv /\ view' = View(idx', dat', meta', metaOld', idxSync', mode' = "open")
  BY Zenon DEF Sees, Seeing
<1>3. mode /= "open"
  BY <1>1
<1>4. metaOld = {} /\ pc = "idle" /\ view = ShutTable(I, dat, meta, {})
  <2>1. metaOld = {} /\ view = ShutTable(I, dat, meta, metaOld)
    BY Zenon, <1>1 DEF Sees, Seeing, DataInv
  <2>2. pc = "idle"
    BY Zenon, <1>2, <1>3 DEF IInv, Types
  <2> QED BY Zenon, <2>1, <2>2
<1>5. /\ GoodIndex(I) /\ Backed(I, E, f) /\ DataFiles(E) /\ Len(bs) = e.offset
  BY Zenon, <1>1, <1>2, FoundIndex
<1>6. Agrees(I, dat, E)
  BY ZenonT(40), <1>1, <1>2, FoundAgrees
<1>7. mem'.headId = f /\ mem'.headBytes = e.offset
  BY <1>1
<1> HIDE DEF E, bs
<1>8. E[f] = bs
  BY Zenon DEF E, WithFile
<1>9. meta \in Nat
  <2>1. meta \in 0 .. MaxItems
    BY Zenon, <1>2 DEF IInv, Types
  <2> QED BY <2>1
<1> HIDE DEF I, f, e
<1>10. o \in Nat /\ Len(I) \in Nat /\ n \in Nat /\ o <= n /\ HeadOf(I) = n
  BY Zenon, <1>5, Positions
<1>11. t \in Nat /\ o <= t
  <2>1. {} \in SUBSET Nat
    OBVIOUS
  <2> QED BY ZenonT(40), <1>5, <1>9, <2>1, TailFacts
<1>12. RepairedTail(I, t) = t
  <2>1. {} \in SUBSET Nat
    OBVIOUS
  <2>2. RepairedTail(I, t) = (IF t >= o THEN t ELSE o)
    BY ZenonT(40), <1>5, <1>11, <2>1, TailFacts
  <2>3. t >= o
    BY Zenon, <1>11 DEF >=
  <2> QED BY Zenon, <2>2, <2>3
<1>13. ItemsOf(I, E, HeadOf(I)) = ItemsOf(I, dat, HeadOf(I))
  BY Zenon, <1>5, <1>6, ItemsUnchanged
<1> DEFINE items == ItemsOf(I, dat, HeadOf(I))
<1>14. view = Rec(o, n, items, t, n, t)
  BY ZenonT(40), <1>4, <1>5, <1>9, <1>10, FlushedTable
<1>15. ShutTable(I, E, t, {}) = Rec(o, n, items, t, n, t)
  BY ZenonT(40), <1>5, <1>10, <1>11, <1>12, <1>13, FlushedTable
<1>16. OpenTable(I, E, t, {}, Len(I)) = ShutTable(I, E, t, {})
  BY Zenon, <1>5, <1>11, FlushedTable
<1>17. view' = view
  <2>1. mode' = "open" => view' = OpenTable(I, E, t, {}, Len(I))
    BY Zenon, <1>1, <1>2, NextView
  <2>2. RepairedIndex(I, E) = I
    BY Zenon, <1>5, BackedRepair
  <2>3. mode' /= "open" => view' = ShutTable(I, E, t, {})
    BY Zenon, <1>1, <1>2, <2>2, NextView
  <2> QED BY ZenonT(40), <1>14, <1>15, <1>16, <2>1, <2>3
<1>18. view.hid = t /\ view.head = n
  <2>1. o \in Int /\ n \in Int /\ t \in Int
    BY <1>10, <1>11
  <2> DEFINE V == {items}
  <2>2. items \in V
    BY Zenon
  <2> HIDE DEF V, o, n, t, items
  <2>3. view = Rec(o, n, items, t, n, t)
    BY Zenon, <1>14
  <2> QED BY SMTT(30), Z3T(30), <2>1, <2>2, <2>3, RecFields
<1>19. mode' = IF Abstract!Openable(view) THEN "open" ELSE "failed"
  <2>1. (t > o /\ t > n) <=> ~ (t <= n)
    <3> HIDE DEF o, n, t
    <3> QED BY <1>10, <1>11
  <2> QED BY ZenonT(40), <1>1, <1>18, <2>1 DEF Abstract!Openable
<1>20. Mapped
  BY ZenonT(40), <1>1, <1>17, <1>19 DEF Mapped, Abstract!Next, Abstract!Open
<1>21. mode' /= "down"
  BY <1>1
<1>22. ASSUME mode' = "open"
       PROVE  Buffers' /\ HeadEnd' /\ FlushedData' /\ OldTails'
  <2>1. Buffers'
    <3>1. pc' \notin Writing
      BY <1>1, <1>4 DEF Writing
    <3> QED BY Zenon, <3>1 DEF Buffers
  <2>2. HeadEnd'
    BY Zenon, <1>1, <1>7 DEF HeadEnd, e
  <2>3. datSync' = Len(dat'[mem'.headId])
    BY ZenonT(40), <1>1, <1>7, <1>8
  <2>4. FlushedData'
    BY ZenonT(40), <1>2, <1>22, <2>3, FlushedNow
  <2>5. OldTails'
    BY Zenon, <1>1 DEF OldTails
  <2> QED BY ZenonT(40), <2>1, <2>2, <2>4, <2>5
<1> QED BY ZenonT(40), <1>20, <1>21, <1>22 DEF DataInv

----
(***************************************************************************)
(* The refinement.                                                         *)
(***************************************************************************)
LEMMA InitSeeing == ViewInit => Seeing /\ Abstract!Init
<1> SUFFICES ASSUME ViewInit PROVE Seeing /\ Abstract!Init
  OBVIOUS
<1>1. Init /\ view = View(idx, dat, meta, metaOld, idxSync, TRUE)
  BY Zenon DEF ViewInit
<1>2. /\ idx = <<ZeroEntry>> /\ idxSync = 1 /\ dat = [f \in {0} |-> <<>>] /\ datSync = 0 /\ meta = 0 /\ metaOld = {}
      /\ mem = NoFields /\ pc = "idle" /\ mode = "open"
  BY Zenon, <1>1 DEF Init
<1>3. IInv
  BY Zenon, <1>1, InitInv
<1>4. view = OpenTable(idx, dat, 0, {}, 1)
  BY Zenon, <1>1, <1>2, <1>3, ViewOpen
<1>5. Len(idx) = 1 /\ idx[1].offset = 0 /\ LastEntry(idx).offset = 0 /\ dat[0] = <<>>
  <2>1. Len(idx) = 1 /\ idx[1] = ZeroEntry /\ ZeroEntry.offset = 0
    BY <1>2 DEF ZeroEntry, Entry
  <2>2. idx \in Seq(Entries) /\ Len(idx) >= 1
    <3>1. idx \in Seq(Entries)
      BY Zenon, <1>3 DEF IInv, Types
    <3> QED BY <2>1, <3>1
  <2>3. LastEntry(idx).offset = 0
    BY ZenonT(40), <2>1, <2>2, LastFacts
  <2>4. dat[0] = <<>>
    BY <1>2
  <2> QED BY ZenonT(40), <2>1, <2>3, <2>4
<1>6. mem.headId = 0 /\ mem.headBytes = 0
  BY <1>2 DEF NoFields
<1>7. DataInv
  <2>1. Buffers
    BY <1>2 DEF Buffers, Writing
  <2>2. HeadEnd
    BY Zenon, <1>5, <1>6 DEF HeadEnd
  <2>3. FlushedData
    <3>1. datSync <= Len(dat[mem.headId])
      BY <1>2, <1>5, <1>6
    <3>2. 2 .. Len(idx) = {}
      BY <1>5
    <3> QED BY Zenon, <3>1, <3>2 DEF FlushedData
  <2>4. OldTails
    BY Zenon, <1>2 DEF OldTails
  <2>5. mode /= "down"
    BY <1>2
  <2> QED BY ZenonT(40), <2>1, <2>2, <2>3, <2>4, <2>5 DEF DataInv
<1>8. Seeing
  <2>1. mode /= "down"
    BY <1>2
  <2> QED BY ZenonT(40), <1>2, <1>3, <1>4, <1>7, <2>1 DEF Seeing
<1>9. GoodIndex(idx)
  BY Zenon, <1>2, <1>3 DEF IInv, OpenInv
<1>10. HeadOf(idx) = 0
  BY <1>5 DEF HeadOf
<1>11. RepairedTail(idx, 0) = 0
  <2>1. {} \in SUBSET Nat /\ 0 \in Nat /\ 0 >= 0
    OBVIOUS
  <2>2. RepairedTail(idx, 0) = (IF 0 >= idx[1].offset THEN 0 ELSE idx[1].offset)
    BY Zenon, <1>9, <2>1, TailFacts
  <2> QED BY Zenon, <1>5, <2>2
<1>12. ItemsOf(idx, dat, HeadOf(idx)) = <<>>
  <2> DEFINE items == ItemsOf(idx, dat, HeadOf(idx))
             none == 0 .. 0 - 1
  <2>1. items = [i \in none |-> Decode(ReadItem(idx, dat, i - idx[1].offset + 1))]
    BY Zenon, <1>5, <1>10 DEF ItemsOf
  <2>2. none = {}
    OBVIOUS
  <2>3. DOMAIN items = {}
    BY Zenon, <2>1, <2>2
  <2>4. items \in [{} -> {}]
    BY Zenon, <2>1, <2>2
  <2> HIDE DEF items, none
  <2>5. items = <<>>
    BY <2>4
  <2> QED BY Zenon, <2>5 DEF items
<1>13. view = Rec(0, 0, <<>>, 0, 0, 0)
  <2>1. 0 \in Nat /\ Len(idx) = 1
    BY Zenon, <1>5
  <2>2. OpenTable(idx, dat, 0, {}, Len(idx))
          = Rec(idx[1].offset, HeadOf(idx), ItemsOf(idx, dat, HeadOf(idx)), RepairedTail(idx, 0), HeadOf(idx), RepairedTail(idx, 0))
    BY Zenon, <1>9, <2>1, FlushedTable
  <2> QED BY ZenonT(40), <1>4, <1>5, <1>10, <1>11, <1>12, <2>2
<1>14. Abstract!Init
  BY Zenon, <1>2, <1>13 DEF Abstract!Init, Abstract!EmptyTable, Rec
<1> QED BY Zenon, <1>8, <1>14

LEMMA NextSeeing == Seeing /\ [ViewNext]_<<vars, view>> => Seeing' /\ Mapped
<1> SUFFICES ASSUME Seeing, [ViewNext]_<<vars, view>> PROVE Seeing' /\ Mapped
  OBVIOUS
<1>1. CASE UNCHANGED <<vars, view>>
  <2>1. /\ idx' = idx /\ idxSync' = idxSync /\ dat' = dat /\ datSync' = datSync /\ meta' = meta /\ metaOld' = metaOld
        /\ mem' = mem /\ batch' = batch /\ pc' = pc /\ mode' = mode /\ view' = view
    BY Zenon, <1>1 DEF vars
  <2>2. IInv'
    <3>1. IInv /\ UNCHANGED vars
      BY Zenon, <1>1 DEF Seeing
    <3> QED BY Zenon, <3>1, NextInv
  <2>3. DataInv'
    <3>1. DataInv
      BY Zenon DEF Seeing
    <3> QED BY Zenon, <2>1, <3>1 DEF DataInv, Buffers, HeadEnd, FlushedData, OldTails, HeadFile
  <2>4. /\ mode' = "open" => view' = OpenTable(idx', dat', meta', metaOld', idxSync')
        /\ mode' = "down" => view' = ShutTable(RepairedIndex(idx', dat'), dat', meta', metaOld')
    BY Zenon, <2>1 DEF Seeing
  <2> QED BY ZenonT(40), <2>1, <2>2, <2>3, <2>4 DEF Seeing, Mapped
<1>2. CASE ViewNext
  <2>1. Next /\ view' = View(idx', dat', meta', metaOld', idxSync', mode' = "open")
    BY Zenon, <1>2 DEF ViewNext
  <2>2. IInv'
    BY Zenon, <2>1, NextInv DEF Seeing
  <2>3. Sees
    BY Zenon, <2>1, <2>2 DEF Sees
  <2>4. DataInv' /\ Mapped
    <3>1. CASE reset \/ commitWrite \/ commitIndex \/ advanceHead \/ rollback
      BY ZenonT(40), <2>3, <3>1, SeesReset, SeesCommitWrite, SeesCommitIndex, SeesAdvanceHead, SeesRollback
    <3>2. CASE \E v \in Values : appendItem(v)
      BY Zenon, <2>3, <3>2, SeesAppendItem
    <3>3. CASE \E n \in 0 .. MaxItems : truncateHead(n) \/ truncateTail(n)
      BY ZenonT(40), <2>3, <3>3, SeesTruncateHead, SeesTruncateTail
    <3>4. CASE truncateHeadFiles \/ truncateHeadData \/ truncateTailIndex \/ truncateTailFiles
      BY ZenonT(40), <2>3, <3>4, SeesTruncateHeadFiles, SeesTruncateHeadData, SeesTruncateTailIndex, SeesTruncateTailFiles
    <3>5. CASE Sync \/ Close \/ Crash \/ newTable
      BY ZenonT(40), <2>3, <3>5, SeesSync, SeesClose, SeesCrash, SeesNewTable
    <3> QED BY ZenonT(40), <2>1, <3>1, <3>2, <3>3, <3>4, <3>5 DEF Next
  <2>5. mode' = "down" => mode' /= "open"
    OBVIOUS
  <2>6. /\ mode' = "open" => view' = OpenTable(idx', dat', meta', metaOld', idxSync')
        /\ mode' = "down" => view' = ShutTable(RepairedIndex(idx', dat'), dat', meta', metaOld')
    BY ZenonT(40), <2>1, <2>2, <2>5, NextView
  <2> QED BY ZenonT(40), <2>2, <2>4, <2>6 DEF Seeing
<1> QED BY Zenon, <1>1, <1>2

\* The files of a table implement AncientTable's Spec, for every set of contents
\* and sizes, file size, buffer limit and number of crashes: writing through the
\* buffers, advancing to a new data file, truncating either end in several steps
\* of which a power failure may interrupt each, and repairing what the failure
\* left, give the items that were appended, in order and undamaged, and lose at
\* most a suffix that no fsync has covered.
THEOREM TableRefinement == ViewSpec => ImplementsTable
<1>1. ViewInit => Seeing /\ Abstract!Init
  BY InitSeeing
<1>2. Seeing /\ [ViewNext]_<<vars, view>> => Seeing' /\ [Abstract!Next]_<<view, mode>>
  BY NextSeeing DEF Mapped
<1> QED BY <1>1, <1>2, PTL DEF ViewSpec, ImplementsTable, Abstract!Spec

=============================================================================
