---- MODULE FreezerTableProofs ----
(***************************************************************************)
(* What a table believes of its files is true of them (FilesSound), for    *)
(* every set of contents and sizes, file size, buffer limit and number of  *)
(* crashes.                                                                *)
(*                                                                         *)
(* The inductive invariant says what the files must satisfy at every step  *)
(* of every operation, so that a power failure at that step leaves files   *)
(* the repair can use: the index is in order and no entry of it is zero    *)
(* (GoodIndex), the data files it names are there and only the head file   *)
(* may end before the entries that point into it (Backed, Held); and what  *)
(* the running operation still has to do (PcInv).                          *)
(***************************************************************************)
EXTENDS FreezerTable, WellFoundedInduction, TLAPS

\* What SMT leaves open is tried with Zenon, and once more with Z3.
USE SMT, Zenon, Z3T(30)

----
(***************************************************************************)
(* The inductive invariant.                                                *)
(***************************************************************************)
Entries == [filenum : Nat, offset : Nat]
Byte == (Values \X Nat) \cup {ZeroByte}
Fields == [items : Nat, itemOffset : Nat, itemHidden : Nat, headId : Nat, tailId : Nat, headBytes : Nat]
Batches == [data : Seq(Byte), index : Seq(Entries), cur : Nat, prevItem : Nat]

Writing == {"batch", "full", "flush", "fullIndex", "flushIndex", "doneIndex", "advance"}
Indexing == {"fullIndex", "flushIndex", "doneIndex"}
CuttingHead == {"headFiles", "headData"}
CuttingTail == {"tailIndex", "tailFiles"}

\* An index in order, in which no item ends at offset zero: nothing in it can
\* be taken for space that was never written.
GoodIndex(I) ==
    /\ I \in Seq(Entries) /\ Len(I) >= 1
    /\ \A k \in 2 .. Len(I) : IndexItemOK(I, k) /\ I[k].offset > 0
    /\ I[1].filenum = 0 => I[1].offset = 0

\* The files from the first one of the index to h are there, the index names no
\* later one, and the items in files before h are complete.
Held(I, D, h) ==
    /\ h \in Nat /\ LastEntry(I).filenum <= h
    /\ \A f \in I[1].filenum .. h : f \in DOMAIN D
    /\ \A k \in 2 .. Len(I) : I[k].filenum /= h => I[k].offset <= Len(D[I[k].filenum])

\* The items in file h are complete, too.
Backed(I, D, h) == Held(I, D, h) /\ \A k \in 2 .. Len(I) : I[k].filenum = h => I[k].offset <= Len(D[h])

\* The data files: sequences of bytes, none too long.
DataFiles(D) == \A f \in DOMAIN D : f \in Nat /\ D[f] \in Seq(Byte) /\ Len(D[f]) <= MaxFileSize

Types ==
    /\ idx \in Seq(Entries) /\ idxSync \in 1 .. Len(idx)
    /\ DataFiles(dat)
    /\ datSync \in Nat
    /\ meta \in 0 .. MaxItems /\ metaOld \subseteq 0 .. MaxItems
    /\ idx[1].offset <= MaxItems
    /\ mem \in Fields /\ batch \in Batches
    /\ mode \in {"open", "down", "failed"} /\ crashes \in 0 .. MaxCrashes
    /\ pc \in {"idle"} \cup Writing \cup CuttingHead \cup CuttingTail
    /\ mode /= "open" => pc = "idle"

\* The buffers: the entries continue the head file from its end to the end of
\* the buffered data.
BatchInv ==
    LET b == batch IN
    /\ b.cur = mem.items + Len(b.index) /\ b.cur <= MaxItems
    /\ mem.itemHidden <= b.prevItem /\ b.prevItem <= mem.items
    /\ mem.headBytes + Len(b.data) <= MaxFileSize
    /\ b.data /= <<>> => b.index /= <<>>
    /\ \A k \in 1 .. Len(b.index) : /\ b.index[k].filenum = mem.headId
                                    /\ mem.headBytes < b.index[k].offset
                                    /\ b.index[k].offset <= mem.headBytes + Len(b.data)
    /\ \A k \in 2 .. Len(b.index) : b.index[k - 1].offset <= b.index[k].offset
    /\ pc \in {"full", "fullIndex", "advance"} => arg \in Values /\ b.cur < MaxItems
    /\ pc \in {"full", "fullIndex"} => mem.headBytes + Len(b.data) > 0
    /\ pc = "advance" => b.data = <<>> /\ b.index = <<>> /\ mem.headId = LastEntry(idx).filenum

\* The fields in memory and the files, at every step of an operation.
PcInv ==
    /\ mem.itemHidden = meta /\ idx[1].offset <= mem.itemHidden /\ mem.items <= MaxItems
    /\ mem.tailId <= idx[1].filenum
    /\ pc /= "tailFiles" => mem.itemOffset = idx[1].offset /\ mem.tailId = idx[1].filenum
    /\ pc \notin CuttingHead =>
           /\ mem.items = idx[1].offset + Len(idx) - 1 /\ mem.itemHidden <= mem.items
           /\ mem.headId \in {LastEntry(idx).filenum, LastEntry(idx).filenum + 1}
           /\ mem.headId = LastEntry(idx).filenum \/ mem.headBytes = 0
           /\ mem.headId = LastEntry(idx).filenum => LastEntry(idx).offset <= mem.headBytes
           /\ Len(dat[mem.headId]) = mem.headBytes + (IF pc \in Indexing THEN Len(batch.data) ELSE 0)
    /\ pc \in CuttingHead => arg = idx[1].offset + Len(idx) - 1 /\ mem.itemHidden <= arg /\ arg <= mem.items
    /\ pc = "headData" => mem.headId = LastEntry(idx).filenum
    /\ pc = "tailIndex" => arg = mem.itemHidden /\ mem.itemOffset < arg /\ mem.tailId /= NewTailId(arg)
    /\ pc \in Writing => BatchInv

OpenInv == mode = "open" => GoodIndex(idx) /\ Backed(idx, dat, mem.headId) /\ PcInv
DownInv == mode = "down" =>
    /\ GoodIndex(repairIndex(idx)) /\ idx[1].offset + Len(repairIndex(idx)) - 1 <= MaxItems
    /\ \E h \in DOMAIN dat : Held(repairIndex(idx), dat, h)
IInv == Types /\ OpenInv /\ DownInv

----
(***************************************************************************)
(* Numbers, sequences and indices.                                         *)
(***************************************************************************)
\* Every nonempty set of numbers has a least element.
LEMMA LeastNat ==
    ASSUME NEW S \in SUBSET Nat, S # {}
    PROVE  \E x \in S : \A y \in S : x <= y
<1>1. PICK x \in S : \A y \in S : ~ (<<y, x>> \in OpToRel(<, Nat))
  BY Zenon, NatLessThanWellFounded, WFMin
<1>2. \A y \in S : ~ (y < x)
  BY Zenon, <1>1 DEF OpToRel
<1> QED BY <1>2

\* Min and Max of sets of numbers.
LEMMA MinFacts ==
    ASSUME NEW S \in SUBSET Nat, S # {}
    PROVE  Min(S) \in S /\ \A y \in S : Min(S) <= y
BY Zenon, LeastNat DEF Min

LEMMA MaxFacts ==
    ASSUME NEW N \in Nat, NEW S \in SUBSET (0 .. N), S # {}
    PROVE  Max(S) \in S /\ \A y \in S : y <= Max(S)
<1> DEFINE T == {N - x : x \in S}
<1>0. \A x \in S : x \in Nat /\ x <= N /\ N - x \in Nat
  <2>1. \A x \in S : x \in 0 .. N
    BY Zenon
  <2> QED BY <2>1
<1>1. T \in SUBSET Nat /\ T # {}
  BY Zenon, <1>0
<1>2. PICK t \in T : \A u \in T : t <= u
  BY Zenon, <1>1, LeastNat
<1>3. PICK x \in S : t = N - x
  BY <1>2
<1>4. \A y \in S : N - y \in T
  BY Zenon
<1> HIDE DEF T
<1>5. ASSUME NEW y \in S PROVE x >= y
  <2>1. N - x <= N - y
    BY <1>2, <1>3, <1>4
  <2>2. x \in Nat /\ y \in Nat
    BY <1>0
  <2> QED BY <2>1, <2>2
<1>6. Max(S) \in S /\ \A y \in S : Max(S) >= y
  BY Zenon, <1>5 DEF Max
<1> QED BY <1>6

LEMMA MaxTwo ==
    ASSUME NEW a \in Int, NEW b \in Int
    PROVE  Max({a, b}) = IF a >= b THEN a ELSE b
BY DEF Max

\* A nonempty prefix of a sequence.
LEMMA PrefixFacts ==
    ASSUME NEW S, NEW s \in Seq(S), NEW n \in 1 .. Len(s)
    PROVE  /\ SubSeq(s, 1, n) \in Seq(S) /\ Len(SubSeq(s, 1, n)) = n
           /\ \A k \in 1 .. n : SubSeq(s, 1, n)[k] = s[k]
           /\ n = Len(s) => SubSeq(s, 1, n) = s
<1>1. SubSeq(s, 1, n) \in Seq(S) /\ Len(SubSeq(s, 1, n)) = n /\ \A k \in 1 .. n : SubSeq(s, 1, n)[k] = s[k]
  OBVIOUS
<1>2. ASSUME n = Len(s) PROVE SubSeq(s, 1, n) = s
  BY <1>2
<1> QED BY <1>1, <1>2

\* The last entry is in the file of the last position of the index.
LEMMA LastFacts ==
    ASSUME NEW I \in Seq(Entries), Len(I) >= 1
    PROVE  /\ LastEntry(I) \in Entries /\ LastEntry(I).filenum = I[Len(I)].filenum
           /\ LastEntry(I).filenum \in Nat /\ LastEntry(I).offset \in Nat
           /\ Len(I) = 1 => LastEntry(I).offset = 0
           /\ Len(I) >= 2 => LastEntry(I) = I[Len(I)]
<1>0. \A e \in Entries : e.filenum \in Nat /\ e.offset \in Nat
  BY DEF Entries
<1>1. Len(I) \in Nat /\ Len(I) \in 1 .. Len(I) /\ 1 \in 1 .. Len(I)
  OBVIOUS
<1>2. I[Len(I)] \in Entries /\ I[1] \in Entries
  BY <1>1
<1>3. CASE Len(I) = 1
  BY <1>2, <1>3 DEF LastEntry, Entry, Entries
<1>4. CASE Len(I) >= 2
  BY <1>0, <1>1, <1>2, <1>4 DEF LastEntry
<1>5. Len(I) = 1 \/ Len(I) >= 2
  <2>1. \A n \in Nat : n >= 1 => n = 1 \/ n >= 2
    OBVIOUS
  <2> QED BY Zenon, <1>1, <2>1
<1> QED BY Zenon, <1>3, <1>4, <1>5

\* Positions of an index hold numbers.
LEMMA EntryTypes ==
    ASSUME NEW I \in Seq(Entries), NEW k \in 1 .. Len(I)
    PROVE  I[k] \in Entries /\ I[k].filenum \in Nat /\ I[k].offset \in Nat
<1>1. \A e \in Entries : e.filenum \in Nat /\ e.offset \in Nat
  BY DEF Entries
<1>2. I[k] \in Entries
  OBVIOUS
<1> QED BY <1>1, <1>2

\* In an index in order the files never go back, and offsets grow in a file.
LEMMA IndexOrder ==
    ASSUME NEW I, GoodIndex(I), NEW i \in 1 .. Len(I), NEW j \in 1 .. Len(I), i <= j
    PROVE  /\ I[i].filenum <= I[j].filenum
           /\ i >= 2 /\ I[i].filenum = I[j].filenum => I[i].offset <= I[j].offset
<1> DEFINE After(k) == /\ I[i].filenum <= I[k].filenum
                       /\ i >= 2 /\ I[i].filenum = I[k].filenum => I[i].offset <= I[k].offset
           Bad == {k \in i .. Len(I) : ~After(k)}
<1>0. I \in Seq(Entries) /\ Len(I) \in Nat
  BY DEF GoodIndex
<1>1. \A k \in 1 .. Len(I) : I[k].filenum \in Nat /\ I[k].offset \in Nat
  BY <1>0, EntryTypes
<1>2. ASSUME Bad # {} PROVE FALSE
  <2>1. Bad \in SUBSET Nat
    OBVIOUS
  <2>2. PICK k \in Bad : \A l \in Bad : k <= l
    BY Zenon, <1>2, <2>1, LeastNat
  <2>3. k \in i .. Len(I) /\ ~After(k)
    OBVIOUS
  <2>4. k # i
    <3>1. After(i)
      BY <1>1
    <3> QED BY <2>3, <3>1
  <2>5. k \in Nat /\ k - 1 \in i .. Len(I) /\ k \in 2 .. Len(I) /\ k - 1 \in 1 .. Len(I) /\ k \in 1 .. Len(I)
    BY <1>0, <2>3, <2>4
  <2>6. k - 1 \notin Bad
    BY <2>2, <2>5
  <2>7. After(k - 1)
    BY Zenon, <2>5, <2>6
  <2>8. IndexItemOK(I, k)
    BY Zenon, <2>5 DEF GoodIndex
  <2>9. /\ I[k].filenum \in {I[k - 1].filenum, I[k - 1].filenum + 1}
        /\ k >= 3 /\ I[k].filenum = I[k - 1].filenum => I[k].offset >= I[k - 1].offset
    BY <2>5, <2>8 DEF IndexItemOK, checkIndexItems
  <2>10. i >= 2 => k >= 3
    BY <2>4, <2>5
  <2> DEFINE a == I[i].filenum
             b == I[k - 1].filenum
             c == I[k].filenum
             x == I[i].offset
             y == I[k - 1].offset
             z == I[k].offset
  <2>11. a \in Nat /\ b \in Nat /\ c \in Nat /\ x \in Nat /\ y \in Nat /\ z \in Nat
    BY <1>1, <2>5
  <2>12. a <= b /\ (i >= 2 /\ a = b => x <= y)
    BY Zenon, <2>7
  <2>13. c \in {b, b + 1} /\ (k >= 3 /\ c = b => z >= y)
    BY Zenon, <2>9
  <2> HIDE DEF a, b, c, x, y, z
  <2>14. a <= c /\ (i >= 2 /\ a = c => x <= z)
    BY <2>10, <2>11, <2>12, <2>13
  <2>15. After(k)
    BY Zenon, <2>14 DEF a, c, x, z
  <2> QED BY Zenon, <2>3, <2>15
<1>3. j \in i .. Len(I)
  BY <1>0
<1> QED BY Zenon, <1>2, <1>3

\* A nonempty prefix of an index in order is in order.
LEMMA PrefixGood ==
    ASSUME NEW I, GoodIndex(I), NEW n \in 1 .. Len(I)
    PROVE  GoodIndex(SubSeq(I, 1, n))
<1> DEFINE J == SubSeq(I, 1, n)
<1>0. I \in Seq(Entries) /\ Len(I) \in Nat /\ n \in Nat /\ n >= 1
  BY DEF GoodIndex
<1>1. J \in Seq(Entries) /\ Len(J) = n /\ \A k \in 1 .. n : J[k] = I[k]
  BY <1>0, PrefixFacts
<1> HIDE DEF J
<1>2. ASSUME NEW k \in 2 .. n
      PROVE  IndexItemOK(J, k) /\ J[k].offset > 0
  <2>1. k \in 2 .. Len(I) /\ k \in 1 .. n /\ k - 1 \in 1 .. n /\ 1 \in 1 .. n /\ k \in Nat
    BY <1>0
  <2>2. IndexItemOK(I, k) /\ I[k].offset > 0
    BY Zenon, <2>1 DEF GoodIndex
  <2>3. J[k] = I[k] /\ J[k - 1] = I[k - 1] /\ J[1] = I[1]
    BY Zenon, <1>1, <2>1
  <2> QED BY <2>2, <2>3 DEF IndexItemOK
<1>3. J[1].filenum = 0 => J[1].offset = 0
  <2>1. J[1] = I[1]
    BY <1>0, <1>1
  <2> QED BY Zenon, <2>1 DEF GoodIndex
<1>4. Len(J) >= 1
  BY <1>0, <1>1
<1>5. GoodIndex(J)
  BY Zenon, <1>1, <1>2, <1>3, <1>4 DEF GoodIndex
<1> QED BY <1>5 DEF J

----
(***************************************************************************)
(* The repair.                                                             *)
(***************************************************************************)
\* repairIndex keeps the entries before the first one that is out of order.
LEMMA RepairIndexCut ==
    ASSUME NEW I \in Seq(Entries), Len(I) >= 1
    PROVE  \E m \in 1 .. Len(I) : /\ repairIndex(I) = SubSeq(I, 1, m)
                                  /\ \A k \in 2 .. m : IndexItemOK(I, k)
                                  /\ m < Len(I) => ~IndexItemOK(I, m + 1)
<1> DEFINE S == {n \in 1 .. Len(I) : \A k \in 2 .. n : IndexItemOK(I, k)}
           m == Max(S)
<1>0. Len(I) \in Nat
  OBVIOUS
<1>1. S \in SUBSET (0 .. Len(I))
  BY <1>0
<1>2. 1 \in S
  BY <1>0
<1>3. m \in S /\ \A y \in S : y <= m
  BY Zenon, <1>0, <1>1, <1>2, MaxFacts
<1>4. m \in 1 .. Len(I) /\ \A k \in 2 .. m : IndexItemOK(I, k)
  BY Zenon, <1>3
<1>5. repairIndex(I) = SubSeq(I, 1, m)
  BY Zenon DEF repairIndex
<1> HIDE DEF m
<1>6. ASSUME m < Len(I), IndexItemOK(I, m + 1) PROVE FALSE
  <2>1. \A k \in 2 .. m + 1 : k \in 2 .. m \/ k = m + 1
    BY <1>0, <1>4
  <2>2. m + 1 \in 1 .. Len(I) /\ ~(m + 1 <= m)
    BY <1>0, <1>4, <1>6
  <2>3. m + 1 \in S
    BY Zenon, <1>4, <1>6, <2>1, <2>2
  <2> QED BY Zenon, <1>3, <2>2, <2>3
<1> QED BY Zenon, <1>4, <1>5, <1>6

\* An index in order is left alone.
LEMMA RepairIndexKeeps ==
    ASSUME NEW I, GoodIndex(I)
    PROVE  repairIndex(I) = I
<1>1. I \in Seq(Entries) /\ Len(I) >= 1 /\ Len(I) \in Nat
  BY DEF GoodIndex
<1>2. PICK m \in 1 .. Len(I) : repairIndex(I) = SubSeq(I, 1, m) /\ (m < Len(I) => ~IndexItemOK(I, m + 1))
  BY Zenon, <1>1, RepairIndexCut
<1>3. m < Len(I) => m + 1 \in 2 .. Len(I)
  BY <1>1
<1>4. ~(m < Len(I))
  BY Zenon, <1>2, <1>3 DEF GoodIndex
<1>5. m = Len(I)
  BY <1>1, <1>4
<1> QED BY Zenon, <1>1, <1>2, <1>5, PrefixFacts

\* A file that is read exists or is empty.
LEMMA FileFacts ==
    ASSUME NEW D, DataFiles(D), NEW f
    PROVE  File(D, f) \in Seq(Byte) /\ Len(File(D, f)) \in Nat /\ Len(File(D, f)) <= MaxFileSize
<1>1. CASE f \in DOMAIN D
  BY <1>1 DEF DataFiles, File
<1>2. CASE f \notin DOMAIN D
  <2>1. File(D, f) = <<>>
    BY Zenon, <1>2 DEF File
  <2> QED BY <2>1, SizeAssumption
<1> QED BY <1>1, <1>2

\* The entry at position n ends within its data file.
Fits(I, D, n) == IF n = 1 THEN TRUE ELSE I[n].offset <= Len(File(D, I[n].filenum))

\* repairLoop drops entries until the last one ends within its data file.
LEMMA RepairLoopCut ==
    ASSUME NEW I \in Seq(Entries), Len(I) >= 1, NEW D, DataFiles(D)
    PROVE  \E n \in 1 .. Len(I) : /\ repairLoop(I, D) = SubSeq(I, 1, n)
                                  /\ Fits(I, D, n)
                                  /\ Fits(I, D, Len(I)) => n = Len(I)
<1> DEFINE fits(n) == LET e == LastEntry(SubSeq(I, 1, n)) IN e.offset <= Len(File(D, e.filenum))
           S == {n \in 1 .. Len(I) : fits(n)}
           m == Max(S)
<1>0. Len(I) \in Nat /\ 1 \in 1 .. Len(I) /\ Len(I) \in 1 .. Len(I)
  OBVIOUS
<1>1. ASSUME NEW n \in 1 .. Len(I) PROVE fits(n) <=> Fits(I, D, n)
  <2> DEFINE J == SubSeq(I, 1, n)
  <2>1. J \in Seq(Entries) /\ Len(J) = n /\ \A k \in 1 .. n : J[k] = I[k]
    BY PrefixFacts
  <2>2. n \in Nat /\ n >= 1 /\ n \in 1 .. n /\ (n /= 1 => n >= 2)
    OBVIOUS
  <2> HIDE DEF J
  <2>3. CASE n = 1
    <3>1. LastEntry(J).offset = 0
      BY Zenon, <2>1, <2>2, <2>3, LastFacts
    <3>2. Len(File(D, LastEntry(J).filenum)) \in Nat
      BY Zenon, FileFacts
    <3>3. LastEntry(J).offset <= Len(File(D, LastEntry(J).filenum))
      BY <3>1, <3>2
    <3> QED BY Zenon, <2>3, <3>3 DEF J, Fits
  <2>4. CASE n /= 1
    <3>1. LastEntry(J) = I[n]
      BY Zenon, <2>1, <2>2, <2>4, LastFacts
    <3> QED BY Zenon, <2>4, <3>1 DEF J, Fits
  <2> QED BY <2>3, <2>4
<1>2. S \in SUBSET (0 .. Len(I))
  BY <1>0
<1>3. 1 \in S
  BY Zenon, <1>0, <1>1 DEF Fits
<1>4. m \in S /\ \A y \in S : y <= m
  BY Zenon, <1>0, <1>2, <1>3, MaxFacts
<1>5. repairLoop(I, D) = SubSeq(I, 1, m)
  BY Zenon DEF repairLoop
<1>6. m \in 1 .. Len(I) /\ Fits(I, D, m)
  BY Zenon, <1>1, <1>4
<1>7. Fits(I, D, Len(I)) => Len(I) <= m
  BY Zenon, <1>0, <1>1, <1>4
<1> HIDE DEF m
<1>8. Fits(I, D, Len(I)) => m = Len(I)
  BY <1>0, <1>6, <1>7
<1> QED BY Zenon, <1>5, <1>6, <1>8

\* A prefix of any length.
LEMMA CutFacts ==
    ASSUME NEW S, NEW s \in Seq(S), NEW n \in 0 .. Len(s)
    PROVE  SubSeq(s, 1, n) \in Seq(S) /\ Len(SubSeq(s, 1, n)) = n
OBVIOUS

\* The entries an index has lost its space for are found by the repair: what it
\* keeps of the index after a power failure is a prefix of the index before,
\* no shorter than what was flushed.
LEMMA TornIndex ==
    ASSUME NEW I, GoodIndex(I), NEW s \in 1 .. Len(I), NEW T \in Torn(I, s, ZeroEntry), ~Undetectable(T)
    PROVE  /\ T \in Seq(Entries) /\ Len(T) >= 1 /\ T[1] = I[1]
           /\ \E m \in s .. Len(I) : repairIndex(T) = SubSeq(I, 1, m)
<1>0. I \in Seq(Entries) /\ Len(I) \in Nat /\ s \in Nat /\ s >= 1 /\ 1 \in 1 .. Len(I)
  BY DEF GoodIndex
<1>1. PICK m \in s .. Len(I) : T \in {[k \in 1 .. l |-> IF k <= m THEN I[k] ELSE ZeroEntry] : l \in m .. Len(I)}
  BY Zenon DEF Torn
<1>2. PICK l \in m .. Len(I) : T = [k \in 1 .. l |-> IF k <= m THEN I[k] ELSE ZeroEntry]
  BY Zenon, <1>1
<1>3. m \in 1 .. Len(I) /\ m \in Nat /\ l \in Nat /\ m <= l /\ l <= Len(I) /\ 1 <= m
  BY <1>0
<1>4. ZeroEntry \in Entries /\ ZeroEntry.filenum = 0 /\ ZeroEntry.offset = 0
  BY DEF ZeroEntry, Entry, Entries
<1>5. T \in Seq(Entries) /\ Len(T) = l /\ \A k \in 1 .. l : T[k] = IF k <= m THEN I[k] ELSE ZeroEntry
  <2>1. ASSUME NEW k \in 1 .. l PROVE (IF k <= m THEN I[k] ELSE ZeroEntry) \in Entries
    <3>1. k \in 1 .. Len(I)
      BY <1>0, <1>3
    <3> QED BY Zenon, <1>0, <1>4, <3>1, EntryTypes
  <2>2. T \in [1 .. l -> Entries]
    BY Zenon, <1>2, <2>1
  <2>3. T \in Seq(Entries) /\ Len(T) = l
    BY <1>3, <2>2
  <2> QED BY Zenon, <1>2, <2>3
<1>6. \A k \in 1 .. m : k \in 1 .. l /\ T[k] = I[k]
  BY <1>3, <1>5
<1>7. T[1] = I[1]
  BY <1>3, <1>6
<1>8. PICK r \in 1 .. Len(T) : /\ repairIndex(T) = SubSeq(T, 1, r)
                               /\ \A k \in 2 .. r : IndexItemOK(T, k)
                               /\ r < Len(T) => ~IndexItemOK(T, r + 1)
  <2>1. Len(T) >= 1
    BY <1>3, <1>5
  <2> QED BY Zenon, <1>5, <2>1, RepairIndexCut
<1>9. ASSUME m < r PROVE FALSE
  <2>1. m + 1 \in 2 .. r /\ m + 1 \in 1 .. l /\ ~(m + 1 <= m) /\ (m + 1 = 2 <=> m = 1) /\ (m + 1) - 1 = m /\ m \in 1 .. m
    BY <1>3, <1>5, <1>9
  <2>2. IndexItemOK(T, m + 1)
    BY Zenon, <1>8, <2>1
  <2>3. T[m + 1] = ZeroEntry /\ T[m] = I[m]
    BY Zenon, <1>5, <1>6, <2>1
  <2>4. I[m].filenum \in Nat /\ I[m].offset \in Nat
    BY Zenon, <1>0, <1>3, EntryTypes
  <2>5. CASE m = 1
    <3>1. T[2] = ZeroEntry /\ T[1] = I[1] /\ I[1].filenum \in Nat /\ I[1].offset \in Nat
      BY Zenon, <1>7, <2>1, <2>3, <2>4, <2>5
    <3>2. ZeroEntry.filenum \in {I[1].filenum, I[1].filenum + 1}
      BY Zenon, <2>1, <2>2, <2>5, <3>1 DEF IndexItemOK
    <3>3. I[1].filenum = 0
      BY <1>4, <3>1, <3>2
    <3>4. I[1].offset = 0
      BY Zenon, <3>3 DEF GoodIndex
    <3>5. I[1] = [filenum |-> 0, offset |-> 0]
      BY <1>0, <3>3, <3>4, EntryTypes DEF Entries
    <3>6. T[1] = ZeroEntry
      BY Zenon, <3>1, <3>5 DEF ZeroEntry, Entry
    <3>7. Len(T) > 1
      BY <1>3, <1>5, <1>9
    <3> QED BY Zenon, <3>1, <3>6, <3>7 DEF Undetectable
  <2>6. CASE m /= 1
    <3>1. checkIndexItems(I[m], ZeroEntry)
      BY Zenon, <2>1, <2>2, <2>3, <2>6 DEF IndexItemOK
    <3>2. I[m].filenum = 0 /\ I[m].offset = 0
      BY <1>4, <2>4, <3>1 DEF checkIndexItems
    <3>3. m \in 2 .. Len(I)
      BY <1>0, <1>3, <2>6
    <3>4. I[m].offset > 0
      BY Zenon, <3>3 DEF GoodIndex
    <3> QED BY <3>2, <3>4
  <2> QED BY <2>5, <2>6
<1>10. ASSUME r < m PROVE FALSE
  <2>1. /\ r + 1 \in 2 .. Len(I) /\ r + 1 \in 1 .. m /\ r \in 1 .. m /\ (r + 1) - 1 = r /\ r < Len(T)
        /\ 1 \in 1 .. m /\ 2 \in 1 .. m
    BY <1>3, <1>5, <1>10
  <2>2. T[r + 1] = I[r + 1] /\ T[r] = I[r] /\ T[1] = I[1] /\ T[2] = I[2]
    BY Zenon, <1>6, <2>1
  <2>3. IndexItemOK(I, r + 1)
    BY Zenon, <2>1 DEF GoodIndex
  <2>4. IndexItemOK(T, r + 1)
    BY Zenon, <2>1, <2>2, <2>3 DEF IndexItemOK
  <2> QED BY Zenon, <1>8, <2>1, <2>4
<1>11. r = m
  BY <1>3, <1>9, <1>10
<1>12. SubSeq(T, 1, m) = SubSeq(I, 1, m)
  <2>1. SubSeq(T, 1, m) \in Seq(Entries) /\ Len(SubSeq(T, 1, m)) = m /\ \A k \in 1 .. m : SubSeq(T, 1, m)[k] = T[k]
    <3>1. m \in 1 .. Len(T)
      BY <1>3, <1>5
    <3> QED BY Zenon, <1>5, <3>1, PrefixFacts
  <2>2. SubSeq(I, 1, m) \in Seq(Entries) /\ Len(SubSeq(I, 1, m)) = m /\ \A k \in 1 .. m : SubSeq(I, 1, m)[k] = I[k]
    BY Zenon, <1>0, <1>3, PrefixFacts
  <2> DEFINE A == SubSeq(T, 1, m)
             B == SubSeq(I, 1, m)
  <2>3. A \in Seq(Entries) /\ B \in Seq(Entries) /\ Len(A) = Len(B) /\ \A k \in 1 .. Len(A) : A[k] = B[k]
    BY Zenon, <1>6, <2>1, <2>2
  <2> HIDE DEF A, B
  <2>4. A = B
    BY <2>3
  <2> QED BY <2>4 DEF A, B
<1>13. Len(T) >= 1
  BY <1>3, <1>5
<1> QED BY Zenon, <1>3, <1>5, <1>7, <1>8, <1>11, <1>12, <1>13

\* Replacing the contents of one data file.
LEMMA WithFileFacts ==
    ASSUME NEW D, DataFiles(D), NEW f \in Nat, NEW bs \in Seq(Byte), Len(bs) <= MaxFileSize
    PROVE  /\ DataFiles(WithFile(D, f, bs)) /\ DOMAIN WithFile(D, f, bs) = DOMAIN D \cup {f}
           /\ WithFile(D, f, bs)[f] = bs
           /\ \A g \in DOMAIN D : g /= f => WithFile(D, f, bs)[g] = D[g]
<1>1. /\ DOMAIN WithFile(D, f, bs) = DOMAIN D \cup {f}
      /\ \A g \in DOMAIN D \cup {f} : WithFile(D, f, bs)[g] = IF g = f THEN bs ELSE D[g]
  BY Zenon DEF WithFile
<1>2. DataFiles(WithFile(D, f, bs))
  BY Zenon, <1>1 DEF DataFiles
<1> QED BY Zenon, <1>1, <1>2

\* Every file the entries of an index name is among the files that are held.
LEMMA HeldFiles ==
    ASSUME NEW I, GoodIndex(I), NEW D, NEW h, Held(I, D, h), NEW k \in 1 .. Len(I)
    PROVE  /\ I[k].filenum \in Nat /\ I[1].filenum <= I[k].filenum /\ I[k].filenum <= h
           /\ I[k].filenum <= LastEntry(I).filenum
           /\ I[k].filenum \in DOMAIN D /\ h \in DOMAIN D
<1>0. I \in Seq(Entries) /\ Len(I) \in Nat /\ 1 \in 1 .. Len(I) /\ Len(I) \in 1 .. Len(I) /\ Len(I) >= 1 /\ 1 <= k /\ k <= Len(I)
  BY DEF GoodIndex
<1>1. I[k].filenum \in Nat /\ I[1].filenum \in Nat
  BY Zenon, <1>0, EntryTypes
<1>2. I[1].filenum <= I[k].filenum /\ I[k].filenum <= I[Len(I)].filenum
  BY Zenon, <1>0, IndexOrder
<1>3. LastEntry(I).filenum = I[Len(I)].filenum /\ LastEntry(I).filenum \in Nat
  BY Zenon, <1>0, LastFacts
<1>4. h \in Nat /\ LastEntry(I).filenum <= h
  BY Zenon DEF Held
<1> DEFINE a == I[1].filenum
           b == I[k].filenum
           c == LastEntry(I).filenum
<1>5. a \in Nat /\ b \in Nat /\ c \in Nat /\ a <= b /\ b <= c /\ c <= h
  BY Zenon, <1>1, <1>2, <1>3, <1>4
<1> HIDE DEF a, b, c
<1>6. b <= h /\ b \in a .. h /\ h \in a .. h
  BY <1>4, <1>5
<1>7. I[k].filenum \in I[1].filenum .. h /\ h \in I[1].filenum .. h /\ I[k].filenum <= h
  BY Zenon, <1>6 DEF a, b
<1>8. I[k].filenum \in DOMAIN D /\ h \in DOMAIN D
  BY Zenon, <1>7 DEF Held
<1> QED BY Zenon, <1>1, <1>2, <1>3, <1>7, <1>8

\* What the repair makes of files that are held: an index in order, all of its
\* items complete, and a head file that ends with the last item.
LEMMA Repaired ==
    ASSUME NEW J, GoodIndex(J), NEW D, DataFiles(D), NEW h, Held(J, D, h),
           NEW I, I = repairLoop(J, D), NEW bs, bs = SubSeq(File(D, LastEntry(I).filenum), 1, LastEntry(I).offset)
    PROVE  /\ GoodIndex(I) /\ I[1] = J[1]
           /\ Backed(I, WithFile(D, LastEntry(I).filenum, bs), LastEntry(I).filenum)
           /\ DataFiles(WithFile(D, LastEntry(I).filenum, bs)) /\ Len(bs) = LastEntry(I).offset
           /\ \A f \in I[1].filenum .. LastEntry(I).filenum : f \in DOMAIN D
<1> DEFINE e == LastEntry(I)
           E == WithFile(D, e.filenum, bs)
<1>0. J \in Seq(Entries) /\ Len(J) \in Nat /\ Len(J) >= 1
  BY DEF GoodIndex
<1>1. PICK n \in 1 .. Len(J) : I = SubSeq(J, 1, n) /\ Fits(J, D, n)
  BY Zenon, <1>0, RepairLoopCut
<1>2. I \in Seq(Entries) /\ Len(I) = n /\ \A k \in 1 .. n : I[k] = J[k]
  <2>1. /\ SubSeq(J, 1, n) \in Seq(Entries) /\ Len(SubSeq(J, 1, n)) = n
        /\ \A k \in 1 .. n : SubSeq(J, 1, n)[k] = J[k]
    BY Zenon, <1>0, PrefixFacts
  <2> QED BY Zenon, <1>1, <2>1
<1>3. n \in Nat /\ n >= 1 /\ 1 \in 1 .. n /\ n \in 1 .. n /\ (n /= 1 => n >= 2) /\ \A k \in 1 .. n : k \in 1 .. Len(J)
  BY <1>0
<1>4. GoodIndex(I) /\ I[1] = J[1]
  BY Zenon, <1>1, <1>2, <1>3, PrefixGood
<1>5. /\ e \in Entries /\ e.filenum = J[n].filenum /\ e.filenum \in Nat /\ e.offset \in Nat
      /\ n = 1 => e.offset = 0
      /\ n >= 2 => e = J[n]
  BY Zenon, <1>2, <1>3, LastFacts
<1>6. e.offset \in 0 .. Len(File(D, e.filenum))
  <2>1. Len(File(D, e.filenum)) \in Nat
    BY Zenon, FileFacts
  <2>2. CASE n = 1
    BY <1>5, <2>1, <2>2
  <2>3. CASE n /= 1
    <3>1. e.offset <= Len(File(D, e.filenum))
      BY Zenon, <1>1, <1>3, <1>5, <2>3 DEF Fits
    <3> QED BY <1>5, <2>1, <3>1
  <2> QED BY <2>2, <2>3
<1>7. bs \in Seq(Byte) /\ Len(bs) = e.offset /\ Len(bs) <= MaxFileSize
  <2>1. bs \in Seq(Byte) /\ Len(bs) = e.offset
    BY Zenon, <1>6, FileFacts, CutFacts
  <2>2. Len(File(D, e.filenum)) \in Nat /\ Len(File(D, e.filenum)) <= MaxFileSize
    BY Zenon, FileFacts
  <2>3. Len(bs) <= MaxFileSize
    BY <1>6, <2>1, <2>2, SizeAssumption
  <2> QED BY Zenon, <2>1, <2>3
<1>8. /\ DataFiles(E) /\ DOMAIN E = DOMAIN D \cup {e.filenum} /\ E[e.filenum] = bs
      /\ \A g \in DOMAIN D : g /= e.filenum => E[g] = D[g]
  <2> DEFINE f == e.filenum
             b == bs
  <2>1. f \in Nat /\ b \in Seq(Byte) /\ Len(b) <= MaxFileSize
    BY Zenon, <1>5, <1>7
  <2> HIDE DEF f, b
  <2>2. /\ DataFiles(WithFile(D, f, b)) /\ DOMAIN WithFile(D, f, b) = DOMAIN D \cup {f}
        /\ WithFile(D, f, b)[f] = b
        /\ \A g \in DOMAIN D : g /= f => WithFile(D, f, b)[g] = D[g]
    BY Zenon, <2>1, WithFileFacts
  <2> QED BY Zenon, <2>2 DEF f, b
<1>9. \A k \in 1 .. n : /\ J[k].filenum \in Nat /\ J[k].filenum \in DOMAIN D
                        /\ J[k].filenum <= h
  BY Zenon, <1>3, HeldFiles
<1>10. \A f \in I[1].filenum .. e.filenum : f \in DOMAIN D
  <2>1. h \in Nat /\ I[1].filenum \in Nat /\ e.filenum <= h
    BY Zenon, <1>3, <1>4, <1>5, <1>9 DEF Held
  <2>2. \A f \in I[1].filenum .. e.filenum : f \in J[1].filenum .. h
    BY <1>4, <1>5, <2>1
  <2> QED BY Zenon, <2>2 DEF Held
<1>11. ASSUME NEW k \in 2 .. Len(I)
       PROVE  I[k].offset <= Len(E[I[k].filenum])
  <2>1. k \in 1 .. n /\ k \in 1 .. Len(I) /\ n \in 1 .. Len(I) /\ k <= n /\ k >= 2 /\ n >= 2 /\ k \in 2 .. Len(J)
    BY <1>0, <1>2, <1>3
  <2>2. I[k] = J[k] /\ I[n] = J[n]
    BY Zenon, <1>2, <1>3, <2>1
  <2>3. /\ I[k].filenum <= I[n].filenum
        /\ I[k].filenum = I[n].filenum => I[k].offset <= I[n].offset
    BY Zenon, <1>4, <2>1, IndexOrder
  <2>4. CASE I[k].filenum = e.filenum
    BY ZenonT(30), <1>5, <1>7, <1>8, <2>1, <2>2, <2>3, <2>4
  <2>5. CASE I[k].filenum /= e.filenum
    <3>1. E[I[k].filenum] = D[J[k].filenum]
      BY Zenon, <1>8, <1>9, <2>1, <2>2, <2>5
    <3>2. J[k].filenum \in Nat /\ J[n].filenum \in Nat /\ J[n].filenum <= h /\ h \in Nat
      BY Zenon, <1>3, <1>9, <2>1 DEF Held
    <3>3. J[k].filenum /= h
      BY <1>5, <2>2, <2>3, <2>5, <3>2
    <3>4. J[k].offset <= Len(D[J[k].filenum])
      BY Zenon, <2>1, <3>3 DEF Held
    <3> QED BY Zenon, <2>2, <3>1, <3>4
  <2> QED BY <2>4, <2>5
<1>12. e.filenum <= e.filenum
  BY <1>5
<1>13. Backed(I, E, e.filenum)
  BY Zenon, <1>5, <1>8, <1>10, <1>11, <1>12 DEF Backed, Held
<1> QED BY Zenon, <1>4, <1>7, <1>8, <1>10, <1>13

\* Files that agree with the index are left alone by the repair.
LEMMA BackedRepair ==
    ASSUME NEW I, GoodIndex(I), NEW D, DataFiles(D), NEW h, Backed(I, D, h)
    PROVE  RepairedIndex(I, D) = I
<1>0. I \in Seq(Entries) /\ Len(I) \in Nat /\ Len(I) >= 1 /\ Len(I) \in 1 .. Len(I)
  BY DEF GoodIndex
<1>1. repairIndex(I) = I
  BY Zenon, RepairIndexKeeps
<1>2. Fits(I, D, Len(I))
  <2>1. CASE Len(I) = 1
    BY Zenon, <2>1 DEF Fits
  <2>2. CASE Len(I) /= 1
    <3>1. Len(I) \in 2 .. Len(I)
      BY <1>0, <2>2
    <3>2. I[Len(I)].filenum \in DOMAIN D
      BY Zenon, <1>0, HeldFiles DEF Backed
    <3>3. I[Len(I)].offset <= Len(D[I[Len(I)].filenum])
      BY Zenon, <3>1 DEF Backed, Held
    <3> QED BY Zenon, <2>2, <3>2, <3>3 DEF Fits, File
  <2> QED BY <2>1, <2>2
<1>3. repairLoop(I, D) = SubSeq(I, 1, Len(I))
  BY Zenon, <1>0, <1>2, RepairLoopCut
<1> QED BY Zenon, <1>0, <1>1, <1>3, PrefixFacts DEF RepairedIndex

----
(***************************************************************************)
(* The actions, one lemma each.                                            *)
(***************************************************************************)
\* The types of the fields of an open table.
LEMMA OpenFacts ==
    ASSUME IInv, mode = "open"
    PROVE  /\ GoodIndex(idx) /\ Backed(idx, dat, mem.headId) /\ PcInv /\ DataFiles(dat)
           /\ idx \in Seq(Entries) /\ Len(idx) \in Nat /\ Len(idx) >= 1
           /\ idx[1].filenum \in Nat /\ idx[1].offset \in Nat
           /\ LastEntry(idx).filenum \in Nat /\ LastEntry(idx).offset \in Nat
           /\ LastEntry(idx).filenum = idx[Len(idx)].filenum
           /\ idx[1].filenum <= LastEntry(idx).filenum /\ LastEntry(idx).filenum <= mem.headId
           /\ mem.items \in Nat /\ mem.itemOffset \in Nat /\ mem.itemHidden \in Nat
           /\ mem.headId \in Nat /\ mem.tailId \in Nat /\ mem.headBytes \in Nat
           /\ mem.headId \in DOMAIN dat /\ dat[mem.headId] \in Seq(Byte)
           /\ Len(dat[mem.headId]) \in Nat /\ Len(dat[mem.headId]) <= MaxFileSize
           /\ batch.data \in Seq(Byte) /\ Len(batch.data) \in Nat
           /\ batch.index \in Seq(Entries) /\ Len(batch.index) \in Nat
           /\ batch.cur \in Nat /\ batch.prevItem \in Nat
<1>1. GoodIndex(idx) /\ Backed(idx, dat, mem.headId) /\ PcInv /\ DataFiles(dat) /\ mem \in Fields /\ batch \in Batches
  BY Zenon DEF IInv, OpenInv, Types
<1>2. idx \in Seq(Entries) /\ Len(idx) \in Nat /\ Len(idx) >= 1 /\ 1 \in 1 .. Len(idx) /\ Len(idx) \in 1 .. Len(idx)
  BY <1>1 DEF GoodIndex
<1>3. idx[1].filenum \in Nat /\ idx[1].offset \in Nat
  BY Zenon, <1>2, EntryTypes
<1>4. /\ LastEntry(idx).filenum \in Nat /\ LastEntry(idx).offset \in Nat
      /\ LastEntry(idx).filenum = idx[Len(idx)].filenum
  BY Zenon, <1>2, LastFacts
<1>5. /\ mem.items \in Nat /\ mem.itemOffset \in Nat /\ mem.itemHidden \in Nat
      /\ mem.headId \in Nat /\ mem.tailId \in Nat /\ mem.headBytes \in Nat
  BY <1>1 DEF Fields
<1>6. mem.headId \in DOMAIN dat /\ idx[1].filenum <= LastEntry(idx).filenum /\ LastEntry(idx).filenum <= mem.headId
  BY Zenon, <1>1, <1>2, HeldFiles DEF Backed, Held
<1>7. dat[mem.headId] \in Seq(Byte) /\ Len(dat[mem.headId]) \in Nat /\ Len(dat[mem.headId]) <= MaxFileSize
  <2>1. dat[mem.headId] \in Seq(Byte) /\ Len(dat[mem.headId]) <= MaxFileSize
    BY Zenon, <1>1, <1>6 DEF DataFiles
  <2>2. \A s \in Seq(Byte) : Len(s) \in Nat
    OBVIOUS
  <2> QED BY Zenon, <2>1, <2>2
<1>8. batch.data \in Seq(Byte) /\ batch.index \in Seq(Entries) /\ batch.cur \in Nat /\ batch.prevItem \in Nat
  BY <1>1 DEF Batches
<1>9. Len(batch.data) \in Nat /\ Len(batch.index) \in Nat
  <2>1. \A s \in Seq(Byte) : Len(s) \in Nat
    OBVIOUS
  <2>2. \A s \in Seq(Entries) : Len(s) \in Nat
    OBVIOUS
  <2> QED BY Zenon, <1>8, <2>1, <2>2
<1> QED BY Zenon, <1>1, <1>2, <1>3, <1>4, <1>5, <1>6, <1>7, <1>8, <1>9

\* The bytes of an item.
LEMMA ByteFacts ==
    ASSUME NEW v \in Values
    PROVE  /\ Size[v] \in Nat /\ Size[v] >= 1 /\ Size[v] <= MaxFileSize /\ MaxFileSize \in Nat
           /\ Bytes(v) \in Seq(Byte) /\ Len(Bytes(v)) = Size[v]
<1>1. Size[v] \in Nat /\ Size[v] >= 1 /\ Size[v] <= MaxFileSize /\ MaxFileSize \in Nat
  BY SizeAssumption
<1>2. Bytes(v) \in [1 .. Size[v] -> Byte]
  <2>1. \A k \in 1 .. Size[v] : k \in Nat
    BY <1>1
  <2>2. \A k \in 1 .. Size[v] : <<v, k>> \in Byte
    BY Zenon, <2>1 DEF Byte
  <2> QED BY Zenon, <2>2 DEF Bytes
<1>3. Bytes(v) \in Seq(Byte) /\ Len(Bytes(v)) = Size[v]
  BY <1>1, <1>2
<1> QED BY Zenon, <1>1, <1>3

\* A step of a batch that touches neither the files nor the fields.
LEMMA BatchStep ==
    ASSUME IInv, mode = "open", pc \in {"idle", "batch"}, pc' \in {"idle", "batch", "full", "flush"},
           UNCHANGED <<files, mem, mode, crashes>>, batch' \in Batches, pc' \in Writing => BatchInv'
    PROVE  IInv'
<1>1. UNCHANGED <<idx, idxSync, dat, datSync, meta, metaOld, mem, mode, crashes>>
  BY DEF files
<1>2. Types'
  BY Zenon, <1>1 DEF IInv, Types, Writing
<1>3. pc \notin CuttingHead /\ pc \notin Indexing /\ pc /= "tailFiles"
      /\ pc' \notin CuttingHead /\ pc' \notin Indexing /\ pc' /= "tailFiles" /\ pc' /= "headData" /\ pc' /= "tailIndex"
  BY DEF CuttingHead, Indexing
<1>4. GoodIndex(idx) /\ Backed(idx, dat, mem.headId) /\ PcInv
  BY Zenon DEF IInv, OpenInv
<1>5. GoodIndex(idx') /\ Backed(idx', dat', mem'.headId)
  BY Zenon, <1>1, <1>4
<1>6. PcInv'
  BY Zenon, <1>1, <1>3, <1>4 DEF PcInv
<1>7. mode' /= "down"
  BY <1>1
<1> QED BY Zenon, <1>2, <1>5, <1>6, <1>7 DEF IInv, OpenInv, DownInv

LEMMA resetStep ==
    ASSUME IInv, reset
    PROVE  IInv'
<1>1. /\ mode = "open" /\ pc = "idle" /\ pc' = "batch" /\ UNCHANGED <<files, mem, mode, crashes>>
      /\ batch' = [data |-> <<>>, index |-> <<>>, cur |-> mem.items, prevItem |-> mem.items]
  BY Zenon DEF reset, Idle
<1>2. PcInv /\ mem.items \in Nat /\ mem.headBytes \in Nat /\ mem.headBytes <= MaxFileSize
  <2>1. /\ PcInv /\ mem.items \in Nat /\ mem.headBytes \in Nat /\ Len(dat[mem.headId]) <= MaxFileSize
    BY Zenon, <1>1, OpenFacts
  <2>2. Len(dat[mem.headId]) = mem.headBytes
    BY <1>1, <2>1 DEF PcInv, CuttingHead, Indexing
  <2> QED BY Zenon, <2>1, <2>2
<1>3. batch'.data = <<>> /\ batch'.index = <<>> /\ batch'.cur = mem.items /\ batch'.prevItem = mem.items
  BY <1>1
<1>4. batch' \in Batches
  <2>1. <<>> \in Seq(Byte) /\ <<>> \in Seq(Entries)
    OBVIOUS
  <2> QED BY Zenon, <1>1, <1>2, <2>1 DEF Batches
<1>5. mem' = mem /\ mem.itemHidden <= mem.items /\ mem.items <= MaxItems
  BY <1>1, <1>2 DEF PcInv, CuttingHead
<1>6. BatchInv'
  BY <1>1, <1>2, <1>3, <1>5 DEF BatchInv
<1> QED BY Zenon, <1>1, <1>4, <1>6, BatchStep

\* Two sequences one after the other.
LEMMA ConcatFacts ==
    ASSUME NEW S, NEW s \in Seq(S), NEW t \in Seq(S)
    PROVE  /\ s \o t \in Seq(S) /\ Len(s \o t) = Len(s) + Len(t) /\ Len(s) \in Nat /\ Len(t) \in Nat
           /\ \A k \in 1 .. Len(s) : (s \o t)[k] = s[k]
           /\ \A k \in 1 .. Len(t) : (s \o t)[Len(s) + k] = t[k]
OBVIOUS

\* An item put into the buffers.
IsBuffered(b, v, f, offset) ==
    /\ b \in Batches /\ b.cur = batch.cur + 1 /\ b.prevItem = batch.prevItem
    /\ b.data = batch.data \o Bytes(v) /\ Len(b.data) = Len(batch.data) + Size[v] /\ b.data /= <<>>
    /\ Len(b.index) = Len(batch.index) + 1 /\ b.index /= <<>>
    /\ \A k \in 1 .. Len(batch.index) : b.index[k] = batch.index[k]
    /\ b.index[Len(batch.index) + 1].filenum = f
    /\ b.index[Len(batch.index) + 1].offset = offset + Size[v]

LEMMA BufferedFacts ==
    ASSUME batch \in Batches, NEW v \in Values, NEW f \in Nat, NEW offset \in Nat
    PROVE  IsBuffered(Buffered(v, f, offset), v, f, offset)
<1> DEFINE e == Entry(f, offset + Size[v])
           b == Buffered(v, f, offset)
<1>0. Size[v] \in Nat /\ Size[v] >= 1 /\ Bytes(v) \in Seq(Byte) /\ Len(Bytes(v)) = Size[v]
  BY Zenon, ByteFacts
<1>1. /\ batch.data \in Seq(Byte) /\ batch.index \in Seq(Entries) /\ batch.cur \in Nat /\ batch.prevItem \in Nat
  BY DEF Batches
<1>2. e \in Entries /\ e.filenum = f /\ e.offset = offset + Size[v]
  BY <1>0 DEF Entry, Entries
<1>3. /\ batch.data \o Bytes(v) \in Seq(Byte)
      /\ Len(batch.data \o Bytes(v)) = Len(batch.data) + Size[v] /\ Len(batch.data) \in Nat
  <2> DEFINE a == batch.data
             c == Bytes(v)
  <2>1. a \in Seq(Byte) /\ c \in Seq(Byte) /\ Len(c) = Size[v]
    BY Zenon, <1>0, <1>1
  <2> HIDE DEF a, c
  <2>2. a \o c \in Seq(Byte) /\ Len(a \o c) = Len(a) + Len(c) /\ Len(a) \in Nat
    BY <2>1, ConcatFacts
  <2> QED BY Zenon, <2>1, <2>2 DEF a, c
<1> HIDE DEF e, b
<1>4. /\ Append(batch.index, e) \in Seq(Entries) /\ Len(Append(batch.index, e)) = Len(batch.index) + 1
      /\ Len(batch.index) \in Nat
      /\ \A k \in 1 .. Len(batch.index) : Append(batch.index, e)[k] = batch.index[k]
      /\ Append(batch.index, e)[Len(batch.index) + 1] = e
  BY <1>1, <1>2
<1>5. /\ b \in Batches /\ b.data = batch.data \o Bytes(v) /\ b.index = Append(batch.index, e)
      /\ b.cur = batch.cur + 1 /\ b.prevItem = batch.prevItem
  <2>1. batch.cur + 1 \in Nat
    BY <1>1
  <2> QED BY Zenon, <1>1, <1>3, <1>4, <2>1 DEF Batches, Buffered, b, e
<1>6. Len(b.data) = Len(batch.data) + Size[v] /\ Len(b.data) > 0 /\ Len(b.index) = Len(batch.index) + 1 /\ Len(b.index) > 0
  BY <1>0, <1>3, <1>4, <1>5
<1>7. b.data /= <<>> /\ b.index /= <<>>
  BY <1>6
<1>8. IsBuffered(b, v, f, offset)
  BY Zenon, <1>2, <1>4, <1>5, <1>6, <1>7 DEF IsBuffered
<1> QED BY Zenon, <1>8 DEF b

LEMMA appendItemStep ==
    ASSUME IInv, NEW v \in Values, appendItem(v)
    PROVE  IInv'
<1>1. mode = "open" /\ pc = "batch" /\ batch.cur < MaxItems /\ UNCHANGED <<files, mem, mode, crashes>>
  BY Zenon DEF appendItem
<1>2. PcInv /\ mem.headId \in Nat /\ mem.headBytes \in Nat /\ mem.items \in Nat
      /\ Len(batch.data) \in Nat /\ Len(batch.index) \in Nat /\ batch.cur \in Nat
      /\ Len(dat[mem.headId]) \in Nat
  BY Zenon, <1>1, OpenFacts
<1>3. BatchInv /\ batch \in Batches
  BY <1>1, <1>2 DEF PcInv, Writing, IInv, Types
<1>4. Size[v] \in Nat /\ Size[v] >= 1 /\ Size[v] <= MaxFileSize /\ MaxFileSize \in Nat /\ MaxItems \in Nat
  BY ByteFacts, SizeAssumption
<1>5. CASE ItemFits(v)
  <2> DEFINE off == mem.headBytes + Len(batch.data)
  <2>0. off \in Nat /\ mem.headBytes <= off
    BY <1>2
  <2>1. batch' = Buffered(v, mem.headId, off) /\ pc' = AfterBuffering(batch') /\ arg' = arg
    BY Zenon, <1>5 DEF appendItem
  <2>2. off + Size[v] <= MaxFileSize
    BY Zenon, <1>5 DEF ItemFits
  <2> HIDE DEF off
  <2>3. /\ batch' \in Batches /\ batch'.cur = batch.cur + 1 /\ batch'.prevItem = batch.prevItem
        /\ Len(batch'.data) = Len(batch.data) + Size[v]
        /\ Len(batch'.index) = Len(batch.index) + 1 /\ batch'.index /= <<>>
        /\ \A k \in 1 .. Len(batch.index) : batch'.index[k] = batch.index[k]
        /\ batch'.index[Len(batch.index) + 1].filenum = mem.headId
        /\ batch'.index[Len(batch.index) + 1].offset = off + Size[v]
    <3>1. IsBuffered(batch', v, mem.headId, off)
      BY Zenon, <1>2, <1>3, <2>0, <2>1, BufferedFacts
    <3> QED BY Zenon, <3>1 DEF IsBuffered
  <2>4. pc' \in {"batch", "flush"}
    BY <2>1 DEF AfterBuffering
  <2>5. /\ batch'.cur = mem.items + Len(batch'.index) /\ batch'.cur <= MaxItems
        /\ mem.itemHidden <= batch'.prevItem /\ batch'.prevItem <= mem.items
    BY <1>1, <1>2, <1>3, <1>4, <2>3 DEF BatchInv
  <2>6. mem.headBytes + Len(batch'.data) = off + Size[v] /\ mem.headBytes + Len(batch'.data) <= MaxFileSize
    BY <1>2, <1>4, <2>2, <2>3 DEF off
  <2>7. ASSUME NEW k \in 1 .. Len(batch'.index)
        PROVE  /\ batch'.index[k].filenum = mem.headId
               /\ mem.headBytes < batch'.index[k].offset
               /\ batch'.index[k].offset <= mem.headBytes + Len(batch'.data)
    <3>1. CASE k \in 1 .. Len(batch.index)
      <4>1. batch'.index[k] = batch.index[k] /\ batch.index[k].filenum = mem.headId
            /\ mem.headBytes < batch.index[k].offset /\ batch.index[k].offset <= off
        BY Zenon, <1>3, <2>3, <3>1 DEF BatchInv, off
      <4>2. batch.index[k].offset \in Nat
        BY Zenon, <1>1, <3>1, OpenFacts, EntryTypes
      <4>3. batch.index[k].offset <= off + Size[v]
        BY <1>4, <2>0, <4>1, <4>2
      <4> QED BY Zenon, <2>6, <4>1, <4>3
    <3>2. CASE k = Len(batch.index) + 1
      <4>1. mem.headBytes < off + Size[v] /\ off + Size[v] <= off + Size[v]
        BY <1>2, <1>4, <2>0
      <4> QED BY Zenon, <2>3, <2>6, <3>2, <4>1
    <3>3. k \in 1 .. Len(batch.index) \/ k = Len(batch.index) + 1
      BY <1>2, <2>3
    <3> QED BY <3>1, <3>2, <3>3
  <2>8. ASSUME NEW k \in 2 .. Len(batch'.index)
        PROVE  batch'.index[k - 1].offset <= batch'.index[k].offset
    <3>1. CASE k \in 2 .. Len(batch.index)
      <4>1. k \in 1 .. Len(batch.index) /\ k - 1 \in 1 .. Len(batch.index)
        BY <1>2, <3>1
      <4> QED BY Zenon, <1>3, <2>3, <3>1, <4>1 DEF BatchInv
    <3>2. CASE k = Len(batch.index) + 1
      <4>1. k - 1 \in 1 .. Len(batch.index)
        BY <1>2, <3>2
      <4>2. batch'.index[k - 1].offset <= off /\ batch'.index[k - 1].offset \in Nat
        <5>1. batch'.index[k - 1] = batch.index[k - 1] /\ batch.index[k - 1].offset <= off
          BY Zenon, <1>3, <2>3, <4>1 DEF BatchInv, off
        <5>2. batch.index[k - 1].offset \in Nat
          BY Zenon, <1>1, <4>1, OpenFacts, EntryTypes
        <5> QED BY Zenon, <5>1, <5>2
      <4>3. batch'.index[k].offset = off + Size[v]
        BY Zenon, <2>3, <3>2
      <4> QED BY <1>4, <2>0, <4>2, <4>3
    <3>3. k \in 2 .. Len(batch.index) \/ k = Len(batch.index) + 1
      BY <1>2, <2>3
    <3> QED BY <3>1, <3>2, <3>3
  <2>9. mem' = mem /\ pc' \notin {"full", "fullIndex", "advance"}
    BY <1>1, <2>4
  <2>10. BatchInv'
    BY Zenon, <2>3, <2>5, <2>6, <2>7, <2>8, <2>9 DEF BatchInv
  <2> QED BY Zenon, <1>1, <2>3, <2>4, <2>10, BatchStep
<1>6. CASE ~ItemFits(v)
  <2>1. pc' = "full" /\ arg' = v /\ batch' = batch /\ mem' = mem
    BY <1>1, <1>6 DEF appendItem
  <2>2. mem.headBytes + Len(batch.data) > 0
    BY <1>2, <1>4, <1>6 DEF ItemFits
  <2>3. BatchInv'
    BY <1>1, <1>3, <2>1, <2>2 DEF BatchInv
  <2> QED BY Zenon, <1>1, <1>3, <2>1, <2>3, BatchStep
<1> QED BY <1>5, <1>6

\* Only the contents of file h change.
SameButHead(D, E, h) == DOMAIN E = DOMAIN D /\ \A g \in DOMAIN D : g /= h => E[g] = D[g]

LEMMA HeadChange ==
    ASSUME NEW I, GoodIndex(I), NEW D, NEW E, NEW h, Held(I, D, h), SameButHead(D, E, h)
    PROVE  Held(I, E, h)
<1>1. ASSUME NEW k \in 2 .. Len(I), I[k].filenum /= h
      PROVE  I[k].offset <= Len(E[I[k].filenum])
  <2>1. k \in 1 .. Len(I)
    BY DEF GoodIndex
  <2>2. I[k].filenum \in DOMAIN D
    BY Zenon, <2>1, HeldFiles
  <2>3. E[I[k].filenum] = D[I[k].filenum]
    BY Zenon, <1>1, <2>2 DEF SameButHead
  <2> QED BY Zenon, <1>1, <2>3 DEF Held
<1> QED BY Zenon, <1>1 DEF Held, SameButHead

\* No batch is under way.
LEMMA NoBatchType ==
    NoBatch \in Batches
<1>1. <<>> \in Seq(Byte) /\ <<>> \in Seq(Entries) /\ 0 \in Nat
  OBVIOUS
<1> QED BY Zenon, <1>1 DEF NoBatch, Batches

LEMMA commitWriteStep ==
    ASSUME IInv, commitWrite
    PROVE  IInv'
<1> DEFINE h == mem.headId
           bs == dat[h] \o batch.data
<1>1. /\ mode = "open" /\ pc \in {"full", "flush", "batch"} /\ pc' = NextWrite(pc) /\ dat' = [dat EXCEPT ![h] = bs]
      /\ UNCHANGED <<idx, idxSync, datSync, meta, metaOld, mem, batch, arg, mode, crashes>>
  BY Zenon DEF commitWrite
<1>2. /\ pc' \in Indexing /\ pc' \in Writing /\ (pc' \in {"full", "fullIndex", "advance"} => pc = "full") /\ pc' /= "advance"
      /\ pc \in Writing /\ pc \notin CuttingHead /\ pc \notin Indexing /\ pc /= "tailFiles"
      /\ pc' \notin CuttingHead /\ pc' /= "tailFiles" /\ pc' /= "headData" /\ pc' /= "tailIndex"
  <2>1. \/ pc = "full" /\ pc' = "fullIndex"
        \/ pc = "flush" /\ pc' = "flushIndex"
        \/ pc = "batch" /\ pc' = "doneIndex"
    BY <1>1 DEF NextWrite
  <2> QED BY <2>1 DEF Indexing, Writing, CuttingHead
<1>3. /\ GoodIndex(idx) /\ Backed(idx, dat, h) /\ PcInv /\ DataFiles(dat) /\ h \in Nat /\ h \in DOMAIN dat
      /\ dat[h] \in Seq(Byte) /\ batch.data \in Seq(Byte) /\ mem.headBytes \in Nat
      /\ Len(idx) \in Nat /\ idx \in Seq(Entries)
  BY Zenon, <1>1, OpenFacts
<1>4. BatchInv /\ Len(dat[h]) = mem.headBytes
  BY <1>2, <1>3 DEF PcInv
<1>5. bs \in Seq(Byte) /\ Len(bs) = mem.headBytes + Len(batch.data) /\ Len(bs) <= MaxFileSize /\ Len(dat[h]) <= Len(bs)
      /\ Len(dat[h]) \in Nat /\ Len(bs) \in Nat
  <2> DEFINE a == dat[h]
             c == batch.data
  <2>1. a \in Seq(Byte) /\ c \in Seq(Byte) /\ Len(a) = mem.headBytes
    BY Zenon, <1>3, <1>4
  <2> HIDE DEF a, c
  <2>2. a \o c \in Seq(Byte) /\ Len(a \o c) = Len(a) + Len(c) /\ Len(a) \in Nat /\ Len(c) \in Nat
    BY Zenon, <2>1, ConcatFacts
  <2>3. Len(a) <= Len(a \o c) /\ Len(a \o c) \in Nat
    BY <2>2
  <2>4. mem.headBytes + Len(c) <= MaxFileSize
    BY Zenon, <1>4 DEF BatchInv, c
  <2> QED BY Zenon, <2>1, <2>2, <2>3, <2>4 DEF a, c
<1> HIDE DEF bs
<1>6. SameButHead(dat, dat', h) /\ dat'[h] = bs
  BY Zenon, <1>1, <1>3 DEF SameButHead
<1>7. DataFiles(dat')
  BY Zenon, <1>3, <1>5, <1>6 DEF DataFiles, SameButHead
<1>8. Held(idx, dat', h)
  BY Zenon, <1>3, <1>6, HeadChange DEF Backed
<1>9. ASSUME NEW k \in 2 .. Len(idx), idx[k].filenum = h
      PROVE  idx[k].offset <= Len(dat'[h])
  <2>1. idx[k].offset <= Len(dat[h])
    BY Zenon, <1>3, <1>9 DEF Backed
  <2>2. k \in 1 .. Len(idx)
    BY <1>3
  <2>3. idx[k].offset \in Nat
    BY Zenon, <1>3, <2>2, EntryTypes
  <2>4. idx[k].offset <= Len(bs)
    BY <1>5, <2>1, <2>3
  <2> QED BY Zenon, <1>6, <2>4
<1>10. Backed(idx, dat', h)
  BY Zenon, <1>8, <1>9 DEF Backed
<1>11. BatchInv'
  BY Zenon, <1>1, <1>2, <1>4 DEF BatchInv
<1>12. PcInv'
  BY Zenon, <1>1, <1>2, <1>3, <1>5, <1>6, <1>11 DEF PcInv
<1>13. Types'
  <2>1. Types
    BY Zenon DEF IInv
  <2> QED BY Zenon, <1>1, <1>2, <1>7, <2>1 DEF Types
<1>14. mode' /= "down" /\ GoodIndex(idx') /\ Backed(idx', dat', mem'.headId)
  BY <1>1, <1>3, <1>10
<1> QED BY Zenon, <1>12, <1>13, <1>14 DEF IInv, OpenInv, DownInv

\* Entries that continue an index in order: all in file h, after offset hb of it.
Continue(X, h, hb) ==
    /\ \A k \in 1 .. Len(X) : X[k].filenum = h /\ hb < X[k].offset
    /\ \A k \in 2 .. Len(X) : X[k - 1].offset <= X[k].offset

LEMMA ExtendIndex ==
    ASSUME NEW I, GoodIndex(I), NEW X \in Seq(Entries), NEW h \in Nat, NEW hb \in Nat, Continue(X, h, hb),
           h \in {LastEntry(I).filenum, LastEntry(I).filenum + 1},
           h = LastEntry(I).filenum => LastEntry(I).offset <= hb
    PROVE  /\ GoodIndex(I \o X) /\ (I \o X)[1] = I[1] /\ Len(I \o X) = Len(I) + Len(X)
           /\ \A k \in 2 .. Len(I \o X) : \/ k \in 2 .. Len(I) /\ (I \o X)[k] = I[k]
                                          \/ \E j \in 1 .. Len(X) : (I \o X)[k] = X[j]
           /\ X = <<>> => I \o X = I
           /\ X /= <<>> => LastEntry(I \o X) = X[Len(X)] /\ Len(X) \in 1 .. Len(X)
<1> DEFINE Y == I \o X
           n == Len(I)
           x == Len(X)
<1>0. I \in Seq(Entries) /\ n \in Nat /\ n >= 1 /\ x \in Nat /\ 1 \in 1 .. n /\ n \in 1 .. n
  BY DEF GoodIndex
<1>1. /\ Y \in Seq(Entries) /\ Len(Y) = n + x /\ \A k \in 1 .. n : Y[k] = I[k]
      /\ \A k \in 1 .. x : Y[n + k] = X[k]
  BY <1>0, ConcatFacts
<1>2. X = <<>> => Y = I
  BY <1>0
<1>3. X /= <<>> => x >= 1
  BY <1>0
<1> HIDE DEF Y, n, x
<1>4. Y[1] = I[1]
  BY Zenon, <1>0, <1>1
<1>5. \A k \in 2 .. n + x : k \in 2 .. n \/ \E j \in 1 .. x : k = n + j
  <2>1. ASSUME NEW k \in 2 .. n + x, k \notin 2 .. n PROVE \E j \in 1 .. x : k = n + j
    <3>1. k - n \in 1 .. x /\ k = n + (k - n)
      BY <1>0, <2>1
    <3> QED BY Zenon, <3>1
  <2> QED BY <2>1
<1>6. LastEntry(I).filenum = I[n].filenum /\ I[n].filenum \in Nat /\ I[n].offset \in Nat
      /\ (n >= 2 => LastEntry(I) = I[n])
  BY Zenon, <1>0, LastFacts, EntryTypes DEF n
<1>7. ASSUME NEW k \in 2 .. n
      PROVE  IndexItemOK(Y, k) /\ Y[k].offset > 0
  <2>1. k \in 1 .. n /\ k - 1 \in 1 .. n
    BY <1>0
  <2>2. Y[k] = I[k] /\ Y[k - 1] = I[k - 1] /\ Y[1] = I[1]
    BY Zenon, <1>1, <1>4, <2>1
  <2>3. IndexItemOK(I, k) /\ I[k].offset > 0
    BY Zenon DEF GoodIndex, n
  <2> QED BY <2>2, <2>3 DEF IndexItemOK
<1>8. ASSUME NEW j \in 1 .. x
      PROVE  IndexItemOK(Y, n + j) /\ Y[n + j].offset > 0
  <2>1. Y[n + j] = X[j] /\ X[j].filenum = h /\ hb < X[j].offset /\ X[j].offset \in Nat
    BY Zenon, <1>1, EntryTypes DEF Continue, x
  <2>2. X[j].offset > 0
    BY <2>1
  <2>3. CASE j = 1 /\ n = 1
    <3>1. n + j = 2 /\ Y[2] = X[j] /\ Y[1] = I[n]
      BY <1>4, <2>1, <2>3
    <3>2. X[j].filenum \in {Y[1].filenum, Y[1].filenum + 1}
      BY Zenon, <1>6, <2>1, <3>1
    <3> QED BY Zenon, <2>1, <2>2, <3>1, <3>2 DEF IndexItemOK
  <2>4. CASE j = 1 /\ n /= 1
    <3>1. n + j /= 2 /\ (n + j) - 1 = n /\ n >= 2
      BY <1>0, <2>4
    <3>2. Y[n] = I[n] /\ LastEntry(I) = I[n]
      BY Zenon, <1>0, <1>1, <1>6, <3>1
    <3>3. /\ X[j].filenum \in {I[n].filenum, I[n].filenum + 1}
          /\ X[j].filenum = I[n].filenum => X[j].offset >= I[n].offset
      <4>1. h = I[n].filenum => I[n].offset <= hb
        BY Zenon, <3>2
      <4>2. h = I[n].filenum => X[j].offset >= I[n].offset
        BY <1>6, <2>1, <4>1
      <4> QED BY Zenon, <1>6, <2>1, <4>2
    <3>4. checkIndexItems(I[n], X[j])
      BY <2>2, <3>3 DEF checkIndexItems
    <3> QED BY Zenon, <2>1, <2>2, <3>1, <3>2, <3>4 DEF IndexItemOK
  <2>5. CASE j /= 1
    <3>1. n + j /= 2 /\ (n + j) - 1 = n + (j - 1) /\ j - 1 \in 1 .. x /\ j \in 2 .. x
      BY <1>0, <2>5
    <3>2. Y[n + (j - 1)] = X[j - 1] /\ X[j - 1].filenum = h /\ X[j - 1].offset <= X[j].offset
          /\ X[j - 1].offset \in Nat
      BY Zenon, <1>1, <3>1, EntryTypes DEF Continue, x
    <3>3. checkIndexItems(X[j - 1], X[j])
      BY <2>1, <2>2, <3>2 DEF checkIndexItems
    <3> QED BY Zenon, <2>1, <2>2, <3>1, <3>2, <3>3 DEF IndexItemOK
  <2> QED BY <2>3, <2>4, <2>5
<1>9. \A k \in 2 .. Len(Y) : IndexItemOK(Y, k) /\ Y[k].offset > 0
  <2>1. ASSUME NEW k \in 2 .. Len(Y) PROVE IndexItemOK(Y, k) /\ Y[k].offset > 0
    <3>1. k \in 2 .. n \/ \E j \in 1 .. x : k = n + j
      BY Zenon, <1>1, <1>5
    <3>2. CASE k \in 2 .. n
      BY Zenon, <1>7, <3>2
    <3>3. ASSUME NEW j \in 1 .. x, k = n + j PROVE IndexItemOK(Y, k) /\ Y[k].offset > 0
      BY Zenon, <1>8, <3>3
    <3> QED BY Zenon, <3>1, <3>2, <3>3
  <2> QED BY Zenon, <2>1
<1>10. Len(Y) >= 1 /\ Len(Y) \in Nat
  BY <1>0, <1>1
<1>11. GoodIndex(Y)
  BY Zenon, <1>1, <1>4, <1>9, <1>10 DEF GoodIndex
<1>12. \A k \in 2 .. Len(Y) : (k \in 2 .. n /\ Y[k] = I[k]) \/ \E j \in 1 .. x : Y[k] = X[j]
  <2>1. \A k \in 2 .. n : k \in 1 .. n
    BY <1>0
  <2>2. ASSUME NEW k \in 2 .. Len(Y) PROVE (k \in 2 .. n /\ Y[k] = I[k]) \/ \E j \in 1 .. x : Y[k] = X[j]
    <3>1. k \in 2 .. n \/ \E j \in 1 .. x : k = n + j
      BY Zenon, <1>1, <1>5
    <3> QED BY Zenon, <1>1, <2>1, <3>1
  <2> QED BY Zenon, <2>2
<1>13. ASSUME X /= <<>> PROVE LastEntry(Y) = X[x] /\ x \in 1 .. x
  <2>1. x >= 1 /\ x \in 1 .. x /\ Len(Y) >= 2
    BY <1>0, <1>1, <1>3, <1>13
  <2>2. LastEntry(Y) = Y[Len(Y)]
    BY Zenon, <1>1, <1>10, <2>1, LastFacts
  <2> QED BY Zenon, <1>1, <2>1, <2>2
<1> QED BY Zenon, <1>1, <1>2, <1>4, <1>11, <1>12, <1>13 DEF Y, n, x

LEMMA commitIndexStep ==
    ASSUME IInv, commitIndex
    PROVE  IInv'
<1> DEFINE h == mem.headId
           X == batch.index
           hb == mem.headBytes
           nb == hb + Len(batch.data)
<1>1. /\ mode = "open" /\ pc \in Indexing /\ pc' = NextIndex(pc) /\ datSync' = Len(dat[h]) /\ idx' = idx \o X
      /\ mem' = [mem EXCEPT !.headBytes = nb, !.items = batch.cur]
      /\ batch' = IF pc = "doneIndex" THEN NoBatch ELSE [batch EXCEPT !.data = <<>>, !.index = <<>>]
      /\ UNCHANGED <<idxSync, dat, meta, metaOld, arg, mode, crashes>>
  BY Zenon DEF commitIndex, Indexing
<1>2. \/ pc = "fullIndex" /\ pc' = "advance"
      \/ pc = "flushIndex" /\ pc' = "batch"
      \/ pc = "doneIndex" /\ pc' = "idle"
  BY <1>1 DEF NextIndex, Indexing
<1>3. /\ pc \in Writing /\ pc \notin CuttingHead /\ pc /= "tailFiles"
      /\ pc' \in {"idle"} \cup Writing /\ pc' \notin CuttingHead /\ pc' \notin Indexing
      /\ pc' /= "tailFiles" /\ pc' /= "headData" /\ pc' /= "tailIndex" /\ pc' \notin {"full", "fullIndex"}
  BY <1>2 DEF Indexing, Writing, CuttingHead
<1>4. /\ GoodIndex(idx) /\ Backed(idx, dat, h) /\ PcInv /\ DataFiles(dat) /\ h \in Nat /\ h \in DOMAIN dat
      /\ Len(dat[h]) \in Nat /\ X \in Seq(Entries) /\ hb \in Nat /\ Len(batch.data) \in Nat /\ Len(X) \in Nat
      /\ Len(idx) \in Nat /\ idx \in Seq(Entries) /\ batch.cur \in Nat /\ batch.prevItem \in Nat /\ mem.items \in Nat
      /\ idx[1].offset \in Nat /\ mem.itemHidden \in Nat /\ LastEntry(idx).filenum \in Nat /\ LastEntry(idx).offset \in Nat
  BY Zenon, <1>1, OpenFacts
<1>5. BatchInv /\ Len(dat[h]) = nb /\ mem \in Fields /\ batch \in Batches /\ Types
  BY Zenon, <1>1, <1>3, <1>4 DEF PcInv, IInv, Types
<1>6. nb \in Nat /\ hb <= nb /\ batch.cur = mem.items + Len(X)
  <2>1. \A a, b \in Nat : a + b \in Nat /\ a <= a + b
    OBVIOUS
  <2> QED BY Zenon, <1>4, <1>5, <2>1 DEF BatchInv
<1>7. Continue(X, h, hb)
  BY Zenon, <1>5 DEF BatchInv, Continue
<1>8. /\ h \in {LastEntry(idx).filenum, LastEntry(idx).filenum + 1}
      /\ h = LastEntry(idx).filenum => LastEntry(idx).offset <= hb
      /\ h = LastEntry(idx).filenum \/ hb = 0
  BY Zenon, <1>3, <1>4 DEF PcInv
<1>9. /\ GoodIndex(idx') /\ idx'[1] = idx[1] /\ Len(idx') = Len(idx) + Len(X)
      /\ \A k \in 2 .. Len(idx') : \/ k \in 2 .. Len(idx) /\ idx'[k] = idx[k]
                                   \/ \E j \in 1 .. Len(X) : idx'[k] = X[j]
      /\ X = <<>> => idx' = idx
      /\ X /= <<>> => LastEntry(idx') = X[Len(X)] /\ Len(X) \in 1 .. Len(X)
  <2> HIDE DEF X, h, hb
  <2> QED BY ZenonT(30), <1>1, <1>4, <1>7, <1>8, ExtendIndex
<1>10. /\ mem'.headId = h /\ mem'.headBytes = nb /\ mem'.items = batch.cur /\ mem'.itemOffset = mem.itemOffset
       /\ mem'.itemHidden = mem.itemHidden /\ mem'.tailId = mem.tailId /\ mem' \in Fields
  BY Zenon, <1>1, <1>4, <1>5, <1>6 DEF Fields
<1>11. X /= <<>> => LastEntry(idx').filenum = h /\ LastEntry(idx').offset <= nb
  BY Zenon, <1>5, <1>9 DEF BatchInv
<1>12. /\ LastEntry(idx').filenum <= h
       /\ h \in {LastEntry(idx').filenum, LastEntry(idx').filenum + 1}
       /\ h = LastEntry(idx').filenum => LastEntry(idx').offset <= nb
       /\ h = LastEntry(idx').filenum \/ nb = 0
  <2>1. CASE X /= <<>>
    BY <1>4, <1>11, <2>1
  <2>2. CASE X = <<>>
    <3>1. idx' = idx /\ batch.data = <<>>
      BY Zenon, <1>5, <1>9, <2>2 DEF BatchInv
    <3>2. nb = hb
      BY <1>4, <3>1
    <3>3. LastEntry(idx).filenum <= h
      BY Zenon, <1>4 DEF Backed, Held
    <3> QED BY Zenon, <1>8, <3>1, <3>2, <3>3
  <2> QED BY <2>1, <2>2
<1>13. ASSUME NEW k \in 2 .. Len(idx')
       PROVE  idx'[k].offset <= Len(dat[idx'[k].filenum])
  <2>1. CASE k \in 2 .. Len(idx) /\ idx'[k] = idx[k]
    BY Zenon, <1>4, <2>1 DEF Backed, Held
  <2>2. ASSUME NEW j \in 1 .. Len(X), idx'[k] = X[j]
        PROVE  idx'[k].offset <= Len(dat[idx'[k].filenum])
    BY Zenon, <1>5, <2>2 DEF BatchInv
  <2> QED BY Zenon, <1>9, <2>1, <2>2
<1>14. Backed(idx', dat', mem'.headId)
  <2>1. \A f \in idx'[1].filenum .. h : f \in DOMAIN dat
    BY Zenon, <1>4, <1>9 DEF Backed, Held
  <2>2. dat' = dat
    BY Zenon, <1>1
  <2> QED BY Zenon, <1>4, <1>10, <1>12, <1>13, <2>1, <2>2 DEF Backed, Held
<1>15. /\ batch' \in Batches
       /\ pc' /= "idle" => /\ batch'.data = <<>> /\ batch'.index = <<>>
                           /\ batch'.cur = batch.cur /\ batch'.prevItem = batch.prevItem
  <2>1. CASE pc = "doneIndex"
    BY Zenon, <1>1, <1>2, <2>1, NoBatchType
  <2>2. CASE pc /= "doneIndex"
    <3>1. <<>> \in Seq(Byte) /\ <<>> \in Seq(Entries)
      OBVIOUS
    <3> QED BY Zenon, <1>1, <1>5, <2>2, <3>1 DEF Batches
  <2> QED BY <2>1, <2>2
<1>16. Types'
  <2>1. idxSync' \in 1 .. Len(idx')
    BY <1>1, <1>4, <1>5, <1>9 DEF Types
  <2>2. idx' \in Seq(Entries) /\ datSync' \in Nat /\ idx'[1].offset <= MaxItems
    BY Zenon, <1>1, <1>4, <1>5, <1>9 DEF Types, GoodIndex
  <2> QED BY Zenon, <1>1, <1>3, <1>5, <1>10, <1>15, <2>1, <2>2 DEF Types
<1>17. ASSUME pc' \in Writing PROVE BatchInv'
  <2>1. pc' /= "idle"
    BY <1>17 DEF Writing
  <2>2. /\ batch'.data = <<>> /\ batch'.index = <<>> /\ batch'.cur = batch.cur /\ batch'.prevItem = batch.prevItem
        /\ Len(batch'.data) = 0 /\ Len(batch'.index) = 0
    BY <1>15, <2>1
  <2>3. /\ batch.cur <= MaxItems /\ mem.itemHidden <= batch.prevItem /\ batch.prevItem <= mem.items
        /\ nb <= MaxFileSize
        /\ pc = "fullIndex" => arg \in Values /\ batch.cur < MaxItems /\ nb > 0
    BY Zenon, <1>5 DEF BatchInv
  <2>4. /\ batch'.cur = mem'.items + Len(batch'.index) /\ batch'.cur <= MaxItems
        /\ mem'.itemHidden <= batch'.prevItem /\ batch'.prevItem <= mem'.items
        /\ mem'.headBytes + Len(batch'.data) <= MaxFileSize
    <3>1. \A a, b, c \in Nat : a = a + 0 /\ (a <= b => a <= b + c)
      OBVIOUS
    <3> QED BY ZenonT(30), <1>4, <1>6, <1>10, <2>2, <2>3, <3>1
  <2>5. pc' = "advance" => arg' \in Values /\ batch'.cur < MaxItems
    BY <1>1, <1>2, <2>2, <2>3
  <2>6. pc' = "advance" => mem'.headId = LastEntry(idx').filenum
    <3>1. pc' = "advance" => pc = "fullIndex"
      BY <1>2
    <3>2. nb > 0 => nb /= 0
      BY <1>6
    <3> QED BY Zenon, <1>10, <1>12, <2>3, <3>1, <3>2
  <2>7. Len(batch'.index) = 0
    BY Zenon, <2>2
  <2>8. \A k \in 1 .. Len(batch'.index) : FALSE
    BY <2>7
  <2>9. \A k \in 2 .. Len(batch'.index) : FALSE
    BY <2>7
  <2> QED BY Zenon, <1>3, <2>2, <2>4, <2>5, <2>6, <2>8, <2>9 DEF BatchInv
<1>18. PcInv'
  <2>1. /\ mem.itemHidden = meta /\ idx[1].offset <= mem.itemHidden
        /\ mem.tailId <= idx[1].filenum /\ mem.itemOffset = idx[1].offset /\ mem.tailId = idx[1].filenum
        /\ mem.items = idx[1].offset + Len(idx) - 1 /\ mem.itemHidden <= mem.items
    BY Zenon, <1>3, <1>4 DEF PcInv
  <2>2. /\ mem'.items = idx'[1].offset + Len(idx') - 1 /\ mem'.itemHidden <= mem'.items /\ mem'.items <= MaxItems
    <3>1. batch.cur = idx[1].offset + (Len(idx) + Len(X)) - 1 /\ mem.itemHidden <= batch.cur
      <4> DEFINE o == idx[1].offset
                 n == Len(idx)
                 x == Len(X)
                 i == mem.items
                 t == mem.itemHidden
                 c == batch.cur
      <4>1. o \in Nat /\ n \in Nat /\ x \in Nat /\ i \in Nat /\ t \in Nat /\ i = o + n - 1 /\ t <= i /\ c = i + x
        BY Zenon, <1>4, <1>6, <2>1
      <4> HIDE DEF o, n, x, i, t, c
      <4>2. c = o + (n + x) - 1 /\ t <= c
        BY <4>1
      <4> QED BY Zenon, <4>2 DEF o, n, x, t, c
    <3>2. batch.cur <= MaxItems
      BY Zenon, <1>5 DEF BatchInv
    <3> QED BY Zenon, <1>9, <1>10, <3>1, <3>2
  <2>3. Len(dat'[mem'.headId]) = mem'.headBytes + 0
    BY <1>1, <1>5, <1>6, <1>10
  <2> QED BY Zenon, <1>1, <1>3, <1>9, <1>10, <1>12, <1>17, <2>1, <2>2, <2>3 DEF PcInv
<1>19. mode' /= "down"
  BY <1>1
<1> QED BY Zenon, <1>9, <1>14, <1>16, <1>18, <1>19 DEF IInv, OpenInv, DownInv

LEMMA advanceHeadStep ==
    ASSUME IInv, advanceHead
    PROVE  IInv'
<1> DEFINE h == mem.headId
           g == h + 1
<1>1. /\ mode = "open" /\ pc = "advance" /\ dat' = WithFile(dat, g, <<>>) /\ datSync' = 0
      /\ mem' = [mem EXCEPT !.headBytes = 0, !.headId = g]
      /\ batch' = Buffered(arg, g, 0) /\ pc' = AfterBuffering(batch')
      /\ UNCHANGED <<idx, idxSync, meta, metaOld, mode, crashes>>
  BY Zenon DEF advanceHead
<1>2. /\ GoodIndex(idx) /\ Backed(idx, dat, h) /\ PcInv /\ DataFiles(dat) /\ h \in Nat /\ h \in DOMAIN dat
      /\ mem.items \in Nat /\ idx \in Seq(Entries) /\ Len(idx) \in Nat /\ idx[1].filenum \in Nat
      /\ LastEntry(idx).filenum \in Nat
  BY Zenon, <1>1, OpenFacts
<1>3. pc' \in {"batch", "flush"}
  BY <1>1 DEF AfterBuffering
<1>4. /\ pc' \in Writing /\ pc' \notin CuttingHead /\ pc' \notin Indexing /\ pc' /= "tailFiles" /\ pc' /= "headData"
      /\ pc' /= "tailIndex" /\ pc' \notin {"full", "fullIndex", "advance"}
      /\ pc \in Writing /\ pc \notin CuttingHead /\ pc /= "tailFiles"
  BY <1>1, <1>3 DEF Writing, CuttingHead, Indexing
<1>5. /\ BatchInv /\ batch \in Batches /\ mem \in Fields /\ Types
  BY Zenon, <1>2, <1>4 DEF PcInv, IInv, Types
<1>6. /\ arg \in Values /\ batch.cur < MaxItems /\ batch.data = <<>> /\ batch.index = <<>> /\ h = LastEntry(idx).filenum
      /\ batch.cur = mem.items + Len(batch.index) /\ mem.itemHidden <= batch.prevItem /\ batch.prevItem <= mem.items
  BY Zenon, <1>1, <1>5 DEF BatchInv
<1>7. g \in Nat /\ h < g /\ g /= h
  BY <1>2
<1>8. IsBuffered(batch', arg, g, 0)
  <2>1. 0 \in Nat
    OBVIOUS
  <2> HIDE DEF g
  <2> QED BY Zenon, <1>1, <1>5, <1>6, <1>7, <2>1, BufferedFacts
<1>9. /\ batch' \in Batches /\ batch'.cur = batch.cur + 1 /\ batch'.prevItem = batch.prevItem
      /\ Len(batch'.data) = Size[arg] /\ Len(batch'.index) = 1 /\ batch'.index /= <<>>
      /\ batch'.index[1].filenum = g /\ batch'.index[1].offset = Size[arg]
  <2>1. Len(batch.data) = 0 /\ Len(batch.index) = 0
    BY <1>6
  <2>2. Size[arg] \in Nat
    BY Zenon, <1>6, ByteFacts
  <2>3. 0 + Size[arg] = Size[arg] /\ 0 + 1 = 1
    BY <2>2
  <2> QED BY Zenon, <1>8, <2>1, <2>3 DEF IsBuffered
<1>10. /\ mem'.headId = g /\ mem'.headBytes = 0 /\ mem'.items = mem.items /\ mem'.itemOffset = mem.itemOffset
       /\ mem'.itemHidden = mem.itemHidden /\ mem'.tailId = mem.tailId /\ mem' \in Fields
  BY Zenon, <1>1, <1>5, <1>7 DEF Fields
<1>11. /\ DataFiles(dat') /\ DOMAIN dat' = DOMAIN dat \cup {g} /\ dat'[g] = <<>>
       /\ \A f \in DOMAIN dat : f /= g => dat'[f] = dat[f]
  <2>1. <<>> \in Seq(Byte) /\ Len(<<>>) <= MaxFileSize
    BY SizeAssumption
  <2> DEFINE none == <<>>
  <2>2. none \in Seq(Byte) /\ Len(none) <= MaxFileSize /\ g \in Nat /\ dat' = WithFile(dat, g, none)
    BY Zenon, <1>1, <1>7, <2>1
  <2> HIDE DEF g, none
  <2>3. /\ DataFiles(WithFile(dat, g, none)) /\ DOMAIN WithFile(dat, g, none) = DOMAIN dat \cup {g}
        /\ WithFile(dat, g, none)[g] = none
        /\ \A f \in DOMAIN dat : f /= g => WithFile(dat, g, none)[f] = dat[f]
    BY ZenonT(40), <1>2, <2>2, WithFileFacts
  <2> QED BY Zenon, <2>2, <2>3 DEF none
<1>12. Backed(idx, dat', g)
  <2>1. LastEntry(idx).filenum <= g
    <3>1. h <= g
      BY <1>2, <1>7
    <3> QED BY Zenon, <1>6, <3>1
  <2>2. ASSUME NEW f \in idx[1].filenum .. g PROVE f \in DOMAIN dat'
    <3>1. f \in idx[1].filenum .. h \/ f = g
      BY <1>2, <1>7
    <3> QED BY Zenon, <1>2, <1>11, <3>1 DEF Backed, Held
  <2>3. ASSUME NEW k \in 2 .. Len(idx)
        PROVE  idx[k].filenum /= g /\ idx[k].offset <= Len(dat'[idx[k].filenum])
    <3>1. k \in 1 .. Len(idx)
      BY <1>2
    <3>2. idx[k].filenum \in Nat /\ idx[k].filenum <= h /\ idx[k].filenum \in DOMAIN dat
      BY Zenon, <1>2, <3>1, HeldFiles DEF Backed
    <3>3. idx[k].filenum /= g
      BY <1>2, <1>7, <3>2
    <3>4. dat'[idx[k].filenum] = dat[idx[k].filenum]
      BY Zenon, <1>11, <3>2, <3>3
    <3>5. idx[k].offset <= Len(dat[idx[k].filenum])
      BY Zenon, <1>2 DEF Backed, Held
    <3> QED BY Zenon, <3>3, <3>4, <3>5
  <2> QED BY Zenon, <1>7, <2>1, <2>2, <2>3 DEF Backed, Held
<1>13. BatchInv'
  <2>1. Size[arg] \in Nat /\ Size[arg] >= 1 /\ Size[arg] <= MaxFileSize
    BY Zenon, <1>6, ByteFacts
  <2>2. batch.cur = mem.items /\ batch'.cur = mem'.items + Len(batch'.index) /\ batch'.cur <= MaxItems
    BY <1>2, <1>6, <1>9, <1>10, SizeAssumption
  <2>3. mem'.headBytes + Len(batch'.data) = Size[arg]
    BY <1>9, <1>10, <2>1
  <2>4. ASSUME NEW k \in 1 .. Len(batch'.index)
        PROVE  /\ batch'.index[k].filenum = mem'.headId
               /\ mem'.headBytes < batch'.index[k].offset
               /\ batch'.index[k].offset <= mem'.headBytes + Len(batch'.data)
    <3>1. k = 1
      BY <1>9
    <3>2. 0 < Size[arg] /\ Size[arg] <= Size[arg]
      BY <2>1
    <3> QED BY Zenon, <1>9, <1>10, <2>3, <3>1, <3>2
  <2>5. \A k \in 2 .. Len(batch'.index) : FALSE
    BY <1>9
  <2> QED BY Zenon, <1>4, <1>6, <1>9, <1>10, <2>1, <2>2, <2>3, <2>4, <2>5 DEF BatchInv
<1>14. PcInv'
  <2>1. /\ mem.itemHidden = meta /\ idx[1].offset <= mem.itemHidden /\ mem.items <= MaxItems
        /\ mem.tailId <= idx[1].filenum /\ mem.itemOffset = idx[1].offset /\ mem.tailId = idx[1].filenum
        /\ mem.items = idx[1].offset + Len(idx) - 1 /\ mem.itemHidden <= mem.items
    BY Zenon, <1>2, <1>4 DEF PcInv
  <2>2. Len(dat'[mem'.headId]) = mem'.headBytes + 0
    <3>1. Len(<<>>) = 0 + 0
      OBVIOUS
    <3> QED BY Zenon, <1>10, <1>11, <3>1
  <2>3. mem'.headId = LastEntry(idx).filenum + 1 /\ mem'.headId /= LastEntry(idx).filenum
    BY Zenon, <1>6, <1>7, <1>10
  <2> QED BY Zenon, <1>1, <1>4, <1>10, <1>13, <2>1, <2>2, <2>3 DEF PcInv
<1>15. Types'
  <2>1. datSync' \in Nat
    BY <1>1
  <2> QED BY Zenon, <1>1, <1>4, <1>5, <1>9, <1>10, <1>11, <2>1 DEF Types
<1>16. mode' /= "down" /\ GoodIndex(idx') /\ Backed(idx', dat', mem'.headId)
  BY <1>1, <1>2, <1>10, <1>12
<1> QED BY Zenon, <1>14, <1>15, <1>16 DEF IInv, OpenInv, DownInv

\* The index is cut after the item before n.
LEMMA CutIndexStep ==
    ASSUME IInv, mode = "open", pc \in {"idle", "batch"}, NEW n \in Nat, CutIndex(n), mem.itemHidden <= n, n <= mem.items
    PROVE  IInv'
<1> DEFINE h == mem.headId
           m == n - mem.itemOffset + 1
<1>1. /\ idx' = SubSeq(idx, 1, m) /\ idxSync' = Len(idx') /\ pc' = "headFiles" /\ arg' = n /\ batch' = NoBatch
      /\ UNCHANGED <<dat, datSync, meta, metaOld, mem, mode, crashes>>
  BY Zenon DEF CutIndex
<1>2. /\ GoodIndex(idx) /\ Backed(idx, dat, h) /\ PcInv /\ h \in Nat
      /\ mem.items \in Nat /\ mem.itemHidden \in Nat /\ idx \in Seq(Entries) /\ Len(idx) \in Nat
      /\ idx[1].offset \in Nat /\ mem.itemOffset \in Nat /\ idx[1].filenum \in Nat
      /\ LastEntry(idx).filenum <= h /\ LastEntry(idx).filenum \in Nat
  BY Zenon, OpenFacts
<1>3. pc \notin CuttingHead /\ pc /= "tailFiles"
  BY DEF CuttingHead
<1>4. /\ mem.itemHidden = meta /\ idx[1].offset <= mem.itemHidden /\ mem.items <= MaxItems
      /\ mem.tailId <= idx[1].filenum /\ mem.itemOffset = idx[1].offset /\ mem.tailId = idx[1].filenum
      /\ mem.items = idx[1].offset + Len(idx) - 1
  BY Zenon, <1>2, <1>3 DEF PcInv
<1>5. m \in 1 .. Len(idx) /\ m \in Nat /\ m >= 1 /\ n = idx[1].offset + m - 1 /\ 1 \in 1 .. m /\ m \in 1 .. m
  <2> DEFINE o == idx[1].offset
             l == Len(idx)
             i == mem.items
             t == mem.itemHidden
             c == mem.itemOffset
  <2>1. o \in Nat /\ l \in Nat /\ i \in Nat /\ t \in Nat /\ i = o + l - 1 /\ o <= t /\ t <= n /\ n <= i /\ c = o
    BY Zenon, <1>2, <1>4
  <2> HIDE DEF o, l, i, t, c
  <2>2. n - c + 1 \in 1 .. l /\ n = o + (n - c + 1) - 1
    BY <2>1
  <2>3. m \in 1 .. Len(idx) /\ n = idx[1].offset + m - 1
    BY Zenon, <2>2 DEF o, l, c
  <2> HIDE DEF m
  <2> QED BY <1>2, <2>3
<1> HIDE DEF m
<1>6. /\ GoodIndex(idx') /\ idx' \in Seq(Entries) /\ Len(idx') = m /\ idx'[1] = idx[1]
      /\ \A k \in 1 .. m : idx'[k] = idx[k]
  BY Zenon, <1>1, <1>2, <1>5, PrefixFacts, PrefixGood
<1>7. LastEntry(idx').filenum <= h /\ LastEntry(idx').filenum \in Nat
  <2>1. LastEntry(idx').filenum = idx'[m].filenum /\ LastEntry(idx').filenum \in Nat
    BY Zenon, <1>5, <1>6, LastFacts
  <2>2. idx[m].filenum <= h
    BY Zenon, <1>2, <1>5, HeldFiles DEF Backed
  <2> QED BY Zenon, <1>5, <1>6, <2>1, <2>2
<1>8. ASSUME NEW k \in 2 .. m
      PROVE  idx'[k].offset <= Len(dat[idx'[k].filenum])
  <2>1. k \in 1 .. m /\ k \in 2 .. Len(idx)
    BY <1>2, <1>5
  <2> QED BY Zenon, <1>2, <1>6, <2>1 DEF Backed, Held
<1>9. Backed(idx', dat', mem'.headId)
  <2>1. dat' = dat /\ mem' = mem
    BY Zenon, <1>1
  <2>2. \A f \in idx'[1].filenum .. h : f \in DOMAIN dat
    BY Zenon, <1>2, <1>6 DEF Backed, Held
  <2> QED BY Zenon, <1>2, <1>6, <1>7, <1>8, <2>1, <2>2 DEF Backed, Held
<1>10. PcInv'
  <2>1. /\ pc' \in CuttingHead /\ pc' \notin Writing /\ pc' /= "tailFiles" /\ pc' /= "headData" /\ pc' /= "tailIndex"
    BY <1>1 DEF CuttingHead, Writing
  <2>2. /\ mem' = mem /\ meta' = meta /\ arg' = idx'[1].offset + Len(idx') - 1
    BY Zenon, <1>1, <1>5, <1>6
  <2>3. arg' = n
    BY Zenon, <1>1
  <2> QED BY Zenon, <1>4, <1>6, <2>1, <2>2, <2>3 DEF PcInv
<1>11. Types'
  <2>1. Types
    BY Zenon DEF IInv
  <2>2. idxSync' \in 1 .. Len(idx')
    BY Zenon, <1>1, <1>5, <1>6
  <2>3. pc' \in {"idle"} \cup Writing \cup CuttingHead \cup CuttingTail /\ mode' = "open"
    BY <1>1 DEF CuttingHead
  <2> QED BY Zenon, <1>1, <1>6, <2>1, <2>2, <2>3, NoBatchType DEF Types
<1>12. mode' /= "down"
  BY <1>1
<1> QED BY Zenon, <1>6, <1>9, <1>10, <1>11, <1>12 DEF IInv, OpenInv, DownInv

LEMMA truncateHeadStep ==
    ASSUME IInv, NEW n \in 0 .. MaxItems, truncateHead(n)
    PROVE  IInv'
<1>1. mode = "open" /\ pc = "idle" /\ n < mem.items /\ n >= mem.itemHidden /\ CutIndex(n)
  BY Zenon DEF truncateHead, Idle
<1>2. mem.items \in Nat /\ mem.itemHidden \in Nat
  BY Zenon, <1>1, OpenFacts
<1>3. n \in Nat /\ n <= mem.items /\ mem.itemHidden <= n
  BY <1>1, <1>2
<1> QED BY Zenon, <1>1, <1>3, CutIndexStep

LEMMA rollbackStep ==
    ASSUME IInv, rollback
    PROVE  IInv'
<1>1. mode = "open" /\ pc = "batch"
  BY Zenon DEF rollback
<1>2. PcInv /\ batch.prevItem \in Nat /\ mem.items \in Nat
  BY Zenon, <1>1, OpenFacts
<1>3. mem.itemHidden <= batch.prevItem /\ batch.prevItem <= mem.items
  BY <1>1, <1>2 DEF PcInv, BatchInv, Writing
<1>4. CASE batch.prevItem < mem.items
  <2>1. CutIndex(batch.prevItem)
    BY Zenon, <1>4 DEF rollback
  <2> DEFINE n == batch.prevItem
  <2>2. n \in Nat /\ CutIndex(n) /\ mem.itemHidden <= n /\ n <= mem.items
    BY Zenon, <1>2, <1>3, <2>1
  <2> HIDE DEF n
  <2> QED BY Zenon, <1>1, <2>2, CutIndexStep
<1>5. CASE ~(batch.prevItem < mem.items)
  <2>1. pc' = "idle" /\ batch' = NoBatch /\ UNCHANGED <<files, mem, mode, crashes>>
    BY Zenon, <1>5 DEF rollback
  <2>2. pc' \notin Writing
    BY <2>1 DEF Writing
  <2> QED BY Zenon, <1>1, <2>1, <2>2, BatchStep, NoBatchType
<1> QED BY <1>4, <1>5

LEMMA truncateHeadFilesStep ==
    ASSUME IInv, truncateHeadFiles
    PROVE  IInv'
<1> DEFINE h == mem.headId
           l == LastEntry(idx).filenum
           keep == {g \in DOMAIN dat : ~(Open(g) /\ g > l)}
<1>1. /\ mode = "open" /\ pc = "headFiles" /\ pc' = "headData" /\ dat' = [f \in keep |-> dat[f]]
      /\ mem' = [mem EXCEPT !.headId = l]
      /\ datSync' = IF l = h THEN datSync ELSE Len(File(dat, l))
      /\ UNCHANGED <<idx, idxSync, meta, metaOld, batch, arg, mode, crashes>>
  BY Zenon DEF truncateHeadFiles
<1>2. /\ GoodIndex(idx) /\ Backed(idx, dat, h) /\ PcInv /\ DataFiles(dat) /\ h \in Nat
      /\ idx \in Seq(Entries) /\ Len(idx) \in Nat /\ idx[1].filenum \in Nat /\ l \in Nat /\ l <= h
  BY Zenon, <1>1, OpenFacts
<1>3. mem \in Fields /\ Types
  BY Zenon DEF IInv, Types
<1> HIDE DEF l
<1>4. /\ mem'.headId = l /\ mem'.headBytes = mem.headBytes /\ mem'.items = mem.items /\ mem'.itemOffset = mem.itemOffset
      /\ mem'.itemHidden = mem.itemHidden /\ mem'.tailId = mem.tailId /\ mem' \in Fields
  BY Zenon, <1>1, <1>2, <1>3 DEF Fields
<1>5. DOMAIN dat' = keep /\ keep \subseteq DOMAIN dat /\ \A f \in keep : dat'[f] = dat[f]
  BY Zenon, <1>1
<1>6. ASSUME NEW f \in Nat, f \in DOMAIN dat, f <= l PROVE f \in keep
  <2>1. ~(f > l)
    BY <1>2, <1>6
  <2> QED BY Zenon, <1>6, <2>1
<1> HIDE DEF keep
<1>7. DataFiles(dat')
  BY Zenon, <1>2, <1>5 DEF DataFiles
<1>8. ASSUME NEW f \in idx[1].filenum .. l PROVE f \in DOMAIN dat'
  <2>1. f \in Nat /\ f <= l /\ f \in idx[1].filenum .. h
    BY <1>2
  <2>2. f \in DOMAIN dat
    BY Zenon, <1>2, <2>1 DEF Backed, Held
  <2> QED BY Zenon, <1>5, <1>6, <2>1, <2>2
<1>9. ASSUME NEW k \in 2 .. Len(idx) PROVE idx[k].offset <= Len(dat'[idx[k].filenum])
  <2>1. k \in 1 .. Len(idx)
    BY <1>2
  <2>2. idx[k].filenum \in Nat /\ idx[k].filenum \in DOMAIN dat /\ idx[k].filenum <= l
    BY Zenon, <1>2, <2>1, HeldFiles DEF Backed, l
  <2>3. dat'[idx[k].filenum] = dat[idx[k].filenum]
    BY Zenon, <1>5, <1>6, <2>2
  <2>4. idx[k].offset <= Len(dat[idx[k].filenum])
    BY Zenon, <1>2 DEF Backed, Held
  <2> QED BY Zenon, <2>3, <2>4
<1>10. Backed(idx', dat', mem'.headId)
  <2>1. l <= l
    BY <1>2
  <2> QED BY Zenon, <1>1, <1>2, <1>4, <1>8, <1>9, <2>1 DEF Backed, Held, l
<1>11. PcInv'
  <2>1. /\ pc \in CuttingHead /\ pc' \in CuttingHead /\ pc /= "tailFiles" /\ pc' /= "tailFiles" /\ pc' /= "tailIndex"
        /\ pc' \notin Writing
    BY <1>1 DEF CuttingHead, Writing
  <2>2. mem'.headId = LastEntry(idx').filenum
    BY Zenon, <1>1, <1>4 DEF l
  <2> QED BY Zenon, <1>1, <1>2, <1>4, <2>1, <2>2 DEF PcInv
<1>12. Types'
  <2>1. datSync' \in Nat
    BY Zenon, <1>1, <1>2, <1>3, FileFacts DEF Types
  <2>2. pc' \in {"idle"} \cup Writing \cup CuttingHead \cup CuttingTail /\ mode' = "open"
    BY <1>1 DEF CuttingHead
  <2> QED BY Zenon, <1>1, <1>3, <1>4, <1>7, <2>1, <2>2 DEF Types
<1>13. mode' /= "down" /\ GoodIndex(idx')
  BY <1>1, <1>2
<1> QED BY Zenon, <1>10, <1>11, <1>12, <1>13 DEF IInv, OpenInv, DownInv

LEMMA truncateHeadDataStep ==
    ASSUME IInv, truncateHeadData
    PROVE  IInv'
<1> DEFINE h == mem.headId
           e == LastEntry(idx)
           bs == SubSeq(dat[e.filenum], 1, e.offset)
<1>1. /\ mode = "open" /\ pc = "headData" /\ pc' = "idle" /\ dat' = [dat EXCEPT ![e.filenum] = bs]
      /\ datSync' = e.offset /\ mem' = [mem EXCEPT !.headBytes = e.offset, !.items = arg]
      /\ UNCHANGED <<idx, idxSync, meta, metaOld, batch, mode, crashes>>
  BY Zenon DEF truncateHeadData
<1>2. /\ GoodIndex(idx) /\ Backed(idx, dat, h) /\ PcInv /\ DataFiles(dat) /\ h \in Nat /\ h \in DOMAIN dat
      /\ idx \in Seq(Entries) /\ Len(idx) \in Nat /\ Len(idx) >= 1 /\ idx[1].offset \in Nat
      /\ dat[h] \in Seq(Byte) /\ Len(dat[h]) \in Nat /\ Len(dat[h]) <= MaxFileSize
      /\ mem.items \in Nat /\ mem.itemHidden \in Nat
      /\ e.filenum \in Nat /\ e.offset \in Nat
  BY Zenon, <1>1, OpenFacts
<1>3. mem \in Fields /\ Types /\ h = e.filenum
  BY Zenon, <1>1, <1>2 DEF IInv, Types, PcInv
<1>4. /\ mem.itemHidden = meta /\ idx[1].offset <= mem.itemHidden /\ mem.items <= MaxItems
      /\ mem.itemOffset = idx[1].offset /\ mem.tailId = idx[1].filenum /\ mem.tailId <= idx[1].filenum
      /\ arg = idx[1].offset + Len(idx) - 1 /\ mem.itemHidden <= arg /\ arg <= mem.items
  <2>1. pc \in CuttingHead /\ pc /= "tailFiles"
    BY <1>1 DEF CuttingHead
  <2> QED BY Zenon, <1>2, <2>1 DEF PcInv
<1>5. arg \in Nat /\ arg <= MaxItems
  BY SMTT(30), Z3T(30), <1>2, <1>4, SizeAssumption
<1>6. /\ Len(idx) = 1 => e.offset = 0
      /\ Len(idx) >= 2 => e = idx[Len(idx)]
  BY Zenon, <1>2, LastFacts
<1>7. e.offset \in 0 .. Len(dat[h])
  <2>1. CASE Len(idx) = 1
    BY <1>2, <1>6, <2>1
  <2>2. CASE Len(idx) /= 1
    <3>1. Len(idx) \in 2 .. Len(idx) /\ Len(idx) >= 2
      <4>1. \A l \in Nat : l >= 1 /\ l /= 1 => l \in 2 .. l /\ l >= 2
        OBVIOUS
      <4> QED BY Zenon, <1>2, <2>2, <4>1
    <3>2. e.offset <= Len(dat[h])
      BY Zenon, <1>2, <1>3, <1>6, <3>1 DEF Backed
    <3> QED BY <1>2, <3>2
  <2> QED BY <2>1, <2>2
<1>8. bs \in Seq(Byte) /\ Len(bs) = e.offset /\ Len(bs) <= MaxFileSize
  <2>1. SubSeq(dat[h], 1, e.offset) \in Seq(Byte) /\ Len(SubSeq(dat[h], 1, e.offset)) = e.offset
    BY Zenon, <1>2, <1>7, CutFacts
  <2>2. e.offset <= MaxFileSize
    BY <1>2, <1>7, SizeAssumption
  <2> QED BY Zenon, <1>3, <2>1, <2>2
<1> HIDE DEF bs, e, h
<1>9. SameButHead(dat, dat', h) /\ dat'[h] = bs
  BY Zenon, <1>1, <1>2, <1>3 DEF SameButHead
<1>10. DataFiles(dat')
  BY Zenon, <1>2, <1>8, <1>9 DEF DataFiles, SameButHead
<1>11. /\ mem'.headId = h /\ mem'.headBytes = e.offset /\ mem'.items = arg /\ mem'.itemOffset = mem.itemOffset
       /\ mem'.itemHidden = mem.itemHidden /\ mem'.tailId = mem.tailId /\ mem' \in Fields
  BY Zenon, <1>1, <1>2, <1>3, <1>5 DEF Fields, h
<1>12. Held(idx, dat', h)
  BY Zenon, <1>2, <1>9, HeadChange DEF Backed
<1>13. ASSUME NEW k \in 2 .. Len(idx), idx[k].filenum = h PROVE idx[k].offset <= Len(dat'[h])
  <2>1. k \in 1 .. Len(idx) /\ Len(idx) \in 1 .. Len(idx) /\ k <= Len(idx) /\ k >= 2 /\ Len(idx) >= 2
    BY <1>2
  <2>2. e = idx[Len(idx)]
    BY Zenon, <1>6, <2>1
  <2>3. idx[k].offset <= e.offset
    BY Zenon, <1>2, <1>3, <1>13, <2>1, <2>2, IndexOrder
  <2> QED BY Zenon, <1>8, <1>9, <2>3
<1>14. Backed(idx', dat', mem'.headId)
  BY Zenon, <1>1, <1>11, <1>12, <1>13 DEF Backed
<1>15. PcInv'
  <2>1. /\ pc' \notin CuttingHead /\ pc' /= "tailFiles" /\ pc' /= "tailIndex" /\ pc' /= "headData"
        /\ pc' \notin Writing /\ pc' \notin Indexing
    BY <1>1 DEF CuttingHead, Writing, Indexing
  <2>2. mem'.headId = LastEntry(idx').filenum /\ LastEntry(idx').offset <= mem'.headBytes
    <3>1. e.offset <= e.offset
      <4>1. \A x \in Nat : x <= x
        OBVIOUS
      <4> QED BY Zenon, <1>2, <4>1
    <3> QED BY Zenon, <1>1, <1>3, <1>11, <3>1 DEF e
  <2>3. Len(dat'[mem'.headId]) = mem'.headBytes + 0
    BY <1>2, <1>8, <1>9, <1>11
  <2> QED BY Zenon, <1>1, <1>4, <1>5, <1>11, <2>1, <2>2, <2>3 DEF PcInv
<1>16. Types'
  <2>1. pc' \in {"idle"} \cup Writing \cup CuttingHead \cup CuttingTail
    BY <1>1
  <2> QED BY Zenon, <1>1, <1>2, <1>3, <1>10, <1>11, <2>1 DEF Types
<1>17. mode' /= "down" /\ GoodIndex(idx')
  BY <1>1, <1>2
<1> QED BY Zenon, <1>14, <1>15, <1>16, <1>17 DEF IInv, OpenInv, DownInv

LEMMA truncateTailStep ==
    ASSUME IInv, NEW n \in 0 .. MaxItems, truncateTail(n)
    PROVE  IInv'
<1>1. /\ mode = "open" /\ pc = "idle" /\ mem.itemHidden < n /\ n <= mem.items
      /\ mem' = [mem EXCEPT !.itemHidden = n] /\ meta' = n /\ metaOld' = metaOld \cup {meta}
      /\ \/ mem.tailId = NewTailId(n) /\ pc' = pc
         \/ mem.tailId /= NewTailId(n) /\ pc' = "tailIndex" /\ arg' = n
      /\ UNCHANGED <<idx, idxSync, dat, datSync, batch, mode, crashes>>
  BY Zenon DEF truncateTail, Idle
<1>2. /\ GoodIndex(idx) /\ Backed(idx, dat, mem.headId) /\ PcInv /\ idx[1].offset \in Nat
      /\ mem.items \in Nat /\ mem.itemHidden \in Nat
  BY Zenon, <1>1, OpenFacts
<1>3. mem \in Fields /\ Types
  BY Zenon DEF IInv, Types
<1>4. n \in Nat
  BY SizeAssumption
<1>5. /\ mem'.headId = mem.headId /\ mem'.headBytes = mem.headBytes /\ mem'.items = mem.items
      /\ mem'.itemOffset = mem.itemOffset /\ mem'.itemHidden = n /\ mem'.tailId = mem.tailId /\ mem' \in Fields
  BY Zenon, <1>1, <1>3, <1>4 DEF Fields
<1>6. /\ pc \notin CuttingHead /\ pc /= "tailFiles" /\ pc \notin Indexing
      /\ pc' \notin CuttingHead /\ pc' /= "tailFiles" /\ pc' \notin Indexing /\ pc' \notin Writing /\ pc' /= "headData"
      /\ pc' \in {"idle"} \cup CuttingTail
  BY <1>1 DEF CuttingHead, CuttingTail, Indexing, Writing
<1>7. idx[1].offset <= n /\ mem.itemOffset < n
  <2>1. idx[1].offset <= mem.itemHidden /\ mem.itemOffset = idx[1].offset
    BY Zenon, <1>2, <1>6 DEF PcInv
  <2> QED BY <1>1, <1>2, <1>4, <2>1
<1>8. pc' = "tailIndex" => arg' = n /\ mem.tailId /= NewTailId(n)
  BY <1>1
<1>9. NewTailId(n)' = NewTailId(n) /\ (arg' = n => NewTailId(arg)' = NewTailId(n))
  <2>1. idx' = idx /\ mem'.items = mem.items /\ mem'.headId = mem.headId /\ mem'.itemOffset = mem.itemOffset
    BY Zenon, <1>1, <1>5
  <2> QED BY <2>1 DEF NewTailId
<1>10. PcInv'
  <2>1. mem'.itemHidden = meta'
    BY Zenon, <1>1, <1>5
  <2> QED BY Zenon, <1>1, <1>2, <1>5, <1>6, <1>7, <1>8, <1>9, <2>1 DEF PcInv
<1>11. Types'
  BY Zenon, <1>1, <1>3, <1>5, <1>6 DEF Types
<1>12. mode' /= "down" /\ GoodIndex(idx') /\ Backed(idx', dat', mem'.headId)
  BY <1>1, <1>2, <1>5
<1> QED BY Zenon, <1>10, <1>11, <1>12 DEF IInv, OpenInv, DownInv

LEMMA truncateTailFilesStep ==
    ASSUME IInv, truncateTailFiles
    PROVE  IInv'
<1> DEFINE h == mem.headId
           l == idx[1].filenum
           keep == {g \in DOMAIN dat : ~(Open(g) /\ g < l)}
<1>1. /\ mode = "open" /\ pc = "tailFiles" /\ pc' = "idle" /\ dat' = [f \in keep |-> dat[f]]
      /\ mem' = [mem EXCEPT !.tailId = l, !.itemOffset = idx[1].offset]
      /\ UNCHANGED <<idx, idxSync, datSync, meta, metaOld, batch, mode, crashes>>
  BY Zenon DEF truncateTailFiles
<1>2. /\ GoodIndex(idx) /\ Backed(idx, dat, h) /\ PcInv /\ DataFiles(dat) /\ h \in Nat
      /\ idx \in Seq(Entries) /\ Len(idx) \in Nat /\ l \in Nat /\ idx[1].offset \in Nat
      /\ l <= LastEntry(idx).filenum /\ LastEntry(idx).filenum <= h /\ LastEntry(idx).filenum \in Nat
  BY Zenon, <1>1, OpenFacts
<1>3. mem \in Fields /\ Types
  BY Zenon DEF IInv, Types
<1>4. /\ mem'.headId = h /\ mem'.headBytes = mem.headBytes /\ mem'.items = mem.items /\ mem'.itemOffset = idx[1].offset
      /\ mem'.itemHidden = mem.itemHidden /\ mem'.tailId = l /\ mem' \in Fields
  BY Zenon, <1>1, <1>2, <1>3 DEF Fields
<1>5. DOMAIN dat' = keep /\ keep \subseteq DOMAIN dat /\ \A f \in keep : dat'[f] = dat[f]
  BY Zenon, <1>1
<1>6. ASSUME NEW f \in Nat, f \in DOMAIN dat, l <= f PROVE f \in keep
  <2>1. ~(f < l)
    BY <1>2, <1>6
  <2> QED BY Zenon, <1>6, <2>1
<1> HIDE DEF keep
<1>7. DataFiles(dat')
  BY Zenon, <1>2, <1>5 DEF DataFiles
<1>8. ASSUME NEW f \in l .. h PROVE f \in DOMAIN dat'
  <2>1. f \in Nat /\ l <= f
    BY <1>2
  <2>2. f \in DOMAIN dat
    BY Zenon, <1>2 DEF Backed, Held
  <2> QED BY Zenon, <1>5, <1>6, <2>1, <2>2
<1>9. ASSUME NEW k \in 2 .. Len(idx) PROVE idx[k].offset <= Len(dat'[idx[k].filenum])
  <2>1. k \in 1 .. Len(idx)
    BY <1>2
  <2>2. idx[k].filenum \in Nat /\ idx[k].filenum \in DOMAIN dat /\ l <= idx[k].filenum
    BY Zenon, <1>2, <2>1, HeldFiles DEF Backed
  <2>3. dat'[idx[k].filenum] = dat[idx[k].filenum]
    BY Zenon, <1>5, <1>6, <2>2
  <2>4. idx[k].offset <= Len(dat[idx[k].filenum])
    BY Zenon, <1>2 DEF Backed, Held
  <2> QED BY Zenon, <2>3, <2>4
<1>10. Backed(idx', dat', mem'.headId)
  BY Zenon, <1>1, <1>2, <1>4, <1>8, <1>9 DEF Backed, Held
<1>11. dat'[h] = dat[h]
  <2>1. h \in l .. h /\ l <= h
    BY <1>2
  <2>2. h \in keep
    BY Zenon, <1>5, <1>8, <2>1
  <2> QED BY Zenon, <1>5, <2>2
<1>12. PcInv'
  <2>1. /\ pc \notin CuttingHead /\ pc \notin Indexing /\ pc' \notin CuttingHead /\ pc' /= "tailFiles" /\ pc' /= "tailIndex"
        /\ pc' \notin Writing /\ pc' \notin Indexing /\ pc' /= "headData"
    BY <1>1 DEF CuttingHead, Writing, Indexing
  <2>2. l <= l
    BY <1>2
  <2> QED BY Zenon, <1>1, <1>2, <1>4, <1>11, <2>1, <2>2 DEF PcInv
<1>13. Types'
  <2>1. pc' \in {"idle"} \cup Writing \cup CuttingHead \cup CuttingTail
    BY <1>1
  <2> QED BY Zenon, <1>1, <1>3, <1>4, <1>7, <2>1 DEF Types
<1>14. mode' /= "down" /\ GoodIndex(idx')
  BY <1>1, <1>2
<1> QED BY Zenon, <1>10, <1>12, <1>13, <1>14 DEF IInv, OpenInv, DownInv

\* q is s with x before it.
IsPrepended(q, x, s) ==
    /\ Len(q) = Len(s) + 1 /\ q[1] = x
    /\ \A k \in 1 .. Len(s) : q[1 + k] = s[k]

LEMMA PrependFacts ==
    ASSUME NEW S, NEW x \in S, NEW s \in Seq(S)
    PROVE  <<x>> \o s \in Seq(S) /\ IsPrepended(<<x>> \o s, x, s)
BY DEF IsPrepended

\* The index after a tail truncation: a new first entry, then the old entries
\* from position p on, the first of which lies in the new tail file.
IsTailCut(J, I, t, d, p) ==
    /\ GoodIndex(J) /\ J[1].filenum = t /\ J[1].offset = d /\ Len(J) = Len(I) - p + 2
    /\ \A k \in 2 .. Len(J) : \E m \in 2 .. Len(I) : J[k] = I[m]
    /\ \A k \in 2 .. Len(J) : p + k - 2 \in 2 .. Len(I) /\ J[k] = I[p + k - 2]
    /\ Len(J) = 1 => LastEntry(J).filenum = t /\ LastEntry(J).offset = 0
    /\ Len(J) /= 1 => LastEntry(J) = LastEntry(I)

LEMMA TailIndex ==
    ASSUME NEW I, GoodIndex(I), NEW t \in Nat, t /= 0, NEW d \in Nat, NEW p \in 2 .. Len(I) + 1,
           p <= Len(I) => I[p].filenum = t
    PROVE  IsTailCut(<<Entry(t, d)>> \o SubSeq(I, p, Len(I)), I, t, d, p)
<1> DEFINE J == <<Entry(t, d)>> \o SubSeq(I, p, Len(I))
<1> DEFINE n == Len(I)
           R == SubSeq(I, p, Len(I))
           e == Entry(t, d)
<1>0. I \in Seq(Entries) /\ n \in Nat /\ n >= 1 /\ p \in Nat /\ p >= 2 /\ p <= n + 1
  BY DEF GoodIndex
<1>1. R \in Seq(Entries) /\ Len(R) = n - p + 1 /\ \A j \in 1 .. n - p + 1 : R[j] = I[p + j - 1]
  BY <1>0
<1>2. e \in Entries /\ e.filenum = t /\ e.offset = d
  BY DEF Entry, Entries
<1> HIDE DEF R, e
<1>3. J = <<e>> \o R
  BY Zenon DEF R, e
<1> HIDE DEF J
<1>4. J \in Seq(Entries) /\ Len(J) = n - p + 2 /\ J[1] = e /\ \A k \in 2 .. n - p + 2 : J[k] = I[p + k - 2]
  <2>1. J \in Seq(Entries) /\ Len(J) = Len(R) + 1 /\ J[1] = e /\ \A k \in 1 .. Len(R) : J[1 + k] = R[k]
    <3>1. <<e>> \o R \in Seq(Entries) /\ IsPrepended(<<e>> \o R, e, R)
      BY <1>1, <1>2, PrependFacts
    <3> QED BY Zenon, <1>3, <3>1 DEF IsPrepended
  <2>3. J \in Seq(Entries) /\ Len(J) = n - p + 2
    BY <1>0, <1>1, <2>1
  <2>4. J[1] = e
    BY Zenon, <2>1
  <2>5. ASSUME NEW k \in 2 .. n - p + 2 PROVE J[k] = I[p + k - 2]
    <3>1. k - 1 \in 1 .. n - p + 1 /\ k = 1 + (k - 1) /\ p + (k - 1) - 1 = p + k - 2
      BY <1>0
    <3>2. J[k] = R[k - 1]
      BY Zenon, <1>1, <2>1, <3>1
    <3> QED BY Zenon, <1>1, <3>1, <3>2
  <2> QED BY Zenon, <2>3, <2>4, <2>5
<1>5. ASSUME NEW k \in 2 .. n - p + 2
      PROVE  p + k - 2 \in 2 .. n /\ J[k] = I[p + k - 2]
  <2>1. p + k - 2 \in 2 .. n
    BY <1>0
  <2> QED BY Zenon, <1>4, <2>1
<1>6. ASSUME NEW k \in 2 .. n - p + 2
      PROVE  IndexItemOK(J, k) /\ J[k].offset > 0
  <2>1. p + k - 2 \in 2 .. n /\ J[k] = I[p + k - 2]
    BY Zenon, <1>5
  <2>2. IndexItemOK(I, p + k - 2) /\ I[p + k - 2].offset > 0
    BY Zenon, <2>1 DEF GoodIndex
  <2>3. CASE k = 2
    <3>1. p + k - 2 = p /\ p <= n
      BY <1>0, <2>1, <2>3
    <3>2. J[2].filenum = t /\ J[1].filenum = t
      BY Zenon, <1>2, <1>4, <2>1, <2>3, <3>1
    <3> QED BY Zenon, <2>1, <2>2, <2>3, <3>2 DEF IndexItemOK
  <2>4. CASE k /= 2
    <3>1. k - 1 \in 2 .. n - p + 2 /\ p + (k - 1) - 2 = (p + k - 2) - 1 /\ p + k - 2 /= 2
      BY <1>0, <2>4
    <3>2. J[k - 1] = I[(p + k - 2) - 1]
      BY Zenon, <1>5, <3>1
    <3>3. checkIndexItems(I[(p + k - 2) - 1], I[p + k - 2])
      BY Zenon, <2>2, <3>1 DEF IndexItemOK
    <3> QED BY Zenon, <2>1, <2>2, <2>4, <3>2, <3>3 DEF IndexItemOK
  <2> QED BY <2>3, <2>4
<1>7. Len(J) >= 1 /\ Len(J) \in Nat /\ (Len(J) /= 1 => Len(J) >= 2 /\ Len(J) \in 2 .. n - p + 2 /\ p + Len(J) - 2 = n /\ n >= 2)
  BY <1>0, <1>4
<1>8. GoodIndex(J)
  BY Zenon, <1>2, <1>4, <1>6, <1>7 DEF GoodIndex
<1>9. \A k \in 2 .. Len(J) : \E m \in 2 .. Len(I) : J[k] = I[m]
  BY Zenon, <1>4, <1>5
<1>10. Len(J) = 1 => LastEntry(J).filenum = t /\ LastEntry(J).offset = 0
  BY Zenon, <1>2, <1>4, <1>7, LastFacts
<1>11. ASSUME Len(J) /= 1 PROVE LastEntry(J) = LastEntry(I)
  <2>1. LastEntry(J) = J[Len(J)]
    BY Zenon, <1>4, <1>7, <1>11, LastFacts
  <2>2. LastEntry(I) = I[n]
    BY Zenon, <1>0, <1>7, <1>11, LastFacts
  <2> QED BY Zenon, <1>5, <1>7, <1>11, <2>1, <2>2
<1>12. \A k \in 2 .. Len(J) : p + k - 2 \in 2 .. Len(I) /\ J[k] = I[p + k - 2]
  BY Zenon, <1>4, <1>5
<1> QED BY Zenon, <1>2, <1>4, <1>8, <1>9, <1>10, <1>11, <1>12 DEF IsTailCut, J

\* The tail file and the first item that the shortened index starts with.
LEMMA NewTail ==
    ASSUME IInv, mode = "open", pc = "tailIndex"
    PROVE  LET n == arg  t == NewTailId(n)  d == NewDeleted(n)  p == d - mem.itemOffset + 2 IN
           /\ n \in Nat /\ n <= mem.items
           /\ t \in Nat /\ mem.tailId < t /\ t <= mem.headId
           /\ n = mem.items => t = mem.headId
           /\ d \in Nat /\ mem.itemOffset <= d /\ d <= n
           /\ p \in 2 .. Len(idx) + 1
           /\ p <= Len(idx) => idx[p].filenum = t
           /\ p > 2 => idx[p - 1].filenum /= t
<1> DEFINE n == arg
           t == NewTailId(n)
           d == NewDeleted(n)
           o == mem.itemOffset
           L == Len(idx)
           S == {n} \cup {c \in o .. n - 1 : \A k \in c .. n - 1 : idx[k - o + 2].filenum = t}
<1>1. /\ GoodIndex(idx) /\ Held(idx, dat, mem.headId) /\ PcInv /\ mem.items \in Nat /\ o \in Nat /\ L \in Nat /\ L >= 1
      /\ idx \in Seq(Entries) /\ mem.headId \in Nat /\ mem.itemHidden \in Nat /\ mem.tailId \in Nat
      /\ idx[1].filenum <= LastEntry(idx).filenum /\ LastEntry(idx).filenum <= mem.headId
      /\ LastEntry(idx).filenum \in Nat
  BY Zenon, OpenFacts DEF Backed
<1>2. /\ o = idx[1].offset /\ mem.tailId = idx[1].filenum /\ n = mem.itemHidden /\ o < n /\ mem.tailId /= t
      /\ mem.items = o + L - 1 /\ mem.itemHidden <= mem.items
  <2>1. pc \notin CuttingHead /\ pc /= "tailFiles"
    BY DEF CuttingHead
  <2> QED BY Zenon, <1>1, <2>1 DEF PcInv
<1>3. n \in Nat /\ n <= mem.items
  BY Zenon, <1>1, <1>2
<1>4. n = mem.items => t = mem.headId
  BY Zenon DEF NewTailId
<1>5. n /= mem.items => n - o + 2 \in 1 .. L /\ t = idx[n - o + 2].filenum
  <2>1. n /= mem.items => n - o + 2 \in 1 .. L
    <3> DEFINE i == mem.items
    <3>1. n \in Nat /\ o \in Nat /\ L \in Nat /\ o < n /\ n <= i /\ i = o + L - 1 /\ i \in Nat
      BY Zenon, <1>1, <1>2, <1>3
    <3> HIDE DEF n, o, L, i
    <3>2. n /= i => n - o + 2 \in 1 .. L
      BY <3>1
    <3> QED BY Zenon, <3>2 DEF i
  <2> QED BY Zenon, <2>1 DEF NewTailId
<1> HIDE DEF t
<1>6. t \in Nat /\ mem.tailId <= t /\ t <= mem.headId
  <2>1. CASE n = mem.items
    <3>1. mem.tailId <= mem.headId
      BY <1>1, <1>2
    <3>2. mem.headId <= mem.headId
      BY <1>1
    <3> QED BY Zenon, <1>1, <1>4, <2>1, <3>1, <3>2
  <2>2. CASE n /= mem.items
    BY Zenon, <1>1, <1>2, <1>5, <2>2, HeldFiles
  <2> QED BY <2>1, <2>2
<1>7. mem.tailId < t
  BY <1>1, <1>2, <1>6
<1>8. d = Min(S)
  BY Zenon DEF NewDeleted, t
<1>9. S \in SUBSET Nat /\ S # {} /\ \A c \in S : o <= c /\ c <= n
  BY <1>1, <1>2, <1>3
<1>10. d \in S
  BY ZenonT(40), <1>8, <1>9, MinFacts
<1>11. d \in Nat /\ o <= d /\ d <= n
  BY Zenon, <1>9, <1>10
<1> HIDE DEF d, o, n
<1>12. d - o + 2 \in 2 .. L + 1
  <2> DEFINE i == mem.items
  <2>1. /\ n \in Nat /\ o \in Nat /\ L \in Nat /\ d \in Nat /\ i \in Nat
        /\ o <= d /\ d <= n /\ n <= i /\ i = o + L - 1
    BY Zenon, <1>1, <1>2, <1>3, <1>11
  <2> HIDE DEF i, L
  <2> QED BY <2>1
<1>13. ASSUME d - o + 2 <= L PROVE idx[d - o + 2].filenum = t
  <2>1. CASE d = n
    <3>1. n /= mem.items
      BY <1>1, <1>2, <1>3, <1>13, <2>1
    <3> QED BY Zenon, <1>5, <2>1, <3>1
  <2>2. CASE d /= n
    <3>1. d \in d .. n - 1
      BY <1>3, <1>11, <2>2
    <3>2. \A k \in d .. n - 1 : idx[k - o + 2].filenum = t
      BY Zenon, <1>10, <2>2
    <3> QED BY Zenon, <3>1, <3>2
  <2> QED BY <2>1, <2>2
<1>14. ASSUME d - o + 2 > 2, idx[(d - o + 2) - 1].filenum = t PROVE FALSE
  <2>1. d - 1 \in o .. n - 1 /\ ~(d <= d - 1) /\ (d - 1) - o + 2 = (d - o + 2) - 1
    BY <1>1, <1>3, <1>11, <1>14
  <2>2. ASSUME NEW k \in d - 1 .. n - 1 PROVE idx[k - o + 2].filenum = t
    <3>1. CASE k = d - 1
      BY Zenon, <1>14, <2>1, <3>1
    <3>2. CASE k /= d - 1
      <4>1. k \in d .. n - 1 /\ d /= n
        BY <1>3, <1>11, <3>2
      <4> QED BY Zenon, <1>10, <4>1
    <3> QED BY <3>1, <3>2
  <2>3. d - 1 \in S
    BY Zenon, <2>1, <2>2
  <2>4. d <= d - 1
    BY Zenon, <1>8, <1>9, <2>3, MinFacts
  <2> QED BY <2>1, <2>4
<1> QED BY Zenon, <1>3, <1>4, <1>6, <1>7, <1>11, <1>12, <1>13, <1>14 DEF n, t, d, o

LEMMA truncateTailIndexStep ==
    ASSUME IInv, truncateTailIndex
    PROVE  IInv'
<1> DEFINE h == mem.headId
           n == arg
           t == NewTailId(n)
           d == NewDeleted(n)
           o == mem.itemOffset
           p == d - o + 2
           L == Len(idx)
           J == idx'
<1>1. /\ mode = "open" /\ pc = "tailIndex" /\ pc' = "tailFiles" /\ J = <<Entry(t, d)>> \o SubSeq(idx, p, L)
      /\ idxSync' = Len(J) /\ metaOld' = {}
      /\ UNCHANGED <<dat, datSync, meta, mem, batch, mode, crashes>>
  BY Zenon DEF truncateTailIndex
<1>2. /\ GoodIndex(idx) /\ Backed(idx, dat, h) /\ PcInv /\ DataFiles(dat) /\ h \in Nat /\ mem.headBytes \in Nat
      /\ L \in Nat /\ mem.items \in Nat /\ mem.tailId \in Nat /\ o \in Nat
  BY Zenon, <1>1, OpenFacts
<1>3. /\ n \in Nat /\ n <= mem.items /\ t \in Nat /\ mem.tailId < t /\ t <= h /\ (n = mem.items => t = h)
      /\ d \in Nat /\ o <= d /\ d <= n /\ p \in 2 .. L + 1 /\ (p <= L => idx[p].filenum = t)
  BY Zenon, <1>1, NewTail
<1>4. /\ o = idx[1].offset /\ mem.tailId = idx[1].filenum /\ n = mem.itemHidden /\ mem.itemHidden = meta
      /\ mem.items = o + L - 1 /\ mem.items <= MaxItems
      /\ h \in {LastEntry(idx).filenum, LastEntry(idx).filenum + 1}
      /\ h = LastEntry(idx).filenum \/ mem.headBytes = 0
      /\ h = LastEntry(idx).filenum => LastEntry(idx).offset <= mem.headBytes
      /\ Len(dat[h]) = mem.headBytes + 0
  <2>1. pc \notin CuttingHead /\ pc /= "tailFiles" /\ pc \notin Indexing
    BY <1>1 DEF CuttingHead, Indexing
  <2> QED BY Zenon, <1>1, <1>2, <2>1 DEF PcInv
<1> HIDE DEF h, n, t, d, o, p, L, J
<1>5. t /= 0 /\ p \in Nat
  BY <1>2, <1>3
<1>6. /\ GoodIndex(J) /\ J[1].filenum = t /\ J[1].offset = d /\ Len(J) = L - p + 2
      /\ \A k \in 2 .. Len(J) : \E m \in 2 .. L : J[k] = idx[m]
      /\ Len(J) = 1 => LastEntry(J).filenum = t /\ LastEntry(J).offset = 0
      /\ Len(J) /= 1 => LastEntry(J) = LastEntry(idx)
  <2>1. IsTailCut(<<Entry(t, d)>> \o SubSeq(idx, p, L), idx, t, d, p)
    BY Zenon, <1>2, <1>3, <1>5, TailIndex DEF L
  <2> QED BY Zenon, <1>1, <2>1 DEF IsTailCut, L
<1> DEFINE z == Len(J)
           i == mem.items
<1>7. z = L - d + o /\ i = d + z - 1 /\ z \in Nat /\ z \in 1 .. z /\ (z = 1 => n = i)
  <2>1. /\ z = L - (d - o + 2) + 2 /\ i = o + L - 1 /\ L \in Nat /\ d \in Nat /\ o \in Nat /\ i \in Nat /\ n \in Nat
        /\ o <= d /\ d <= n /\ n <= i
    BY Zenon, <1>2, <1>3, <1>4, <1>6 DEF p
  <2> HIDE DEF z, i
  <2> QED BY <2>1
<1>8. Len(J) = 1 => LastEntry(J).filenum = h
  <2>1. Len(J) = 1 => n = mem.items
    BY Zenon, <1>7
  <2> QED BY Zenon, <1>3, <1>6, <2>1
<1>9. /\ h \in {LastEntry(J).filenum, LastEntry(J).filenum + 1}
      /\ h = LastEntry(J).filenum \/ mem.headBytes = 0
      /\ h = LastEntry(J).filenum => LastEntry(J).offset <= mem.headBytes
      /\ LastEntry(J).filenum <= h
  <2>1. CASE Len(J) = 1
    <3>1. LastEntry(J).filenum = h /\ LastEntry(J).offset = 0
      BY Zenon, <1>6, <1>8, <2>1
    <3>2. h <= h /\ 0 <= mem.headBytes
      BY <1>2
    <3> QED BY Zenon, <3>1, <3>2
  <2>2. CASE Len(J) /= 1
    BY Zenon, <1>2, <1>4, <1>6, <2>2 DEF Backed, Held, h
  <2> QED BY <2>1, <2>2
<1>10. ASSUME NEW f \in t .. h PROVE f \in DOMAIN dat
  <2>1. f \in idx[1].filenum .. h
    BY <1>2, <1>3, <1>4
  <2> QED BY Zenon, <1>2, <2>1 DEF Backed, Held, h
<1>11. Backed(J, dat, h)
  BY Zenon, <1>2, <1>6, <1>9, <1>10 DEF Backed, Held, L
<1>12. PcInv'
  <2>1. /\ pc' \notin CuttingHead /\ pc' /= "tailIndex" /\ pc' \notin Writing /\ pc' \notin Indexing /\ pc' /= "headData"
    BY <1>1 DEF CuttingHead, Writing, Indexing
  <2>2. mem.tailId <= t
    BY <1>2, <1>3
  <2> QED BY Zenon, <1>1, <1>3, <1>4, <1>6, <1>7, <1>9, <2>1, <2>2 DEF PcInv, J, h, n
<1>13. Types'
  <2>1. pc' \in {"idle"} \cup Writing \cup CuttingHead \cup CuttingTail
    BY <1>1 DEF CuttingTail
  <2>2. d <= MaxItems
    BY <1>2, <1>3, <1>4, SizeAssumption
  <2>3. J \in Seq(Entries)
    BY Zenon, <1>6 DEF GoodIndex
  <2>4. Types
    BY Zenon DEF IInv
  <2> QED BY Zenon, <1>1, <1>6, <1>7, <2>1, <2>2, <2>3, <2>4 DEF Types, J
<1>14. mode' /= "down"
  BY <1>1
<1> QED BY Zenon, <1>1, <1>6, <1>11, <1>12, <1>13, <1>14 DEF IInv, OpenInv, DownInv, J, h

LEMMA SyncStep ==
    ASSUME IInv, Sync
    PROVE  IInv'
<1>1. /\ mode = "open" /\ idxSync' = Len(idx) /\ datSync' = Len(dat[mem.headId]) /\ metaOld' = {}
      /\ UNCHANGED <<idx, dat, meta, mem, batch, pc, arg, mode, crashes>>
  BY Zenon DEF Sync, Flush
<1>2. /\ GoodIndex(idx) /\ Backed(idx, dat, mem.headId) /\ PcInv /\ Types
      /\ Len(idx) \in Nat /\ Len(idx) >= 1 /\ Len(dat[mem.headId]) \in Nat
  BY Zenon, <1>1, OpenFacts DEF IInv
<1>3. Len(idx) \in 1 .. Len(idx)
  BY <1>2
<1>4. Types'
  BY Zenon, <1>1, <1>2, <1>3 DEF Types
<1>5. BatchInv <=> BatchInv'
  BY <1>1 DEF BatchInv
<1>6. NewTailId(arg)' = NewTailId(arg)
  BY <1>1 DEF NewTailId
<1>7. PcInv'
  BY Zenon, <1>1, <1>2, <1>5, <1>6 DEF PcInv
<1>8. mode' /= "down" /\ GoodIndex(idx') /\ Backed(idx', dat', mem'.headId)
  BY <1>1, <1>2
<1> QED BY Zenon, <1>4, <1>7, <1>8 DEF IInv, OpenInv, DownInv

\* An open table's index never ends beyond the bound on items.
LEMMA IndexBound ==
    ASSUME IInv, mode = "open"
    PROVE  idx[1].offset + Len(idx) - 1 <= MaxItems
<1>1. PcInv /\ mem.items \in Nat /\ Len(idx) \in Nat /\ idx[1].offset \in Nat
  BY Zenon, OpenFacts
<1>2. CASE pc \in CuttingHead
  BY <1>1, <1>2, SizeAssumption DEF PcInv
<1>3. CASE pc \notin CuttingHead
  BY <1>1, <1>3, SizeAssumption DEF PcInv
<1> QED BY <1>2, <1>3

LEMMA CloseStep ==
    ASSUME IInv, Close
    PROVE  IInv'
<1>1. /\ mode = "open" /\ pc = "idle" /\ idxSync' = Len(idx) /\ datSync' = Len(dat[mem.headId]) /\ metaOld' = {}
      /\ mode' = "down" /\ UNCHANGED <<idx, dat, meta, mem, batch, pc, arg, crashes>>
  BY Zenon DEF Close, Flush, Idle
<1>2. /\ GoodIndex(idx) /\ Held(idx, dat, mem.headId) /\ Types /\ mem.headId \in DOMAIN dat
      /\ Len(idx) \in Nat /\ Len(idx) >= 1 /\ Len(dat[mem.headId]) \in Nat
  BY Zenon, <1>1, OpenFacts DEF IInv, Backed
<1>3. Len(idx) \in 1 .. Len(idx)
  BY <1>2
<1>4. Types'
  BY Zenon, <1>1, <1>2, <1>3 DEF Types
<1>5. repairIndex(idx) = idx
  BY Zenon, <1>2, RepairIndexKeeps
<1>6. idx[1].offset + Len(idx) - 1 <= MaxItems
  BY Zenon, <1>1, IndexBound
<1>7. DownInv'
  BY Zenon, <1>1, <1>2, <1>5, <1>6 DEF DownInv
<1>8. mode' /= "open"
  BY <1>1
<1> QED BY Zenon, <1>4, <1>7, <1>8 DEF IInv, OpenInv

LEMMA HeldPrefix ==
    ASSUME NEW I, GoodIndex(I), NEW D, NEW h, Held(I, D, h), NEW n \in 1 .. Len(I)
    PROVE  Held(SubSeq(I, 1, n), D, h)
<1> DEFINE J == SubSeq(I, 1, n)
<1>0. I \in Seq(Entries) /\ Len(I) \in Nat /\ n \in Nat /\ n >= 1 /\ n \in 1 .. n /\ 1 \in 1 .. n /\ h \in Nat
  BY DEF GoodIndex, Held
<1>1. J \in Seq(Entries) /\ Len(J) = n /\ \A k \in 1 .. n : J[k] = I[k]
  BY <1>0, PrefixFacts
<1>2. J[1] = I[1] /\ J[n] = I[n]
  BY Zenon, <1>0, <1>1
<1> HIDE DEF J
<1>3. LastEntry(J).filenum <= h
  <2>1. LastEntry(J).filenum = I[n].filenum
    BY Zenon, <1>0, <1>1, <1>2, LastFacts
  <2> QED BY Zenon, <2>1, HeldFiles
<1>4. ASSUME NEW k \in 2 .. n PROVE k \in 2 .. Len(I) /\ J[k] = I[k]
  <2>1. k \in 2 .. Len(I) /\ k \in 1 .. n
    BY <1>0
  <2> QED BY Zenon, <1>1, <2>1
<1> QED BY Zenon, <1>0, <1>1, <1>2, <1>3, <1>4 DEF Held, J

\* What a power failure leaves of the head file: its flushed part is intact.
LEMMA TornData ==
    ASSUME NEW s \in Seq(Byte), NEW n \in Nat, NEW bs \in Torn(s, n, ZeroByte)
    PROVE  /\ bs \in Seq(Byte) /\ Len(bs) <= Len(s) /\ Len(bs) \in Nat
           /\ n <= Len(bs) /\ \A k \in 1 .. n : bs[k] = s[k]
<1>0. Len(s) \in Nat /\ ZeroByte \in Byte
  BY DEF Byte
<1>1. PICK m \in n .. Len(s) : bs \in {[k \in 1 .. l |-> IF k <= m THEN s[k] ELSE ZeroByte] : l \in m .. Len(s)}
  BY Zenon DEF Torn
<1>2. PICK l \in m .. Len(s) : bs = [k \in 1 .. l |-> IF k <= m THEN s[k] ELSE ZeroByte]
  BY Zenon, <1>1
<1>3. m \in Nat /\ l \in Nat /\ l <= Len(s)
  BY <1>0
<1>4. ASSUME NEW k \in 1 .. l PROVE (IF k <= m THEN s[k] ELSE ZeroByte) \in Byte
  <2>1. k \in 1 .. Len(s)
    BY <1>0, <1>3
  <2>2. s[k] \in Byte
    BY <2>1
  <2> QED BY Zenon, <1>0, <2>2
<1>5. bs \in [1 .. l -> Byte]
  BY Zenon, <1>2, <1>4
<1> HIDE DEF Byte
<1>6. bs \in Seq(Byte) /\ Len(bs) <= Len(s) /\ Len(bs) \in Nat /\ Len(bs) = l
  BY <1>0, <1>3, <1>5
<1>7. n <= l /\ \A k \in 1 .. n : k \in 1 .. l /\ k <= m
  BY <1>0, <1>3
<1>8. \A k \in 1 .. n : bs[k] = s[k]
  BY Zenon, <1>2, <1>7
<1> QED BY Zenon, <1>6, <1>7, <1>8

LEMMA CrashStep ==
    ASSUME IInv, Crash
    PROVE  IInv'
<1> DEFINE h == mem.headId
           T == idx'
           R == repairIndex(idx')
<1>1. /\ mode = "open" /\ crashes < MaxCrashes /\ T \in Torn(idx, idxSync, ZeroEntry) /\ ~Undetectable(T)
      /\ meta' \in metaOld \cup {meta} /\ mode' = "down" /\ crashes' = crashes + 1
      /\ idxSync' = Len(T) /\ datSync' = 0 /\ metaOld' = {} /\ mem' = NoFields /\ batch' = NoBatch /\ pc' = "idle"
  BY Zenon DEF Crash
<1>2. PICK bs \in Torn(dat[h], datSync, ZeroByte) : dat' = [dat EXCEPT ![h] = bs]
  BY Zenon DEF Crash
<1>3. /\ GoodIndex(idx) /\ Held(idx, dat, h) /\ DataFiles(dat) /\ h \in Nat /\ h \in DOMAIN dat /\ dat[h] \in Seq(Byte)
      /\ Len(idx) \in Nat /\ Len(dat[h]) \in Nat /\ Len(dat[h]) <= MaxFileSize /\ idx[1].offset \in Nat
  BY Zenon, <1>1, OpenFacts DEF Backed
<1>4. Types /\ idxSync \in 1 .. Len(idx) /\ datSync \in Nat
  BY Zenon DEF IInv, Types
<1>5. /\ T \in Seq(Entries) /\ Len(T) >= 1 /\ T[1] = idx[1]
      /\ \E m \in idxSync .. Len(idx) : R = SubSeq(idx, 1, m)
  BY Zenon, <1>1, <1>3, <1>4, TornIndex
<1>6. PICK m \in 1 .. Len(idx) : R = SubSeq(idx, 1, m)
  <2>1. \A m \in idxSync .. Len(idx) : m \in 1 .. Len(idx)
    BY <1>3, <1>4
  <2> QED BY Zenon, <1>5, <2>1
<1>7. bs \in Seq(Byte) /\ Len(bs) <= Len(dat[h]) /\ Len(bs) \in Nat
  BY Zenon, <1>3, <1>4, TornData
<1>8. Len(bs) <= MaxFileSize
  BY <1>3, <1>7, SizeAssumption
<1>9. /\ DOMAIN dat' = DOMAIN dat /\ dat'[h] = bs /\ \A g \in DOMAIN dat : g /= h => dat'[g] = dat[g]
  BY Zenon, <1>2, <1>3
<1>10. DataFiles(dat')
  BY Zenon, <1>3, <1>7, <1>8, <1>9 DEF DataFiles
<1>11. Len(R) = m /\ GoodIndex(R) /\ Held(R, dat, h)
  <2>1. Len(SubSeq(idx, 1, m)) = m
    BY Zenon, <1>3, PrefixFacts DEF GoodIndex
  <2>2. GoodIndex(SubSeq(idx, 1, m)) /\ Held(SubSeq(idx, 1, m), dat, h)
    BY Zenon, <1>3, PrefixGood, HeldPrefix
  <2> QED BY Zenon, <1>6, <2>1, <2>2
<1>12. Held(R, dat', h)
  BY Zenon, <1>9, <1>11, HeadChange DEF SameButHead
<1>13. T[1].offset + Len(R) - 1 <= MaxItems
  <2>1. idx[1].offset + Len(idx) - 1 <= MaxItems
    BY Zenon, <1>1, IndexBound
  <2> HIDE DEF R, T
  <2>2. m \in Nat /\ m <= Len(idx)
    BY <1>3
  <2>3. idx[1].offset + m - 1 <= MaxItems
    BY <1>3, <2>1, <2>2, SizeAssumption
  <2> QED BY Zenon, <1>5, <1>11, <2>3
<1>14. DownInv'
  BY Zenon, <1>3, <1>9, <1>11, <1>12, <1>13 DEF DownInv
<1>15. Types'
  <2>1. Len(T) \in 1 .. Len(T)
    BY <1>5
  <2>2. crashes' \in 0 .. MaxCrashes
    BY <1>1, <1>4, SizeAssumption DEF Types
  <2>3. meta' \in 0 .. MaxItems
    BY Zenon, <1>1, <1>4 DEF Types
  <2>4. T[1].offset <= MaxItems
    BY Zenon, <1>4, <1>5 DEF Types
  <2>5. NoFields \in Fields /\ 0 \in Nat
    BY DEF NoFields, Fields
  <2> QED BY Zenon, <1>1, <1>5, <1>10, <2>1, <2>2, <2>3, <2>4, <2>5, NoBatchType DEF Types
<1>16. mode' /= "open"
  BY <1>1
<1> QED BY Zenon, <1>14, <1>15, <1>16 DEF IInv, OpenInv

\* The index that newTable finds, for a table that is closed or crashed.
LEMMA FoundIndex ==
    ASSUME IInv, mode = "down"
    PROVE  LET I == RepairedIndex(idx, dat)
               e == LastEntry(I)
               bs == SubSeq(File(dat, e.filenum), 1, e.offset)
           IN  /\ GoodIndex(I) /\ I[1] = idx[1]
               /\ Backed(I, WithFile(dat, e.filenum, bs), e.filenum)
               /\ DataFiles(WithFile(dat, e.filenum, bs)) /\ Len(bs) = e.offset
               /\ \A f \in I[1].filenum .. e.filenum : f \in DOMAIN dat
               /\ I[1].offset + Len(I) - 1 <= MaxItems
               /\ WithFile(dat, e.filenum, bs)[e.filenum] = bs
<1> DEFINE J == repairIndex(idx)
           I == RepairedIndex(idx, dat)
           e == LastEntry(I)
           bs == SubSeq(File(dat, e.filenum), 1, e.offset)
<1>1. GoodIndex(J) /\ idx[1].offset + Len(J) - 1 <= MaxItems /\ DataFiles(dat) /\ idx \in Seq(Entries) /\ idxSync \in 1 .. Len(idx)
  BY Zenon DEF IInv, DownInv, Types
<1>2. PICK h : Held(J, dat, h)
  BY Zenon DEF IInv, DownInv
<1>3. I = repairLoop(J, dat)
  BY Zenon DEF RepairedIndex
<1> HIDE DEF J, I
<1>4. /\ GoodIndex(I) /\ I[1] = J[1]
      /\ Backed(I, WithFile(dat, e.filenum, bs), e.filenum)
      /\ DataFiles(WithFile(dat, e.filenum, bs)) /\ Len(bs) = e.offset
      /\ \A f \in I[1].filenum .. e.filenum : f \in DOMAIN dat
  BY ZenonT(30), <1>1, <1>2, <1>3, Repaired
<1>5. Len(idx) \in Nat /\ Len(idx) >= 1 /\ 1 \in 1 .. Len(idx)
  BY <1>1
<1>6. J[1] = idx[1] /\ idx[1].offset \in Nat
  <2>1. PICK m \in 1 .. Len(idx) : J = SubSeq(idx, 1, m)
    BY Zenon, <1>1, <1>5, RepairIndexCut DEF J
  <2>2. 1 \in 1 .. m
    OBVIOUS
  <2>3. \A k \in 1 .. m : SubSeq(idx, 1, m)[k] = idx[k]
    BY Zenon, <1>1, PrefixFacts
  <2> QED BY Zenon, <1>1, <1>5, <2>1, <2>2, <2>3, EntryTypes
<1>7. Len(I) \in Nat /\ Len(J) \in Nat /\ Len(I) <= Len(J)
  <2>1. J \in Seq(Entries) /\ Len(J) >= 1 /\ Len(J) \in Nat
    BY <1>1 DEF GoodIndex
  <2>2. PICK n \in 1 .. Len(J) : I = SubSeq(J, 1, n)
    BY Zenon, <1>1, <1>3, <2>1, RepairLoopCut
  <2>3. Len(SubSeq(J, 1, n)) = n
    BY Zenon, <2>1, PrefixFacts
  <2>4. n \in Nat /\ n <= Len(J)
    BY <2>1
  <2> QED BY Zenon, <2>1, <2>2, <2>3, <2>4
<1>8. I[1].offset + Len(I) - 1 <= MaxItems
  <2> DEFINE o == idx[1].offset
  <2>1. I[1].offset = o
    BY Zenon, <1>4, <1>6
  <2>2. o \in Nat /\ o + Len(J) - 1 <= MaxItems
    BY Zenon, <1>1, <1>6
  <2> HIDE DEF o
  <2>3. o + Len(I) - 1 <= MaxItems
    BY <1>7, <2>2, SizeAssumption
  <2> QED BY Zenon, <2>1, <2>3
<1>9. WithFile(dat, e.filenum, bs)[e.filenum] = bs
  BY Zenon DEF WithFile
<1> QED BY Zenon, <1>4, <1>6, <1>8, <1>9 DEF I

LEMMA newTableStep ==
    ASSUME IInv, newTable
    PROVE  IInv'
<1> DEFINE I == RepairedIndex(idx, dat)
           e == LastEntry(I)
           bs == SubSeq(File(dat, e.filenum), 1, e.offset)
           o == I[1].offset
           items == o + Len(I) - 1
           tail == RepairedTail(I, meta)
<1>1. /\ mode = "down" /\ idx' = I /\ idxSync' = Len(I) /\ dat' = WithFile(dat, e.filenum, bs) /\ datSync' = Len(bs)
      /\ meta' = tail /\ metaOld' = {}
      /\ mem' = [items |-> items, itemOffset |-> o, itemHidden |-> tail,
                 headId |-> e.filenum, tailId |-> I[1].filenum, headBytes |-> e.offset]
      /\ mode' = IF tail > o /\ tail > items THEN "failed" ELSE "open"
      /\ UNCHANGED <<batch, pc, arg, crashes>>
  BY Zenon DEF newTable
<1>2. /\ GoodIndex(I) /\ I[1] = idx[1] /\ Backed(I, dat', e.filenum) /\ DataFiles(dat') /\ Len(bs) = e.offset
      /\ items <= MaxItems /\ dat'[e.filenum] = bs
  BY Zenon, <1>1, FoundIndex
<1>3. Types /\ meta \in 0 .. MaxItems /\ idx[1].offset <= MaxItems /\ pc = "idle"
  <2>1. mode /= "open"
    BY <1>1
  <2> QED BY ZenonT(40), <2>1 DEF IInv, Types
<1> HIDE DEF I, bs
<1>4. I \in Seq(Entries) /\ Len(I) \in Nat /\ Len(I) >= 1 /\ Len(I) \in 1 .. Len(I) /\ 1 \in 1 .. Len(I)
  BY <1>2 DEF GoodIndex
<1>5. o \in Nat /\ I[1].filenum \in Nat /\ e.filenum \in Nat /\ e.offset \in Nat
  BY Zenon, <1>4, EntryTypes, LastFacts
<1> DEFINE z == Len(I)
<1> HIDE DEF e, o, z
<1>6. o <= MaxItems
  BY Zenon, <1>2, <1>3 DEF o
<1>7. tail = (IF meta >= o THEN meta ELSE o) /\ meta \in Nat
  <2>1. meta \in Int /\ o \in Int /\ meta \in Nat
    BY <1>3, <1>5, SizeAssumption
  <2> QED BY Zenon, <2>1, MaxTwo DEF RepairedTail, o
<1>8. tail \in 0 .. MaxItems /\ tail \in Nat /\ o <= tail
  <2> HIDE DEF tail
  <2> QED BY <1>3, <1>5, <1>6, <1>7, SizeAssumption
<1>9. items \in Nat /\ o <= items
  <2>1. z \in Nat /\ z >= 1
    BY Zenon, <1>4 DEF z
  <2>2. o + z - 1 \in Nat /\ o <= o + z - 1
    BY <1>5, <2>1
  <2> QED BY Zenon, <2>2 DEF z
<1> HIDE DEF tail, items
<1>10. /\ mem'.items = items /\ mem'.itemOffset = o /\ mem'.itemHidden = tail /\ mem'.headId = e.filenum
       /\ mem'.tailId = I[1].filenum /\ mem'.headBytes = e.offset /\ mem' \in Fields
  BY Zenon, <1>1, <1>5, <1>8, <1>9 DEF Fields
<1>11. mode' \in {"open", "failed"} /\ mode' /= "down" /\ (mode' = "open" => tail <= items)
  <2>1. mode' \in {"open", "failed"} /\ mode' /= "down"
    BY <1>1
  <2>2. mode' = "open" => ~(tail > o /\ tail > items)
    BY <1>1
  <2>3. ~(tail > o /\ tail > items) => tail <= items
    BY <1>5, <1>8, <1>9
  <2> QED BY Zenon, <2>1, <2>2, <2>3
<1>12. Types'
  <2>1. mode' \in {"open", "down", "failed"} /\ pc' = "idle"
    BY <1>1, <1>3, <1>11
  <2>2. Len(bs) \in Nat
    BY Zenon, <1>2, <1>5 DEF e
  <2> QED BY ZenonT(40), <1>1, <1>2, <1>3, <1>4, <1>6, <1>8, <1>10, <2>1, <2>2 DEF Types, o
<1>13. ASSUME mode' = "open" PROVE PcInv'
  <2>1. /\ pc' \notin CuttingHead /\ pc' /= "tailIndex" /\ pc' \notin Writing /\ pc' \notin Indexing /\ pc' /= "headData"
        /\ pc' /= "tailFiles"
    BY <1>1, <1>3 DEF CuttingHead, Writing, Indexing
  <2>2. LastEntry(idx') = e
    BY Zenon, <1>1 DEF e
  <2>3. Len(dat'[e.filenum]) = e.offset + 0 /\ e.offset <= e.offset /\ I[1].filenum <= I[1].filenum
    BY <1>2, <1>5 DEF e
  <2>4. items = idx'[1].offset + Len(idx') - 1 /\ idx'[1].offset = o
    BY Zenon, <1>1 DEF items, o
  <2>5. items <= MaxItems
    BY Zenon, <1>2 DEF items, o
  <2> QED BY ZenonT(40), <1>1, <1>8, <1>10, <1>11, <1>13, <2>1, <2>2, <2>3, <2>4, <2>5 DEF PcInv
<1> QED BY Zenon, <1>1, <1>2, <1>10, <1>11, <1>12, <1>13 DEF IInv, OpenInv, DownInv, e

----
LEMMA InitInv == Init => IInv
<1> SUFFICES ASSUME Init PROVE IInv
  OBVIOUS
<1>1. /\ idx = <<ZeroEntry>> /\ idxSync = 1 /\ dat = [f \in {0} |-> <<>>] /\ datSync = 0 /\ meta = 0 /\ metaOld = {}
      /\ mem = NoFields /\ batch = NoBatch /\ pc = "idle" /\ mode = "open" /\ crashes = 0
  BY Zenon DEF Init
<1>2. ZeroEntry \in Entries /\ ZeroEntry.filenum = 0 /\ ZeroEntry.offset = 0
  BY DEF ZeroEntry, Entry, Entries
<1>3. idx \in Seq(Entries) /\ Len(idx) = 1 /\ idx[1] = ZeroEntry
  BY <1>1, <1>2
<1>4. idx[1].filenum = 0 /\ idx[1].offset = 0 /\ LastEntry(idx).filenum = 0 /\ LastEntry(idx).offset = 0
  <2>1. Len(idx) >= 1
    BY <1>3
  <2> QED BY Zenon, <1>2, <1>3, <2>1, LastFacts
<1>5. DOMAIN dat = {0} /\ dat[0] = <<>> /\ Len(dat[0]) = 0
  BY <1>1
<1>6. DataFiles(dat)
  <2>1. 0 \in Nat /\ <<>> \in Seq(Byte) /\ 0 <= MaxFileSize
    BY SizeAssumption
  <2> QED BY Zenon, <1>5, <2>1 DEF DataFiles
<1>7. /\ mem \in Fields /\ mem.items = 0 /\ mem.itemOffset = 0 /\ mem.itemHidden = 0
      /\ mem.headId = 0 /\ mem.tailId = 0 /\ mem.headBytes = 0
  BY <1>1 DEF NoFields, Fields
<1>8. GoodIndex(idx) /\ Backed(idx, dat, 0)
  <2>1. 2 .. Len(idx) = {} /\ Len(idx) >= 1 /\ 0 \in Nat /\ 0 <= 0 /\ \A f \in 0 .. 0 : f = 0
    BY <1>3
  <2> QED BY Zenon, <1>3, <1>4, <1>5, <2>1 DEF GoodIndex, Backed, Held
<1>9. Types
  <2>1. 1 \in 1 .. 1 /\ 0 \in 0 .. MaxItems /\ 0 <= MaxItems /\ 0 \in 0 .. MaxCrashes /\ 0 \in Nat
    BY SizeAssumption
  <2> QED BY Zenon, <1>1, <1>3, <1>4, <1>6, <1>7, <2>1, NoBatchType DEF Types
<1>10. PcInv
  <2>1. /\ pc \notin CuttingHead /\ pc /= "tailIndex" /\ pc \notin Writing /\ pc \notin Indexing /\ pc /= "headData"
        /\ pc /= "tailFiles"
    BY <1>1 DEF CuttingHead, Writing, Indexing
  <2>2. 0 <= MaxItems /\ 0 <= 0 /\ 0 = 0 + Len(idx) - 1 /\ 0 = 0 + 0
    BY <1>3, SizeAssumption
  <2> QED BY Zenon, <1>1, <1>4, <1>5, <1>7, <2>1, <2>2 DEF PcInv
<1>11. mode /= "down"
  BY <1>1
<1> QED BY Zenon, <1>7, <1>8, <1>9, <1>10, <1>11 DEF IInv, OpenInv, DownInv

LEMMA NextInv == IInv /\ [Next]_vars => IInv'
<1> SUFFICES ASSUME IInv, [Next]_vars PROVE IInv'
  OBVIOUS
<1>1. CASE reset
  BY Zenon, <1>1, resetStep
<1>2. CASE commitWrite
  BY ZenonT(40), <1>2, commitWriteStep
<1>3. CASE commitIndex
  BY Zenon, <1>3, commitIndexStep
<1>4. CASE advanceHead
  BY Zenon, <1>4, advanceHeadStep
<1>5. CASE rollback
  BY Zenon, <1>5, rollbackStep
<1>6. ASSUME NEW v \in Values, appendItem(v) PROVE IInv'
  BY Zenon, <1>6, appendItemStep
<1>7. ASSUME NEW n \in 0 .. MaxItems, truncateHead(n) PROVE IInv'
  BY Zenon, <1>7, truncateHeadStep
<1>8. ASSUME NEW n \in 0 .. MaxItems, truncateTail(n) PROVE IInv'
  BY ZenonT(40), <1>8, truncateTailStep
<1>9. CASE truncateHeadFiles
  BY Zenon, <1>9, truncateHeadFilesStep
<1>10. CASE truncateHeadData
  BY Zenon, <1>10, truncateHeadDataStep
<1>11. CASE truncateTailIndex
  BY Zenon, <1>11, truncateTailIndexStep
<1>12. CASE truncateTailFiles
  BY Zenon, <1>12, truncateTailFilesStep
<1>13. CASE Sync
  BY Zenon, <1>13, SyncStep
<1>14. CASE Close
  BY Zenon, <1>14, CloseStep
<1>15. CASE Crash
  BY Zenon, <1>15, CrashStep
<1>16. CASE newTable
  BY Zenon, <1>16, newTableStep
<1>17. CASE UNCHANGED vars
  <2>1. UNCHANGED <<idx, idxSync, dat, datSync, meta, metaOld, mem, batch, pc, arg, mode, crashes>>
    BY Zenon, <1>17 DEF vars, files
  <2>2. (BatchInv <=> BatchInv') /\ NewTailId(arg)' = NewTailId(arg)
    BY <2>1 DEF BatchInv, NewTailId
  <2>3. (Types <=> Types') /\ (PcInv <=> PcInv') /\ (DownInv <=> DownInv')
    BY Zenon, <2>1, <2>2 DEF Types, PcInv, DownInv
  <2> QED BY Zenon, <2>1, <2>3 DEF IInv, OpenInv
<1> QED BY ZenonT(40), <1>1, <1>2, <1>3, <1>4, <1>5, <1>6, <1>7, <1>8, <1>9, <1>10, <1>11, <1>12, <1>13, <1>14, <1>15,
           <1>16, <1>17 DEF Next

\* What the inductive invariant says of the table as a caller sees it.
LEMMA InvSound == IInv => FilesSound
<1> SUFFICES ASSUME IInv PROVE FilesSound
  OBVIOUS
<1>1. Types
  BY Zenon DEF IInv
<1>2. TypeOK
  BY Zenon, <1>1 DEF Types, TypeOK, Entries, Fields, DataFiles
<1>3. ASSUME mode = "open" PROVE RepairedIndex(idx, dat) = idx
  BY Zenon, <1>3, OpenFacts, BackedRepair
<1>4. MemoryMatchesFiles
  <2> SUFFICES ASSUME Idle
               PROVE  /\ RepairedIndex(idx, dat) = idx
                      /\ mem.items = mem.itemOffset + Len(idx) - 1
                      /\ mem.itemOffset = idx[1].offset /\ mem.tailId = idx[1].filenum
                      /\ mem.itemHidden = meta
                      /\ mem.headBytes = Len(dat[mem.headId])
                      /\ mem.headId = LastEntry(idx).filenum \/ mem.headBytes = 0
    BY Zenon DEF MemoryMatchesFiles
  <2>1. mode = "open" /\ pc = "idle"
    BY Zenon DEF Idle
  <2>2. pc \notin CuttingHead /\ pc \notin Indexing /\ pc /= "tailFiles"
    BY <2>1 DEF CuttingHead, Indexing
  <2>3. PcInv /\ mem.headBytes \in Nat
    BY Zenon, <2>1, OpenFacts
  <2>4. Len(dat[mem.headId]) = mem.headBytes + 0
    BY Zenon, <2>2, <2>3 DEF PcInv
  <2>5. mem.headBytes = Len(dat[mem.headId])
    BY <2>3, <2>4
  <2> QED BY Zenon, <1>3, <2>1, <2>2, <2>3, <2>5 DEF PcInv
<1>5. NoFileMissing
  <2> DEFINE I == RepairedIndex(idx, dat)
  <2> SUFFICES ASSUME mode /= "failed", NEW f \in I[1].filenum .. LastEntry(I).filenum - 1
               PROVE  f \in DOMAIN dat
    BY Zenon DEF NoFileMissing
  <2>1. CASE mode = "open"
    <3>1. /\ idx[1].filenum \in Nat /\ LastEntry(idx).filenum \in Nat /\ mem.headId \in Nat
          /\ LastEntry(idx).filenum <= mem.headId /\ Held(idx, dat, mem.headId)
      BY Zenon, <2>1, OpenFacts DEF Backed
    <3>2. f \in idx[1].filenum .. LastEntry(idx).filenum - 1
      BY Zenon, <1>3, <2>1
    <3>3. f \in idx[1].filenum .. mem.headId
      BY <3>1, <3>2
    <3> QED BY Zenon, <3>1, <3>3 DEF Held
  <2>2. CASE mode = "down"
    <3>1. GoodIndex(I) /\ \A g \in I[1].filenum .. LastEntry(I).filenum : g \in DOMAIN dat
      BY Zenon, <2>2, FoundIndex
    <3> HIDE DEF I
    <3>2. I \in Seq(Entries) /\ Len(I) >= 1 /\ 1 \in 1 .. Len(I)
      BY <3>1 DEF GoodIndex
    <3>3. I[1].filenum \in Nat /\ LastEntry(I).filenum \in Nat
      BY Zenon, <3>2, EntryTypes, LastFacts
    <3>4. f \in I[1].filenum .. LastEntry(I).filenum
      BY <3>3
    <3> QED BY Zenon, <3>1, <3>4
  <2>3. mode \in {"open", "down", "failed"}
    BY Zenon, <1>1 DEF Types
  <2> QED BY <2>1, <2>2, <2>3
<1> QED BY Zenon, <1>2, <1>4, <1>5 DEF FilesSound

\* Whatever is appended, truncated at either end, flushed, closed or lost to a
\* power failure at any step of these, an idle table's fields agree with its
\* files, opening it again would change nothing, and no data file between tail
\* and head is missing, so that preopen succeeds: for every size of items, files
\* and buffers, and any number of items and power failures.
THEOREM FilesCorrect == Spec => []FilesSound
<1>1. Init => IInv
  BY InitInv
<1>2. IInv /\ [Next]_vars => IInv'
  BY NextInv
<1>3. IInv => FilesSound
  BY InvSound
<1> QED BY <1>1, <1>2, <1>3, PTL DEF Spec

----
(***************************************************************************)
(* What the files of such a table hold, which FreezerTableRefinement uses. *)
(***************************************************************************)
\* The bytes of content v follow offset o in s.
HoldsAt(s, o, v) == \A p \in 1 .. Size[v] : s[o + p] = Bytes(v)[p]

\* Where the k-th buffered item starts.
From(X, hb, k) == IF k = 1 THEN hb ELSE X[k - 1].offset

\* Entries X that follow offset hb of file s describe whole items, up to offset n.
Whole(X, hb, s, n) ==
    /\ \A k \in 1 .. Len(X) : \E v \in Values : /\ X[k].offset = From(X, hb, k) + Size[v]
                                                /\ HoldsAt(s, From(X, hb, k), v)
    /\ X /= <<>> => X[Len(X)].offset = n

\* The items below number h that index I describes.
ItemsOf(I, D, h) == [i \in I[1].offset .. h - 1 |-> Decode(ReadItem(I, D, i - I[1].offset + 1))]

HeadOf(I) == I[1].offset + Len(I) - 1

DurTail(I, m, old) == Max({I[1].offset, Min(old \cup {m})})

\* The files that index I names have the same bytes in D and in E, as far as
\* the index goes.
Agrees(I, D, E) ==
    \A k \in 2 .. Len(I) :
        LET f == I[k].filenum IN
        /\ f \in DOMAIN D /\ f \in DOMAIN E
        /\ D[f] \in Seq(Byte) /\ E[f] \in Seq(Byte)
        /\ I[k].offset <= Len(D[f]) /\ I[k].offset <= Len(E[f])
        /\ \A p \in 1 .. I[k].offset : E[f][p] = D[f][p]

\* Two parts of sequences that are equal as far as the parts go.
LEMMA SameParts ==
    ASSUME NEW S, NEW s \in Seq(S), NEW t \in Seq(S), NEW n \in Nat, NEW m \in Nat, n <= Len(s), n <= Len(t),
           \A p \in 1 .. n : t[p] = s[p]
    PROVE  SubSeq(t, m + 1, n) = SubSeq(s, m + 1, n)
<1> DEFINE a == SubSeq(s, m + 1, n)
           b == SubSeq(t, m + 1, n)
<1>1. Len(s) \in Nat /\ Len(t) \in Nat
  OBVIOUS
<1>2. CASE m < n
  <2>1. m + 1 \in 1 .. Len(s) /\ n \in 1 .. Len(s) /\ m + 1 \in 1 .. Len(t) /\ n \in 1 .. Len(t)
    BY <1>1, <1>2
  <2>2. /\ a \in Seq(S) /\ Len(a) = n - m /\ \A k \in 1 .. n - m : a[k] = s[m + k]
    BY <1>1, <1>2
  <2>3. /\ b \in Seq(S) /\ Len(b) = n - m /\ \A k \in 1 .. n - m : b[k] = t[m + k]
    BY <1>1, <1>2
  <2>4. \A k \in 1 .. n - m : m + k \in 1 .. n
    BY <1>2
  <2> HIDE DEF a, b
  <2>5. \A k \in 1 .. n - m : a[k] = b[k]
    BY Zenon, <2>2, <2>3, <2>4
  <2>6. a = b
    BY <2>2, <2>3, <2>5
  <2> QED BY SMTT(30), Z3T(30), <2>6 DEF a, b
<1>3. CASE ~(m < n)
  <2>1. a = <<>> /\ b = <<>>
    BY <1>3
  <2> QED BY <2>1
<1> QED BY SMTT(30), Z3T(30), <1>2, <1>3

\* An index names positions from one to its length; items are one fewer.
LEMMA Positions ==
    ASSUME NEW I, GoodIndex(I)
    PROVE  /\ I \in Seq(Entries) /\ Len(I) \in Nat /\ Len(I) >= 1 /\ I[1].offset \in Nat /\ I[1].filenum \in Nat
           /\ HeadOf(I) \in Nat /\ I[1].offset <= HeadOf(I) /\ HeadOf(I) = I[1].offset + Len(I) - 1
           /\ \A k \in 1 .. Len(I) : I[k].offset \in Nat /\ I[k].filenum \in Nat
           /\ \A k \in 2 .. Len(I) : k \in 1 .. Len(I)
<1>1. I \in Seq(Entries) /\ Len(I) \in Nat /\ Len(I) >= 1 /\ 1 \in 1 .. Len(I)
  BY DEF GoodIndex
<1>2. \A k \in 1 .. Len(I) : I[k].offset \in Nat /\ I[k].filenum \in Nat
  BY Zenon, <1>1, EntryTypes
<1>3. I[1].offset \in Nat /\ I[1].filenum \in Nat
  BY Zenon, <1>1, <1>2
<1>4. \A o, n \in Nat : n >= 1 => o + n - 1 \in Nat /\ o <= o + n - 1
  OBVIOUS
<1>5. \A k \in 2 .. Len(I) : k \in 1 .. Len(I)
  BY <1>1
<1> QED BY Zenon, <1>1, <1>2, <1>3, <1>4, <1>5 DEF HeadOf

\* Index J is a prefix of index I.
PrefixOf(J, I) == Len(J) <= Len(I) /\ \A k \in 1 .. Len(J) : J[k] = I[k]

\* An item reads the same from files that agree, and from a prefix of the index.
LEMMA ReadSame ==
    ASSUME NEW I, GoodIndex(I), NEW J, GoodIndex(J), PrefixOf(J, I),
           NEW D, NEW E, Agrees(J, D, E), NEW i \in Nat, i >= 1, i < Len(J)
    PROVE  ReadItem(J, E, i) = ReadItem(I, D, i)
<1> DEFINE a == IF i = 1 THEN Entry(J[2].filenum, 0) ELSE J[i]
           b == J[i + 1]
           from == IF a.filenum = b.filenum THEN a.offset ELSE 0
           f == b.filenum
<1>1. /\ Len(J) \in Nat /\ Len(I) \in Nat
      /\ \A k \in 1 .. Len(J) : J[k].offset \in Nat /\ J[k].filenum \in Nat
  BY Zenon, Positions
<1>2. 2 \in 1 .. Len(J) /\ i + 1 \in 2 .. Len(J) /\ i + 1 \in 1 .. Len(J) /\ (i /= 1 => i \in 2 .. Len(J)) /\ i \in 1 .. Len(J)
  BY <1>1
<1>3. J[2] = I[2] /\ J[i + 1] = I[i + 1] /\ J[i] = I[i]
  BY Zenon, <1>2 DEF PrefixOf
<1>4. b.offset \in Nat /\ from \in Nat
  <2>1. 0 \in Nat /\ Entry(J[2].filenum, 0).offset = 0
    BY DEF Entry
  <2> QED BY Zenon, <1>1, <1>2, <2>1
<1>5. /\ f \in DOMAIN D /\ f \in DOMAIN E /\ D[f] \in Seq(Byte) /\ E[f] \in Seq(Byte)
      /\ b.offset <= Len(D[f]) /\ b.offset <= Len(E[f]) /\ \A p \in 1 .. b.offset : E[f][p] = D[f][p]
  BY Zenon, <1>2 DEF Agrees
<1>6. File(D, f) = D[f] /\ File(E, f) = E[f]
  BY Zenon, <1>5 DEF File
<1>7. SubSeq(E[f], from + 1, b.offset) = SubSeq(D[f], from + 1, b.offset)
  <2> DEFINE s == D[f]
             t == E[f]
             n == b.offset
  <2>1. s \in Seq(Byte) /\ t \in Seq(Byte) /\ n \in Nat /\ from \in Nat /\ n <= Len(s) /\ n <= Len(t)
        /\ \A p \in 1 .. n : t[p] = s[p]
    BY Zenon, <1>4, <1>5
  <2> HIDE DEF from, s, t, n
  <2>2. SubSeq(t, from + 1, n) = SubSeq(s, from + 1, n)
    BY Zenon, <2>1, SameParts
  <2> QED BY Zenon, <2>2 DEF s, t, n
<1>8. ReadItem(J, E, i) = SubSeq(E[f], from + 1, b.offset)
  BY Zenon, <1>5, <1>6 DEF ReadItem
<1>9. ReadItem(I, D, i) = SubSeq(D[f], from + 1, b.offset)
  BY Zenon, <1>3, <1>5, <1>6 DEF ReadItem
<1> HIDE DEF from, f, b
<1> QED BY Zenon, <1>7, <1>8, <1>9

\* The items of a prefix of the index, in files that agree.
LEMMA ItemsSame ==
    ASSUME NEW I, GoodIndex(I), NEW J, GoodIndex(J), PrefixOf(J, I), NEW D, NEW E, Agrees(J, D, E)
    PROVE  ItemsOf(J, E, HeadOf(J)) = [i \in I[1].offset .. HeadOf(J) - 1 |-> ItemsOf(I, D, HeadOf(I))[i]]
<1> DEFINE o == I[1].offset
           n == Len(J)
<1>1. /\ Len(I) \in Nat /\ n \in Nat /\ n >= 1 /\ o \in Nat /\ HeadOf(I) = o + Len(I) - 1
      /\ HeadOf(J) = J[1].offset + n - 1 /\ \A k \in 2 .. n : k \in 1 .. n
  BY Zenon, Positions
<1>2. J[1] = I[1] /\ n <= Len(I)
  BY <1>1 DEF PrefixOf
<1> HIDE DEF n
<1>3. ASSUME NEW i \in o .. HeadOf(J) - 1
      PROVE  /\ i \in o .. HeadOf(I) - 1
             /\ Decode(ReadItem(J, E, i - o + 1)) = Decode(ReadItem(I, D, i - o + 1))
  <2>1. HeadOf(J) = o + n - 1 /\ HeadOf(I) = o + Len(I) - 1
    BY Zenon, <1>1, <1>2
  <2> HIDE DEF o
  <2>2. i \in o .. HeadOf(I) - 1 /\ i - o + 1 \in Nat /\ i - o + 1 >= 1 /\ i - o + 1 < n
    BY <1>1, <1>2, <2>1
  <2>3. ReadItem(J, E, i - o + 1) = ReadItem(I, D, i - o + 1)
    <3> DEFINE x == i - o + 1
    <3>1. x \in Nat /\ x >= 1 /\ x < Len(J)
      BY Zenon, <2>2 DEF n
    <3> HIDE DEF x
    <3>2. ReadItem(J, E, x) = ReadItem(I, D, x)
      BY <3>1, ReadSame
    <3> QED BY Zenon, <3>2 DEF x
  <2> QED BY Zenon, <2>2, <2>3
<1>4. ItemsOf(J, E, HeadOf(J)) = [i \in o .. HeadOf(J) - 1 |-> Decode(ReadItem(J, E, i - o + 1))]
  BY Zenon, <1>2 DEF ItemsOf
<1>5. \A i \in o .. HeadOf(I) - 1 : ItemsOf(I, D, HeadOf(I))[i] = Decode(ReadItem(I, D, i - o + 1))
  BY Zenon DEF ItemsOf
<1> QED BY Zenon, <1>3, <1>4, <1>5

\* The index names the same items in files that agree.
LEMMA ItemsUnchanged ==
    ASSUME NEW I, GoodIndex(I), NEW D, NEW E, Agrees(I, D, E)
    PROVE  ItemsOf(I, E, HeadOf(I)) = ItemsOf(I, D, HeadOf(I))
<1>1. PrefixOf(I, I)
  BY Positions DEF PrefixOf
<1>2. ItemsOf(I, E, HeadOf(I)) = [i \in I[1].offset .. HeadOf(I) - 1 |-> ItemsOf(I, D, HeadOf(I))[i]]
  BY <1>1, ItemsSame
<1>3. \A i \in I[1].offset .. HeadOf(I) - 1 : ItemsOf(I, D, HeadOf(I))[i] = Decode(ReadItem(I, D, i - I[1].offset + 1))
  BY Zenon DEF ItemsOf
<1> QED BY Zenon, <1>2, <1>3 DEF ItemsOf

\* Where the index finds its items complete on both sides, only bytes matter.
LEMMA BackedAgrees ==
    ASSUME NEW I, GoodIndex(I), NEW D, NEW E, NEW g, NEW h, Backed(I, D, g), Backed(I, E, h), DataFiles(D), DataFiles(E),
           \A k \in 2 .. Len(I) : \A p \in 1 .. I[k].offset : E[I[k].filenum][p] = D[I[k].filenum][p]
    PROVE  Agrees(I, D, E)
<1>1. ASSUME NEW X, NEW x, Backed(I, X, x), DataFiles(X), NEW k \in 2 .. Len(I)
      PROVE  /\ I[k].filenum \in DOMAIN X /\ X[I[k].filenum] \in Seq(Byte)
             /\ I[k].offset <= Len(X[I[k].filenum])
  <2>1. I[k].filenum \in DOMAIN X
    BY Zenon, <1>1, HeldFiles, Positions DEF Backed
  <2> QED BY Zenon, <1>1, <2>1 DEF Backed, Held, DataFiles
<1>2. ASSUME NEW k \in 2 .. Len(I)
      PROVE  LET f == I[k].filenum IN
             /\ f \in DOMAIN D /\ f \in DOMAIN E
             /\ D[f] \in Seq(Byte) /\ E[f] \in Seq(Byte)
             /\ I[k].offset <= Len(D[f]) /\ I[k].offset <= Len(E[f])
             /\ \A p \in 1 .. I[k].offset : E[f][p] = D[f][p]
  BY Zenon, <1>1
<1> QED BY Zenon, <1>2 DEF Agrees

\* The virtual tail of the repaired table, and the least one after a crash.
LEMMA TailFacts ==
    ASSUME NEW I, GoodIndex(I), NEW m \in Nat, NEW old \in SUBSET Nat
    PROVE  /\ RepairedTail(I, m) = (IF m >= I[1].offset THEN m ELSE I[1].offset)
           /\ RepairedTail(I, m) \in Nat /\ I[1].offset <= RepairedTail(I, m)
           /\ DurTail(I, m, {}) = RepairedTail(I, m)
           /\ DurTail(I, m, old) = (IF I[1].offset >= Min(old \cup {m}) THEN I[1].offset ELSE Min(old \cup {m}))
           /\ Min(old \cup {m}) \in old \cup {m} /\ Min(old \cup {m}) \in Nat
           /\ \A x \in old \cup {m} : Min(old \cup {m}) <= x
<1> DEFINE o == I[1].offset
           s == Min(old \cup {m})
<1>1. o \in Nat
  BY Zenon, Positions
<1>2. old \cup {m} \in SUBSET Nat /\ old \cup {m} # {} /\ {m} \in SUBSET Nat /\ {m} # {}
  OBVIOUS
<1>3. s \in old \cup {m} /\ \A x \in old \cup {m} : s <= x
  BY Zenon, <1>2, MinFacts
<1>4. Min({m}) = m
  BY Zenon, <1>2, MinFacts
<1>5. s \in Nat
  BY Zenon, <1>2, <1>3
<1> HIDE DEF o, s
<1>6. RepairedTail(I, m) = (IF m >= o THEN m ELSE o)
  <2>1. m \in Int /\ o \in Int
    BY <1>1
  <2> QED BY Zenon, <2>1, MaxTwo DEF RepairedTail, o
<1>7. RepairedTail(I, m) \in Nat /\ o <= RepairedTail(I, m)
  BY <1>1, <1>6
<1>8. DurTail(I, m, {}) = RepairedTail(I, m)
  <2>1. {} \cup {m} = {m} /\ {o, m} = {m, o}
    OBVIOUS
  <2> QED BY Zenon, <1>4, <2>1 DEF DurTail, RepairedTail, o
<1>9. DurTail(I, m, old) = (IF o >= s THEN o ELSE s)
  <2>1. s \in Int /\ o \in Int
    BY <1>1, <1>5
  <2> QED BY Zenon, <2>1, MaxTwo DEF DurTail, o, s
<1> QED BY Zenon, <1>3, <1>5, <1>6, <1>7, <1>8, <1>9 DEF o, s

\* Raising the virtual tail leaves the least one after a crash as it is.
LEMMA TailRaised ==
    ASSUME NEW I, GoodIndex(I), NEW m \in Nat, NEW old \in SUBSET Nat, NEW n \in Nat, m < n
    PROVE  DurTail(I, n, old \cup {m}) = DurTail(I, m, old)
<1> DEFINE s == Min(old \cup {m})
           u == Min((old \cup {m}) \cup {n})
<1>1. s \in old \cup {m} /\ s \in Nat /\ \A x \in old \cup {m} : s <= x
  BY Zenon, TailFacts
<1>2. old \cup {m} \in SUBSET Nat
  OBVIOUS
<1>3. u \in (old \cup {m}) \cup {n} /\ u \in Nat /\ \A x \in (old \cup {m}) \cup {n} : u <= x
  BY SMTT(30), Z3T(30), <1>2, TailFacts
<1>4. u <= s /\ u <= m
  BY Zenon, <1>1, <1>3
<1> HIDE DEF s, u
<1>5. u \in old \cup {m}
  BY <1>3, <1>4
<1>6. s <= u
  BY Zenon, <1>1, <1>5
<1>7. s = u
  BY <1>1, <1>3, <1>4, <1>6
<1> QED BY Zenon, <1>7 DEF DurTail, s, u

LEMMA WholeEmpty ==
    ASSUME NEW hb, NEW s, NEW n
    PROVE  Whole(<<>>, hb, s, n)
<1>1. \A k \in 1 .. Len(<<>>) : FALSE
  OBVIOUS
<1> QED BY Zenon, <1>1 DEF Whole

\* One more item behind whole items.
LEMMA WholeExtend ==
    ASSUME NEW X \in Seq(Entries), NEW hb \in Nat, NEW s \in Seq(Byte), Whole(X, hb, s, Len(s)), X = <<>> => hb = Len(s),
           \A k \in 1 .. Len(X) : X[k].offset <= Len(s),
           NEW v \in Values, NEW Y \in Seq(Entries), Len(Y) = Len(X) + 1, \A k \in 1 .. Len(X) : Y[k] = X[k],
           Y[Len(X) + 1].offset = Len(s) + Size[v]
    PROVE  Whole(Y, hb, s \o Bytes(v), Len(s) + Size[v])
<1> DEFINE x == Len(X)
           t == s \o Bytes(v)
           l == Len(s)
<1>1. x \in Nat /\ l \in Nat /\ Size[v] \in Nat /\ Bytes(v) \in Seq(Byte) /\ Len(Bytes(v)) = Size[v]
  BY ByteFacts
<1>2. /\ \A k \in 1 .. l : t[k] = s[k]
      /\ \A k \in 1 .. Size[v] : t[l + k] = Bytes(v)[k]
  <2> DEFINE b == Bytes(v)
  <2>1. b \in Seq(Byte) /\ Len(b) = Size[v]
    BY Zenon, <1>1
  <2> HIDE DEF b
  <2>2. /\ \A k \in 1 .. Len(s) : (s \o b)[k] = s[k]
        /\ \A k \in 1 .. Len(b) : (s \o b)[Len(s) + k] = b[k]
    BY <2>1, ConcatFacts
  <2> QED BY Zenon, <2>1, <2>2 DEF b
<1> HIDE DEF t
<1>3. \A k \in 1 .. x : X[k].offset \in Nat
  BY Zenon, EntryTypes
<1>4. ASSUME NEW k \in 1 .. x
      PROVE  \E w \in Values : Y[k].offset = From(Y, hb, k) + Size[w] /\ HoldsAt(t, From(Y, hb, k), w)
  <2>1. From(Y, hb, k) = From(X, hb, k) /\ From(X, hb, k) \in Nat
    <3>1. k = 1 \/ k - 1 \in 1 .. x
      BY <1>1
    <3> QED BY Zenon, <1>3, <3>1 DEF From
  <2> DEFINE o == From(X, hb, k)
  <2>2. PICK w \in Values : X[k].offset = o + Size[w] /\ HoldsAt(s, o, w)
    BY Zenon DEF Whole
  <2>3. o \in Nat /\ Size[w] \in Nat /\ o + Size[w] <= l
    BY Zenon, <2>1, <2>2, ByteFacts
  <2> HIDE DEF o
  <2>4. \A p \in 1 .. Size[w] : o + p \in 1 .. l
    BY <1>1, <2>3
  <2>5. HoldsAt(t, o, w)
    BY Zenon, <1>2, <2>2, <2>4 DEF HoldsAt
  <2>6. Y[k] = X[k]
    BY Zenon
  <2> QED BY Zenon, <2>1, <2>2, <2>5, <2>6 DEF o
<1>5. From(Y, hb, x + 1) = l
  <2>1. CASE X = <<>>
    <3>1. x = 0 /\ hb = l
      BY <2>1
    <3>2. x + 1 = 1
      BY <3>1
    <3> QED BY Zenon, <3>1, <3>2 DEF From
  <2>2. CASE X /= <<>>
    <3>1. x /= 0
      BY <2>2
    <3>2. x + 1 /= 1 /\ (x + 1) - 1 = x /\ x \in 1 .. x
      BY <1>1, <3>1
    <3>3. X[x].offset = l
      BY Zenon, <2>2 DEF Whole
    <3> QED BY Zenon, <3>2, <3>3 DEF From
  <2> QED BY <2>1, <2>2
<1>6. Y[x + 1].offset = From(Y, hb, x + 1) + Size[v] /\ HoldsAt(t, From(Y, hb, x + 1), v)
  BY Zenon, <1>2, <1>5 DEF HoldsAt
<1>7. \A k \in 1 .. Len(Y) : k \in 1 .. x \/ k = x + 1
  BY <1>1
<1>8. Whole(Y, hb, t, l + Size[v])
  <2>1. \A k \in 1 .. Len(Y) : \E w \in Values : Y[k].offset = From(Y, hb, k) + Size[w] /\ HoldsAt(t, From(Y, hb, k), w)
    BY Zenon, <1>4, <1>6, <1>7
  <2> QED BY Zenon, <2>1 DEF Whole
<1> QED BY Zenon, <1>8 DEF t

\* Joining sequences is associative, and the empty one changes nothing.
LEMMA JoinFacts ==
    ASSUME NEW S, NEW q \in Seq(S), NEW r \in Seq(S), NEW s \in Seq(S)
    PROVE  q \o (r \o s) = (q \o r) \o s /\ q \o <<>> = q /\ <<>> \o q = q
OBVIOUS

\* The buffers hold whole items after one more is put into them.
LEMMA BufferedWhole ==
    ASSUME NEW hb \in Nat, NEW s \in Seq(Byte), batch \in Batches, NEW v \in Values, NEW f, NEW o,
           Len(s) = hb + Len(batch.data), o = Len(s),
           Whole(batch.index, hb, s, hb + Len(batch.data)), batch.index = <<>> => batch.data = <<>>,
           \A k \in 1 .. Len(batch.index) : batch.index[k].offset <= hb + Len(batch.data),
           NEW b, IsBuffered(b, v, f, o)
    PROVE  Whole(b.index, hb, s \o Bytes(v), hb + Len(b.data))
<1> DEFINE X == batch.index
           Y == b.index
           l == Len(batch.data)
<1>1. /\ X \in Seq(Entries) /\ Y \in Seq(Entries) /\ batch.data \in Seq(Byte)
  BY DEF IsBuffered, Batches
<1>2. l \in Nat
  BY <1>1
<1>3. /\ Len(Y) = Len(X) + 1 /\ \A k \in 1 .. Len(X) : Y[k] = X[k]
      /\ Y[Len(X) + 1].offset = Len(s) + Size[v] /\ Len(b.data) = l + Size[v]
  BY Zenon DEF IsBuffered
<1>4. Whole(X, hb, s, Len(s)) /\ \A k \in 1 .. Len(X) : X[k].offset <= Len(s)
  BY Zenon
<1>5. X = <<>> => hb = Len(s)
  <2>1. X = <<>> => l = 0
    BY <1>1
  <2> QED BY <1>2, <2>1
<1> HIDE DEF X, Y, l
<1>6. Whole(Y, hb, s \o Bytes(v), Len(s) + Size[v])
  BY Zenon, <1>1, <1>3, <1>4, <1>5, WholeExtend
<1>7. Len(s) + Size[v] = hb + Len(b.data)
  <2>1. Size[v] \in Nat /\ Len(s) = hb + l
    BY Zenon, ByteFacts DEF l
  <2>2. Len(s) + Size[v] = hb + (l + Size[v])
    BY <1>2, <2>1
  <2> QED BY Zenon, <1>3, <2>2
<1> QED BY Zenon, <1>6, <1>7 DEF Y

\* Bytes that hold a content read as that content.
LEMMA HeldBytes ==
    ASSUME NEW s \in Seq(Byte), NEW o \in Nat, NEW v \in Values, o + Size[v] <= Len(s), HoldsAt(s, o, v)
    PROVE  SubSeq(s, o + 1, o + Size[v]) = Bytes(v)
<1> DEFINE b == Bytes(v)
           z == Size[v]
           q == SubSeq(s, o + 1, o + z)
<1>1. z \in Nat /\ z >= 1 /\ b \in Seq(Byte) /\ Len(b) = z
  BY Zenon, ByteFacts
<1>2. \A p \in 1 .. z : s[o + p] = b[p]
  BY Zenon DEF HoldsAt
<1> HIDE DEF b, z
<1>3. o + z <= Len(s) /\ Len(s) \in Nat
  BY DEF z
<1>4. q \in Seq(Byte) /\ Len(q) = z /\ \A p \in 1 .. z : q[p] = s[o + p]
  <2> HIDE DEF Byte
  <2> QED BY <1>1, <1>3
<1> HIDE DEF q
<1>5. \A p \in 1 .. z : q[p] = b[p]
  BY Zenon, <1>2, <1>4
<1>6. q = b
  <2> HIDE DEF Byte
  <2> QED BY <1>1, <1>4, <1>5
<1> QED BY Zenon, <1>6 DEF q, b, z

LEMMA DecodeBytes ==
    ASSUME NEW v \in Values
    PROVE  Decode(Bytes(v)) \in Values
<1>1. \E w \in Values : Bytes(w) = Bytes(v)
  BY Zenon
<1>2. (CHOOSE w \in Values : Bytes(w) = Bytes(v)) \in Values
  BY Zenon, <1>1
<1> QED BY Zenon, <1>1, <1>2 DEF Decode

\* The item of the k-th buffered entry, once the entries are in the index.
LEMMA NewItem ==
    ASSUME NEW I, GoodIndex(I), NEW X \in Seq(Entries), NEW Y, Y = I \o X, NEW h, NEW hb \in Nat,
           NEW D, h \in DOMAIN D, D[h] \in Seq(Byte), Whole(X, hb, D[h], Len(D[h])),
           \A k \in 1 .. Len(X) : X[k].filenum = h /\ X[k].offset <= Len(D[h]),
           h = LastEntry(I).filenum => LastEntry(I).offset = hb, h = LastEntry(I).filenum \/ hb = 0,
           NEW k \in 1 .. Len(X)
    PROVE  Decode(ReadItem(Y, D, Len(I) - 1 + k)) \in Values
<1> DEFINE n == Len(I)
           i == n - 1 + k
           a == IF i = 1 THEN Entry(Y[2].filenum, 0) ELSE Y[i]
           from == IF a.filenum = X[k].filenum THEN a.offset ELSE 0
           o == From(X, hb, k)
<1>1. I \in Seq(Entries) /\ n \in Nat /\ n >= 1 /\ Len(X) \in Nat
  BY Positions
<1>2. /\ \A j \in 1 .. n : Y[j] = I[j]
      /\ \A j \in 1 .. Len(X) : Y[n + j] = X[j]
  BY <1>1, ConcatFacts
<1>3. X[k].filenum = h /\ X[k].offset <= Len(D[h])
  BY Zenon
<1>4. i + 1 = n + k /\ n \in 1 .. n
  BY <1>1
<1>5. Y[i + 1] = X[k]
  BY Zenon, <1>2, <1>4
<1>6. from = o
  <2>1. CASE k = 1 /\ n = 1
    <3>1. i = 1 /\ i + 1 = 2
      BY <2>1
    <3>2. a.filenum = h /\ a.offset = 0
      BY <1>3, <1>5, <3>1 DEF Entry
    <3>3. LastEntry(I).offset = 0
      BY Zenon, <1>1, <2>1, LastFacts
    <3>4. hb = 0
      BY Zenon, <3>3
    <3> QED BY Zenon, <1>3, <2>1, <3>2, <3>4 DEF From
  <2>2. CASE k = 1 /\ n /= 1
    <3>1. i = n /\ i /= 1 /\ n >= 2
      <4> HIDE DEF n
      <4>1. \A m \in Nat : m >= 1 /\ m /= 1 => m >= 2 /\ m - 1 + 1 = m
        OBVIOUS
      <4> QED BY Zenon, <1>1, <2>2, <4>1
    <3>2. a = LastEntry(I)
      BY Zenon, <1>1, <1>2, <1>4, <3>1, LastFacts
    <3> HIDE DEF a
    <3> QED BY Zenon, <1>3, <2>2, <3>2 DEF From
  <2>3. CASE k /= 1
    <3>1. k - 1 \in 1 .. Len(X) /\ i = n + (k - 1) /\ i /= 1
      BY <1>1, <2>3
    <3>2. a = X[k - 1]
      BY Zenon, <1>2, <3>1
    <3>3. X[k - 1].filenum = h
      BY Zenon, <3>1
    <3> HIDE DEF a
    <3> QED BY Zenon, <1>3, <2>3, <3>2, <3>3 DEF From
  <2> QED BY Zenon, <2>1, <2>2, <2>3
<1>7. ReadItem(Y, D, i) = SubSeq(D[h], from + 1, X[k].offset)
  <2>1. File(D, h) = D[h]
    BY Zenon DEF File
  <2> QED BY Zenon, <1>3, <1>5, <2>1 DEF ReadItem
<1>8. PICK v \in Values : X[k].offset = o + Size[v] /\ HoldsAt(D[h], o, v)
  BY Zenon DEF Whole
<1>9. o \in Nat
  <2>1. k = 1 \/ k - 1 \in 1 .. Len(X)
    BY <1>1
  <2> QED BY Zenon, <2>1, EntryTypes DEF From
<1> HIDE DEF from, o, i
<1>10. SubSeq(D[h], o + 1, o + Size[v]) = Bytes(v)
  <2> DEFINE s == D[h]
  <2>1. s \in Seq(Byte) /\ o + Size[v] <= Len(s) /\ HoldsAt(s, o, v)
    BY Zenon, <1>3, <1>8
  <2> HIDE DEF s
  <2>2. SubSeq(s, o + 1, o + Size[v]) = Bytes(v)
    BY Zenon, <1>9, <2>1, HeldBytes
  <2> QED BY Zenon, <2>2 DEF s
<1>11. ReadItem(Y, D, i) = Bytes(v)
  BY Zenon, <1>6, <1>7, <1>8, <1>10
<1> QED BY Zenon, <1>11, DecodeBytes DEF i

\* Index J is index I without its entries before position p, which starts a file.
IsTailOf(J, I, p) ==
    /\ p \in 2 .. Len(I) + 1 /\ Len(J) = Len(I) - p + 2 /\ J[1].offset = I[1].offset + p - 2
    /\ \A k \in 2 .. Len(J) : p + k - 2 \in 2 .. Len(I) /\ J[k] = I[p + k - 2]
    /\ p > 2 /\ p <= Len(I) => I[p - 1].filenum /= I[p].filenum

LEMMA TailRead ==
    ASSUME NEW I, GoodIndex(I), NEW J, GoodIndex(J), NEW p, IsTailOf(J, I, p), NEW D, NEW j \in Nat, j >= 1, j < Len(J)
    PROVE  ReadItem(J, D, j) = ReadItem(I, D, j + p - 2)
<1> DEFINE m == j + p - 2
           x == IF j = 1 THEN Entry(J[2].filenum, 0) ELSE J[j]
           y == IF m = 1 THEN Entry(I[2].filenum, 0) ELSE I[m]
           u == IF x.filenum = J[j + 1].filenum THEN x.offset ELSE 0
           v == IF y.filenum = I[m + 1].filenum THEN y.offset ELSE 0
<1>1. Len(I) \in Nat /\ Len(J) \in Nat
  BY Zenon, Positions
<1>2. /\ p \in 2 .. Len(I) + 1 /\ Len(J) = Len(I) - p + 2
      /\ \A k \in 2 .. Len(J) : p + k - 2 \in 2 .. Len(I) /\ J[k] = I[p + k - 2]
      /\ p > 2 /\ p <= Len(I) => I[p - 1].filenum /= I[p].filenum
  BY Zenon DEF IsTailOf
<1>3. /\ j + 1 \in 2 .. Len(J) /\ p + (j + 1) - 2 = m + 1 /\ 2 \in 2 .. Len(J) /\ p + 2 - 2 = p
      /\ j /= 1 => j \in 2 .. Len(J) /\ p + j - 2 = m /\ m /= 1
      /\ p \in Nat /\ p >= 2 /\ p <= Len(I)
  BY <1>1, <1>2
<1>4. J[j + 1] = I[m + 1] /\ J[2] = I[p] /\ (j /= 1 => J[j] = I[m])
  BY ZenonT(40), <1>2, <1>3
<1>5. u = v
  <2>1. CASE j /= 1
    BY Zenon, <1>3, <1>4, <2>1
  <2>2. CASE j = 1 /\ p = 2
    <3>1. m = 1
      BY <2>2
    <3> QED BY Zenon, <1>4, <2>2, <3>1
  <2>3. CASE j = 1 /\ p /= 2
    <3>1. m = p - 1 /\ m /= 1 /\ p > 2 /\ m + 1 = p
      BY <1>3, <2>3
    <3>2. Entry(J[2].filenum, 0).offset = 0
      BY DEF Entry
    <3>3. u = 0
      BY Zenon, <2>3, <3>2
    <3>4. v = 0
      BY Zenon, <1>2, <1>3, <3>1
    <3> QED BY Zenon, <3>3, <3>4
  <2> QED BY <2>1, <2>2, <2>3
<1> DEFINE P(b, w) == IF b.offset <= Len(File(D, b.filenum)) THEN SubSeq(File(D, b.filenum), w + 1, b.offset) ELSE <<>>
<1>6. ReadItem(J, D, j) = P(J[j + 1], u) /\ ReadItem(I, D, m) = P(I[m + 1], v)
  BY Zenon DEF ReadItem
<1> HIDE DEF u, v, m, P
<1>7. ReadItem(J, D, j) = ReadItem(I, D, m)
  BY Zenon, <1>4, <1>5, <1>6
<1> QED BY Zenon, <1>7 DEF m

LEMMA TailItems ==
    ASSUME NEW I, GoodIndex(I), NEW J, GoodIndex(J), NEW p, IsTailOf(J, I, p), NEW D
    PROVE  /\ HeadOf(J) = HeadOf(I)
           /\ ItemsOf(J, D, HeadOf(J)) = [i \in J[1].offset .. HeadOf(I) - 1 |-> ItemsOf(I, D, HeadOf(I))[i]]
<1> DEFINE o == I[1].offset
           q == J[1].offset
           n == Len(I)
           z == Len(J)
           b == HeadOf(I)
<1>1. n \in Nat /\ z \in Nat /\ o \in Nat /\ q \in Nat /\ b = o + n - 1 /\ HeadOf(J) = q + z - 1
  BY Zenon, Positions
<1>2. p \in 2 .. n + 1 /\ z = n - p + 2 /\ q = o + p - 2
  BY Zenon DEF IsTailOf
<1> HIDE DEF o, q, n, z, b
<1>3. HeadOf(J) = b
  BY <1>1, <1>2
<1>4. ASSUME NEW i \in q .. b - 1
      PROVE  i \in o .. b - 1 /\ Decode(ReadItem(J, D, i - q + 1)) = Decode(ReadItem(I, D, i - o + 1))
  <2> DEFINE j == i - q + 1
  <2>1. i \in o .. b - 1 /\ j \in Nat /\ j >= 1 /\ j < z /\ j + p - 2 = i - o + 1
    BY <1>1, <1>2
  <2> HIDE DEF j
  <2>2. ReadItem(J, D, j) = ReadItem(I, D, j + p - 2)
    BY <2>1, TailRead DEF z
  <2> QED BY Zenon, <2>1, <2>2 DEF j
<1>5. ItemsOf(J, D, HeadOf(J)) = [i \in q .. b - 1 |-> Decode(ReadItem(J, D, i - q + 1))]
  BY Zenon, <1>3 DEF ItemsOf, q
<1>6. \A i \in o .. b - 1 : ItemsOf(I, D, b)[i] = Decode(ReadItem(I, D, i - o + 1))
  BY Zenon DEF ItemsOf, o
<1>7. ItemsOf(J, D, HeadOf(J)) = [i \in q .. b - 1 |-> ItemsOf(I, D, b)[i]]
  BY Zenon, <1>4, <1>5, <1>6
<1> QED BY Zenon, <1>3, <1>7 DEF q, b

\* The files that newTable finds hold the items of the index it finds.
LEMMA FoundAgrees ==
    ASSUME IInv, mode = "down", NEW I, I = RepairedIndex(idx, dat), NEW e, e = LastEntry(I),
           NEW bs, bs = SubSeq(File(dat, e.filenum), 1, e.offset)
    PROVE  Agrees(I, dat, WithFile(dat, e.filenum, bs))
<1> DEFINE f == e.filenum
           E == WithFile(dat, f, bs)
           J == repairIndex(idx)
<1>1. /\ GoodIndex(I) /\ Backed(I, E, f) /\ DataFiles(E) /\ Len(bs) = e.offset
      /\ \A g \in I[1].filenum .. f : g \in DOMAIN dat /\ E[f] = bs
  BY Zenon, FoundIndex
<1>2. DataFiles(dat) /\ GoodIndex(J)
  BY Zenon DEF IInv, Types, DownInv
<1>3. \A g \in DOMAIN dat : g /= f => E[g] = dat[g]
  BY Zenon DEF WithFile
<1>4. E[f] = bs
  BY Zenon DEF WithFile
<1>5. /\ Len(I) \in Nat /\ Len(I) >= 1 /\ I \in Seq(Entries) /\ \A k \in 1 .. Len(I) : I[k].offset \in Nat /\ I[k].filenum \in Nat
      /\ I[1].filenum \in Nat /\ J \in Seq(Entries) /\ Len(J) >= 1
  BY Zenon, <1>1, <1>2, Positions
<1>6. e.filenum \in Nat /\ e.offset \in Nat
  BY Zenon, <1>5, LastFacts
<1> HIDE DEF J
<1>7. ASSUME Len(I) /= 1 PROVE e.offset <= Len(File(dat, f))
  <2>1. I = repairLoop(J, dat)
    BY Zenon DEF RepairedIndex, J
  <2>2. PICK n \in 1 .. Len(J) : repairLoop(J, dat) = SubSeq(J, 1, n) /\ Fits(J, dat, n)
    BY Zenon, <1>2, <1>5, RepairLoopCut
  <2>3. Len(I) = n /\ \A k \in 1 .. n : I[k] = J[k]
    <3>1. Len(SubSeq(J, 1, n)) = n /\ \A k \in 1 .. n : SubSeq(J, 1, n)[k] = J[k]
      BY <1>5, PrefixFacts
    <3> QED BY Zenon, <2>1, <2>2, <3>1
  <2>4. n \in 1 .. n /\ Len(I) >= 2
    BY <1>5, <1>7, <2>3
  <2>5. e = J[n]
    BY Zenon, <1>5, <2>3, <2>4, LastFacts
  <2> QED BY Zenon, <1>7, <2>2, <2>3, <2>5 DEF Fits
<1> DEFINE s == dat[f]
<1>8. ASSUME NEW k \in 2 .. Len(I), I[k].filenum = f
      PROVE  /\ f \in DOMAIN dat /\ s \in Seq(Byte) /\ I[k].offset <= e.offset /\ e.offset <= Len(s)
             /\ \A p \in 1 .. I[k].offset : bs[p] = s[p]
  <2>1. k \in 1 .. Len(I) /\ Len(I) /= 1 /\ 1 \in 1 .. Len(I)
    BY <1>5
  <2>2. I[1].filenum <= I[k].filenum
    BY ZenonT(40), <1>1, <2>1, HeldFiles DEF Backed
  <2>3. f \in I[1].filenum .. f
    BY <1>5, <1>6, <1>8, <2>2
  <2>4. f \in DOMAIN dat
    BY Zenon, <1>1, <2>3
  <2>5. s \in Seq(Byte) /\ File(dat, f) = s
    BY Zenon, <1>2, <2>4 DEF DataFiles, File
  <2>6. I[k].offset <= e.offset /\ e.offset <= Len(s)
    BY Zenon, <1>1, <1>4, <1>7, <1>8, <2>1, <2>5 DEF Backed
  <2>7. \A p \in 1 .. I[k].offset : bs[p] = s[p]
    <3> DEFINE x == I[k].offset
               y == e.offset
    <3>1. x \in Nat /\ y \in Nat /\ x <= y /\ y <= Len(s) /\ bs = SubSeq(s, 1, y) /\ s \in Seq(Byte)
      BY Zenon, <1>5, <1>6, <2>1, <2>5, <2>6
    <3> HIDE DEF x, y, s
    <3>2. \A p \in 1 .. x : p \in 1 .. y /\ y \in 0 .. Len(s)
      BY <3>1
    <3>3. \A p \in 1 .. y : SubSeq(s, 1, y)[p] = s[p]
      BY <3>1
    <3>4. \A p \in 1 .. x : bs[p] = s[p]
      BY Zenon, <3>1, <3>2, <3>3
    <3> QED BY Zenon, <3>4 DEF x
  <2> QED BY Zenon, <2>4, <2>5, <2>6, <2>7
<1>9. ASSUME NEW k \in 2 .. Len(I)
      PROVE  LET g == I[k].filenum IN
             /\ g \in DOMAIN dat /\ g \in DOMAIN E
             /\ dat[g] \in Seq(Byte) /\ E[g] \in Seq(Byte)
             /\ I[k].offset <= Len(dat[g]) /\ I[k].offset <= Len(E[g])
             /\ \A p \in 1 .. I[k].offset : E[g][p] = dat[g][p]
  <2> DEFINE g == I[k].filenum
  <2>1. k \in 1 .. Len(I)
    BY <1>5
  <2>2. g \in DOMAIN E /\ E[g] \in Seq(Byte) /\ I[k].offset <= Len(E[g])
    <3>1. g \in DOMAIN E
      BY Zenon, <1>1, <2>1, HeldFiles DEF Backed
    <3> HIDE DEF E
    <3> QED BY Zenon, <1>1, <3>1 DEF Backed, Held, DataFiles
  <2>3. CASE g = f
    <3>1. \A x, y, z \in Nat : x <= y /\ y <= z => x <= z
      OBVIOUS
    <3>2. Len(s) \in Nat
      BY <1>8, <2>3
    <3>3. I[k].offset <= Len(s)
      BY ZenonT(40), <1>5, <1>6, <1>8, <2>1, <2>3, <3>1, <3>2
    <3>4. g \in DOMAIN dat /\ dat[g] \in Seq(Byte) /\ dat[g] = s /\ \A p \in 1 .. I[k].offset : bs[p] = s[p]
      BY Zenon, <1>8, <2>3
    <3>5. E[g] = bs
      BY Zenon, <1>4, <2>3
    <3> HIDE DEF E, s, g
    <3>6. I[k].offset <= Len(dat[g]) /\ \A p \in 1 .. I[k].offset : E[g][p] = dat[g][p]
      BY Zenon, <3>3, <3>4, <3>5
    <3> QED BY Zenon, <2>2, <3>4, <3>6 DEF g
  <2>4. CASE g /= f
    <3>1. g \in DOMAIN dat
      BY Zenon, <2>2, <2>4 DEF WithFile
    <3> HIDE DEF E
    <3> QED BY Zenon, <1>3, <2>2, <2>4, <3>1
  <2> QED BY Zenon, <2>3, <2>4
<1> HIDE DEF E
<1>10. Agrees(I, dat, E)
  BY Zenon, <1>9 DEF Agrees
<1> QED BY Zenon, <1>10 DEF E
====
