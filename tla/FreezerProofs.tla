---------------------------- MODULE FreezerProofs ----------------------------
(***************************************************************************)
(* Proofs about Freezer, for any tables, contents and bounds: the store is *)
(* consistent whenever no writer runs, a finished Sync keeps its promise,  *)
(* and the tables never disagree on a row.  The refinement of AncientTable *)
(* (FreezerRefinement) rests on the lemmas of the last part.               *)
(***************************************************************************)
EXTENDS FreezerRows, WellFoundedInduction, TLAPS

\* What SMT leaves open is tried with Zenon, and once more with Z3.
USE SMT, Zenon, Z3T(30)

(***************************************************************************)
(* Least and greatest elements.                                            *)
(***************************************************************************)
\* Every nonempty set of numbers has a least element.
LEMMA LeastNat ==
    ASSUME NEW S \in SUBSET Nat, S # {}
    PROVE  \E x \in S : \A y \in S : x <= y
<1>1. PICK x \in S : \A y \in S : ~ (<<y, x>> \in OpToRel(<, Nat))
  BY Zenon, NatLessThanWellFounded, WFMin
<1>2. \A y \in S : ~ (y < x)
  BY Zenon, <1>1 DEF OpToRel
<1> QED BY <1>2

\* Min and Max of the community modules are what their names say, on nonempty
\* sets of numbers, bounded ones for Max.
LEMMA MinNat ==
    ASSUME NEW S \in SUBSET Nat, S # {}
    PROVE  Min(S) \in S /\ \A y \in S : Min(S) <= y
BY Zenon, LeastNat DEF Min

LEMMA MaxNat ==
    ASSUME NEW n \in Nat, NEW S \in SUBSET (0 .. n), S # {}
    PROVE  Max(S) \in S /\ \A y \in S : Max(S) >= y
<1> DEFINE U == {m \in Nat : \A y \in S : m >= y}
<1>1. n \in U
  OBVIOUS
<1>2. PICK m \in U : \A k \in U : m <= k
  <2> HIDE DEF U
  <2> QED BY Zenon, <1>1, LeastNat DEF U
<1>3. m \in S
  <2>1. SUFFICES ASSUME m \notin S PROVE FALSE
    OBVIOUS
  <2>2. PICK y \in S : TRUE
    BY Zenon
  <2>3. m \in Nat /\ m > y
    BY <2>1, <2>2
  <2>4. m - 1 \in U
    BY <2>1, <2>3
  <2> QED BY <2>4, <1>2
<1> QED BY Zenon, <1>2, <1>3 DEF Max

\* The lesser and the greater of two integers.
LEMMA MinTwo ==
    ASSUME NEW a \in Int, NEW b \in Int
    PROVE  Min({a, b}) = IF a <= b THEN a ELSE b
BY DEF Min

LEMMA MaxTwo ==
    ASSUME NEW a \in Int, NEW b \in Int
    PROVE  Max({a, b}) = IF a >= b THEN a ELSE b
BY DEF Max

(***************************************************************************)
(* The operations on one table keep its bounds ordered and its items a     *)
(* function between them.                                                  *)
(***************************************************************************)
TableOK(X) == X \in T!Table /\ T!Ordered(X)

LEMMA ItemsType ==
    ASSUME NEW l \in 0 .. MaxItems, NEW h \in 0 .. MaxItems, NEW f \in [l .. h - 1 -> Values]
    PROVE  f \in T!Items
<1>1. l .. h - 1 \in SUBSET (0 .. MaxItems - 1)
  BY FreezerAssumption
<1> QED BY <1>1 DEF T!Items

\* The items that a cut keeps.
LEMMA CutItems ==
    ASSUME NEW X, TableOK(X), NEW l \in X.lo .. MaxItems, NEW h \in 0 .. X.head
    PROVE  /\ T!Cut(X, l, h) \in [l .. h - 1 -> Values]
           /\ T!Cut(X, l, h) \in T!Items
           /\ \A i \in l .. h - 1 : T!Cut(X, l, h)[i] = X.val[i]
<1>1. T!Cut(X, l, h) \in [l .. h - 1 -> Values]
  BY FreezerAssumption DEF TableOK, T!Table, T!Ordered, T!Cut
<1>2. l \in 0 .. MaxItems /\ h \in 0 .. MaxItems
  BY FreezerAssumption DEF TableOK, T!Table
<1>3. T!Cut(X, l, h) \in T!Items
  BY <1>1, <1>2, ItemsType
<1>4. \A i \in l .. h - 1 : T!Cut(X, l, h)[i] = X.val[i]
  BY DEF T!Cut
<1> QED BY <1>1, <1>3, <1>4

LEMMA EmptyOK == TableOK(T!EmptyTable)
<1>1. <<>> \in [0 .. 0 - 1 -> Values]
  OBVIOUS
<1>2. <<>> \in T!Items
  <2>1. 0 \in 0 .. MaxItems
    BY FreezerAssumption
  <2> QED BY Zenon, <1>1, <2>1, ItemsType
<1> QED BY <1>1, <1>2, FreezerAssumption DEF TableOK, T!EmptyTable, T!Table, T!Ordered

LEMMA AppendedOK ==
    ASSUME NEW X, TableOK(X), NEW n \in Nat, NEW vs \in [1 .. n -> Values], Len(vs) = n,
           X.head + n <= MaxItems
    PROVE  LET Y == T!Appended(X, vs) IN
           /\ TableOK(Y)
           /\ Y.head = X.head + n
           /\ Y.lo = X.lo /\ Y.hid = X.hid /\ Y.dur = X.dur /\ Y.hidDur = X.hidDur
           /\ \A i \in X.lo .. X.head - 1 : Y.val[i] = X.val[i]
           /\ \A i \in X.head .. X.head + n - 1 : Y.val[i] = vs[i - X.head + 1]
<1> DEFINE h == X.head + n
           new == [i \in X.lo .. h - 1 |-> IF i < X.head THEN X.val[i] ELSE vs[i - X.head + 1]]
           Y == T!Appended(X, vs)
<1>1. X \in T!Table /\ X.head \in Nat /\ X.lo \in Nat /\ X.lo <= X.head
  BY FreezerAssumption DEF TableOK, T!Table, T!Ordered
<1>2. new \in [X.lo .. h - 1 -> Values]
  <2> SUFFICES ASSUME NEW i \in X.lo .. h - 1
               PROVE  (IF i < X.head THEN X.val[i] ELSE vs[i - X.head + 1]) \in Values
    OBVIOUS
  <2>1. CASE i < X.head
    BY <1>1, <2>1 DEF TableOK, T!Ordered
  <2>2. CASE ~(i < X.head)
    <3>1. i - X.head + 1 \in 1 .. n
      BY <1>1, <2>2
    <3> QED BY <2>2, <3>1
  <2> QED BY <2>1, <2>2
<1>3. X.lo \in 0 .. MaxItems /\ h \in 0 .. MaxItems /\ X.dur <= h
  BY <1>1, FreezerAssumption DEF T!Table, TableOK, T!Ordered
<1>4. Y = [X EXCEPT !.head = h, !.val = new]
  <2> DEFINE new2 == [i \in X.lo .. X.head + Len(vs) - 1 |->
                       IF i < X.head THEN X.val[i] ELSE vs[i - X.head + 1]]
  <2>1. T!Appended(X, vs) = [X EXCEPT !.head = X.head + Len(vs), !.val = new2]
    BY DEF T!Appended
  <2>2. new2 = new
    BY <1>1
  <2> HIDE DEF new, new2
  <2> QED BY <2>1, <2>2
<1>5. \A i \in X.lo .. X.head - 1 : new[i] = X.val[i]
  BY <1>1
<1>6. \A i \in X.head .. X.head + n - 1 : new[i] = vs[i - X.head + 1]
  BY <1>1
<1> HIDE DEF h, new, Y
<1>7. new \in T!Items
  BY <1>2, <1>3, ItemsType
<1>8. /\ Y \in T!Table
      /\ Y.head = h /\ Y.val = new
      /\ Y.lo = X.lo /\ Y.hid = X.hid /\ Y.dur = X.dur /\ Y.hidDur = X.hidDur
  BY Zenon, <1>1, <1>3, <1>4, <1>7 DEF T!Table
<1>9. TableOK(Y)
  BY <1>2, <1>3, <1>8 DEF TableOK, T!Ordered
<1> QED BY <1>5, <1>6, <1>8, <1>9 DEF h, Y


\* A head truncation keeps the items below n, and makes them durable.
LEMMA TruncatedHeadOK ==
    ASSUME NEW X, TableOK(X), NEW n \in 0 .. MaxItems, X.head > n => X.hid <= n
    PROVE  LET Y == TruncatedHead(X, n) IN
           /\ TableOK(Y)
           /\ Y.head = IF X.head <= n THEN X.head ELSE n
           /\ Y.dur = IF X.head <= n THEN X.dur ELSE n
           /\ Y.lo = X.lo /\ Y.hid = X.hid /\ Y.hidDur = X.hidDur
           /\ \A i \in Y.lo .. Y.head - 1 : Y.val[i] = X.val[i]
<1>1. /\ X \in T!Table /\ X.head \in 0 .. MaxItems /\ X.lo \in 0 .. MaxItems
      /\ X.hid \in 0 .. MaxItems /\ X.hidDur \in 0 .. MaxItems /\ X.dur \in 0 .. MaxItems
      /\ X.lo <= X.hidDur /\ X.hidDur <= X.hid /\ X.lo <= X.dur /\ X.dur <= X.head
  BY DEF TableOK, T!Table, T!Ordered
<1>2. CASE X.head <= n
  BY <1>1, <1>2 DEF TruncatedHead
<1>3. CASE ~(X.head <= n)
  <2> DEFINE Y == T!HeadTruncated(X, n)
             cut == T!Cut(X, X.lo, n)
  <2>1. TruncatedHead(X, n) = Y /\ X.hid <= n /\ n \in 0 .. X.head /\ X.lo \in X.lo .. MaxItems
    BY <1>1, <1>3, FreezerAssumption DEF TruncatedHead
  <2>2. cut \in [X.lo .. n - 1 -> Values] /\ cut \in T!Items /\ \A i \in X.lo .. n - 1 : cut[i] = X.val[i]
    BY <2>1, CutItems
  <2>3. Y = [X EXCEPT !.head = n, !.val = cut, !.dur = n]
    BY DEF T!HeadTruncated
  <2> HIDE DEF Y, cut
  <2>4. /\ Y \in T!Table
        /\ Y.head = n /\ Y.val = cut /\ Y.dur = n
        /\ Y.lo = X.lo /\ Y.hid = X.hid /\ Y.hidDur = X.hidDur
    BY Zenon, <1>1, <2>2, <2>3 DEF T!Table
  <2>5. TableOK(Y)
    BY <1>1, <2>1, <2>2, <2>4, FreezerAssumption DEF TableOK, T!Ordered
  <2> QED BY <1>3, <2>1, <2>2, <2>4, <2>5
<1> QED BY <1>2, <1>3

\* A tail truncation hides the items below n.  If it also deletes some of them
\* the table is durable.
LEMMA TruncatedTailsOK ==
    ASSUME NEW X, TableOK(X), NEW n \in 0 .. MaxItems, X.hid < n => n <= X.head,
           NEW Y \in TruncatedTails(X, n)
    PROVE  /\ TableOK(Y)
           /\ Y.hid = IF X.hid >= n THEN X.hid ELSE n
           /\ Y.head = X.head
           /\ X.lo <= Y.lo /\ X.dur <= Y.dur /\ X.hidDur <= Y.hidDur
           /\ \A i \in Y.lo .. Y.head - 1 : Y.val[i] = X.val[i]
<1>1. /\ X \in T!Table /\ X.head \in 0 .. MaxItems /\ X.lo \in 0 .. MaxItems
      /\ X.hid \in 0 .. MaxItems /\ X.hidDur \in 0 .. MaxItems /\ X.dur \in 0 .. MaxItems
      /\ X.lo <= X.hidDur /\ X.hidDur <= X.hid /\ X.lo <= X.dur /\ X.dur <= X.head
      /\ X.val \in [X.lo .. X.head - 1 -> Values]
  BY DEF TableOK, T!Table, T!Ordered
<1>2. CASE X.hid >= n
  BY <1>1, <1>2 DEF TruncatedTails
<1>3. CASE ~(X.hid >= n)
  <2> DEFINE H == T!TailTruncated(X, n)
  <2>1. H = [X EXCEPT !.hid = n]
    BY DEF T!TailTruncated
  <2>2. Y = H \/ \E l \in X.lo + 1 .. n : Y = T!Dropped(H, l)
    BY <1>3 DEF TruncatedTails
  <2> HIDE DEF H
  <2>3. /\ H \in T!Table
        /\ H.head = X.head /\ H.val = X.val /\ H.dur = X.dur
        /\ H.lo = X.lo /\ H.hid = n /\ H.hidDur = X.hidDur
    BY <1>1, <2>1 DEF T!Table
  <2>4. TableOK(H)
    BY <1>1, <1>3, <2>3 DEF TableOK, T!Ordered
  <2>5. CASE Y = H
    BY <1>1, <1>3, <2>3, <2>4, <2>5
  <2>6. ASSUME NEW l \in X.lo + 1 .. n, Y = T!Dropped(H, l)
        PROVE  /\ TableOK(Y) /\ Y.hid = n /\ Y.head = X.head
               /\ X.lo <= Y.lo /\ X.dur <= Y.dur /\ X.hidDur <= Y.hidDur
               /\ \A i \in Y.lo .. Y.head - 1 : Y.val[i] = X.val[i]
    <3> DEFINE cut == T!Cut(H, l, H.head)
    <3>1. l \in H.lo .. MaxItems /\ H.head \in 0 .. H.head /\ l \in 0 .. MaxItems /\ l <= n
      BY <1>1, <2>3, FreezerAssumption
    <3>2. cut \in [l .. H.head - 1 -> Values] /\ cut \in T!Items
          /\ \A i \in l .. H.head - 1 : cut[i] = H.val[i]
      BY <2>4, <3>1, CutItems
    <3>3. Y = [H EXCEPT !.lo = l, !.val = cut, !.dur = H.head, !.hidDur = H.hid]
      BY <2>6 DEF T!Dropped
    <3> HIDE DEF cut
    <3>4. /\ Y \in T!Table
          /\ Y.head = H.head /\ Y.val = cut /\ Y.dur = H.head
          /\ Y.lo = l /\ Y.hid = H.hid /\ Y.hidDur = H.hid
      BY Zenon, <1>1, <2>3, <3>1, <3>2, <3>3 DEF T!Table
    <3>5. TableOK(Y)
      BY <1>1, <1>3, <2>3, <3>1, <3>2, <3>4, FreezerAssumption DEF TableOK, T!Ordered
    <3> QED BY <1>1, <1>3, <2>3, <3>1, <3>2, <3>4, <3>5
  <2> QED BY <1>3, <2>2, <2>5, <2>6
<1> QED BY <1>2, <1>3

\* A table that the repair cut to head a and tail z, and one that it cannot cut.
LEMMA RepairedOK ==
    ASSUME NEW Z, TableOK(Z), NEW a \in 0 .. MaxItems, NEW z \in 0 .. MaxItems, Z.head >= a, Z.hid <= z, Z.hid <= Z.head,
           NEW X, X = TruncatedHead(Z, a),
           ~(Z.head > a /\ a < Z.hid), ~(X.hid < z /\ X.head < z), NEW Y \in TruncatedTails(X, z)
    PROVE  /\ TableOK(Y) /\ Y.head = a /\ Y.hid = z /\ z <= a
           /\ Z.lo <= Y.lo /\ Z.hidDur <= Y.hidDur
           /\ Y.dur \in 0 .. MaxItems /\ (Y.dur = a \/ (Z.head = a /\ Z.dur <= Y.dur))
           /\ Y.dur <= Y.head /\ Y.lo \in 0 .. MaxItems
           /\ \A i \in Y.lo .. Y.head - 1 : Y.val[i] = Z.val[i]
<1>1. /\ Z.head \in Nat /\ Z.hid \in Nat /\ Z.lo \in Nat /\ Z.dur \in Nat /\ Z.hidDur \in Nat /\ a \in Nat /\ z \in Nat
  BY FreezerAssumption DEF TableOK, T!Table, T!Ordered
<1>2. Z.head > a => Z.hid <= a
  BY <1>1
<1>3. /\ TableOK(X) /\ X.hid = Z.hid /\ X.lo = Z.lo /\ X.hidDur = Z.hidDur
      /\ X.head = (IF Z.head <= a THEN Z.head ELSE a) /\ X.dur = (IF Z.head <= a THEN Z.dur ELSE a)
      /\ \A i \in X.lo .. X.head - 1 : X.val[i] = Z.val[i]
  BY ZenonT(40), <1>2, TruncatedHeadOK
<1>4. X.head = a /\ (X.dur = a \/ (Z.head = a /\ X.dur = Z.dur))
  BY <1>1, <1>3
<1>5. z <= a
  BY <1>1, <1>2, <1>3, <1>4
<1>6. X.hid < z => z <= X.head
  BY Zenon, <1>4, <1>5
<1>7. /\ TableOK(Y) /\ Y.head = X.head /\ X.dur <= Y.dur /\ X.lo <= Y.lo /\ X.hidDur <= Y.hidDur
      /\ Y.hid = (IF X.hid >= z THEN X.hid ELSE z)
      /\ \A i \in Y.lo .. Y.head - 1 : Y.val[i] = X.val[i]
  BY <1>3, <1>6, TruncatedTailsOK
<1>8. /\ Y.head \in Nat /\ Y.lo \in Nat /\ Y.dur \in Nat /\ Y.dur <= Y.head
      /\ Y.lo \in 0 .. MaxItems /\ Y.dur \in 0 .. MaxItems
  BY <1>7, FreezerAssumption DEF TableOK, T!Table, T!Ordered
<1>9. Y.hid = z /\ (Y.dur = a \/ (Z.head = a /\ Z.dur <= Y.dur))
  BY <1>1, <1>3, <1>4, <1>7, <1>8
<1>10. \A i \in Y.lo .. Y.head - 1 : Y.val[i] = Z.val[i]
  <2>1. \A i \in Y.lo .. Y.head - 1 : i \in X.lo .. X.head - 1
    BY <1>1, <1>3, <1>4, <1>7, <1>8
  <2> QED BY Zenon, <1>3, <1>7, <2>1
<1> QED BY Zenon, <1>3, <1>4, <1>5, <1>7, <1>8, <1>9, <1>10

LEMMA NotRepairedOK ==
    ASSUME NEW Z, TableOK(Z), NEW a \in 0 .. MaxItems, NEW z \in 0 .. MaxItems, Z.head >= a, Z.hid <= z,
           NEW X, X = TruncatedHead(Z, a),
           (Z.head > a /\ a < Z.hid) \/ (X.hid < z /\ X.head < z)
    PROVE  z > a
<1>1. Z.head \in Nat /\ Z.hid \in Nat /\ a \in Nat /\ z \in Nat
  BY FreezerAssumption DEF TableOK, T!Table, T!Ordered
<1>2. CASE Z.head > a /\ a < Z.hid
  BY <1>1, <1>2
<1>3. CASE ~(Z.head > a /\ a < Z.hid)
  <2>1. Z.head > a => Z.hid <= a
    BY <1>1, <1>3
  <2>2. X.head = (IF Z.head <= a THEN Z.head ELSE a)
    BY Zenon, <2>1, TruncatedHeadOK
  <2> QED BY <1>1, <1>3, <2>2
<1> QED BY Zenon, <1>2, <1>3

\* A flush.
LEMMA SyncedOK ==
    ASSUME NEW X, TableOK(X)
    PROVE  LET Y == T!Synced(X) IN
           /\ TableOK(Y)
           /\ Y.head = X.head /\ Y.lo = X.lo /\ Y.hid = X.hid /\ Y.val = X.val
           /\ Y.dur = X.head /\ Y.hidDur = X.hid
<1> DEFINE Y == T!Synced(X)
<1>1. Y = [X EXCEPT !.dur = X.head, !.hidDur = X.hid]
  BY DEF T!Synced
<1> HIDE DEF Y
<1>2. /\ Y \in T!Table
      /\ Y.head = X.head /\ Y.lo = X.lo /\ Y.hid = X.hid /\ Y.val = X.val
      /\ Y.dur = X.head /\ Y.hidDur = X.hid
  BY Zenon, <1>1 DEF TableOK, T!Table
<1>3. TableOK(Y)
  BY <1>2, FreezerAssumption DEF TableOK, T!Table, T!Ordered
<1> QED BY <1>2, <1>3 DEF Y

\* What a power failure leaves of a table.
LEMMA AfterCrashOK ==
    ASSUME NEW X, TableOK(X), NEW Y \in T!AfterCrash(X)
    PROVE  /\ TableOK(Y)
           /\ Y.lo = X.lo /\ Y.head \in X.dur .. X.head /\ Y.hid \in X.hidDur .. X.hid
           /\ Y.dur = Y.head /\ Y.hidDur = Y.hid
           /\ \A i \in Y.lo .. Y.head - 1 : Y.val[i] = X.val[i]
<1>1. /\ X \in T!Table /\ X.head \in 0 .. MaxItems /\ X.lo \in 0 .. MaxItems
      /\ X.hid \in 0 .. MaxItems /\ X.hidDur \in 0 .. MaxItems /\ X.dur \in 0 .. MaxItems
      /\ X.lo <= X.hidDur /\ X.hidDur <= X.hid /\ X.lo <= X.dur /\ X.dur <= X.head
  BY DEF TableOK, T!Table, T!Ordered
<1>2. PICK h \in X.dur .. X.head, d \in X.hidDur .. X.hid :
        Y = [lo |-> X.lo, head |-> h, val |-> T!Cut(X, X.lo, h), hid |-> d, dur |-> h, hidDur |-> d]
  BY DEF T!AfterCrash
<1> DEFINE cut == T!Cut(X, X.lo, h)
<1>3. h \in 0 .. X.head /\ h \in 0 .. MaxItems /\ d \in 0 .. MaxItems /\ X.lo \in X.lo .. MaxItems
  BY <1>1, FreezerAssumption
<1>4. cut \in [X.lo .. h - 1 -> Values] /\ cut \in T!Items /\ \A i \in X.lo .. h - 1 : cut[i] = X.val[i]
  BY Zenon, <1>3, CutItems
<1> HIDE DEF cut
<1>5. /\ Y \in T!Table
      /\ Y.head = h /\ Y.val = cut /\ Y.dur = h /\ Y.lo = X.lo /\ Y.hid = d /\ Y.hidDur = d
  BY <1>1, <1>2, <1>3, <1>4 DEF T!Table, cut
<1>6. TableOK(Y)
  BY <1>1, <1>3, <1>4, <1>5 DEF TableOK, T!Ordered
<1> QED BY <1>1, <1>4, <1>5, <1>6

(***************************************************************************)
(* The inductive invariant.                                                *)
(***************************************************************************)
\* Every table of set S has its next row at h and its virtual tail at d.
At(S, h, d) == \A t \in S : tabs[t].head = h /\ tabs[t].hid = d

\* The rows of a batch that all tables will hold.
Batch == \E n \in 1 .. MaxItems - frozen : arg \in [1 .. n -> Values] /\ Len(arg) = n

\* What the holder of writeLock has done to the tables.
WriterInv ==
    /\ mode = "open" => tail <= frozen /\ pc /= "repair"
    /\ Idle => At(Tables, frozen, tail)
    /\ Busy("write") =>
         /\ Batch
         /\ \A t \in Tables : tabs[t].head \in frozen .. frozen + Len(arg) /\ tabs[t].hid = tail
    /\ Busy("rollback") =>
         /\ arg = frozen
         /\ \A t \in Tables : tabs[t].head >= frozen /\ tabs[t].hid = tail
         /\ At(Tables \ todo, frozen, tail)
    /\ Busy("truncateHead") =>
         /\ arg \in tail .. frozen - 1 /\ safe <= arg /\ syncGoal <= arg
         /\ At(todo, frozen, tail) /\ At(Tables \ todo, arg, tail)
    /\ Busy("truncateTail") =>
         /\ arg \in tail + 1 .. frozen
         /\ At(todo, frozen, tail) /\ At(Tables \ todo, frozen, arg)

\* What the repair has done: it ends with the shortest head and the highest
\* tail, which fit one another as soon as one table has passed it.
RepairInv ==
    /\ mode /= "open" => pc \in {"idle", "repair"}
    /\ mode = "failed" => pc = "idle"
    /\ pc = "repair" =>
         /\ arg \in [head : 0 .. MaxItems, tail : 0 .. MaxItems] /\ safe <= arg.head
         /\ \A t \in Tables : tabs[t].head >= arg.head /\ tabs[t].hid <= arg.tail
         /\ \E t \in Tables : tabs[t].hid = arg.tail
         /\ \A t \in todo : tabs[t].hid <= tabs[t].head
         /\ At(Tables \ todo, arg.head, arg.tail)
         /\ todo /= Tables => arg.tail <= arg.head

\* What a Sync has done.
SyncInv ==
    /\ mode = "open" => safe <= frozen /\ syncGoal <= frozen
    /\ syncGoal /= -1 => mode = "open"
    /\ \A t \in Tables \ syncTodo : tabs[t].dur >= syncGoal

FailInv == mode = "failed" => \E t \in Tables : tabs[t].hid > safe

IInv == TypeOK /\ WriterInv /\ RepairInv /\ SyncInv /\ SyncKeeps /\ FailInv

----
\* What TypeOK says of one table, as numbers.
LEMMA TableFacts ==
    ASSUME TypeOK, NEW t \in Tables
    PROVE  /\ TableOK(tabs[t])
           /\ tabs[t].lo \in 0 .. MaxItems /\ tabs[t].head \in 0 .. MaxItems
           /\ tabs[t].dur \in 0 .. MaxItems /\ tabs[t].hid \in 0 .. MaxItems
           /\ tabs[t].hidDur \in 0 .. MaxItems
           /\ tabs[t].lo <= tabs[t].hidDur /\ tabs[t].hidDur <= tabs[t].hid
           /\ tabs[t].lo <= tabs[t].dur /\ tabs[t].dur <= tabs[t].head
<1>1. tabs[t] \in T!Table /\ T!Ordered(tabs[t])
  BY DEF TypeOK
<1> QED BY <1>1 DEF TableOK, T!Table, T!Ordered

LEMMA TableNats ==
    ASSUME IInv, NEW t \in Tables
    PROVE  /\ TableOK(tabs[t]) /\ tabs[t].lo \in Nat /\ tabs[t].head \in Nat /\ tabs[t].dur \in Nat
           /\ tabs[t].hid \in Nat /\ tabs[t].hidDur \in Nat /\ MaxItems \in Nat
           /\ tabs[t].lo <= tabs[t].hid /\ tabs[t].dur <= tabs[t].head
<1>1. TypeOK
  BY Zenon DEF IInv
<1> QED BY <1>1, TableFacts, FreezerAssumption

\* A step that replaces one table.
LEMMA OneTable ==
    ASSUME TypeOK, NEW t \in Tables, NEW Y, TableOK(Y), tabs' = [tabs EXCEPT ![t] = Y]
    PROVE  /\ tabs' \in [Tables -> T!Table] /\ \A u \in Tables : T!Ordered(tabs'[u])
           /\ tabs'[t] = Y /\ \A u \in Tables \ {t} : tabs'[u] = tabs[u]
BY DEF TypeOK, TableOK

\* The shortest head and the highest virtual tail are those of some table.
LEMMA Extremes ==
    ASSUME TypeOK
    PROVE  /\ Min(Heads(tabs)) \in 0 .. MaxItems /\ Max(Tails(tabs)) \in 0 .. MaxItems
           /\ \A t \in Tables : Min(Heads(tabs)) <= tabs[t].head /\ tabs[t].hid <= Max(Tails(tabs))
           /\ \E t \in Tables : Min(Heads(tabs)) = tabs[t].head
           /\ \E t \in Tables : Max(Tails(tabs)) = tabs[t].hid
<1>1. Heads(tabs) \in SUBSET (0 .. MaxItems) /\ Heads(tabs) # {}
  BY TableFacts, FreezerAssumption DEF Heads
<1>2. Tails(tabs) \in SUBSET (0 .. MaxItems) /\ Tails(tabs) # {}
  BY TableFacts, FreezerAssumption DEF Tails
<1>3. Min(Heads(tabs)) \in Heads(tabs) /\ \A y \in Heads(tabs) : Min(Heads(tabs)) <= y
  <2>1. Heads(tabs) \in SUBSET Nat
    BY <1>1, FreezerAssumption
  <2> QED BY <1>1, <2>1, MinNat
<1>4. Max(Tails(tabs)) \in Tails(tabs) /\ \A y \in Tails(tabs) : Max(Tails(tabs)) >= y
  BY Zenon, <1>2, FreezerAssumption, MaxNat
<1>5. /\ Min(Heads(tabs)) \in 0 .. MaxItems
      /\ \A t \in Tables : Min(Heads(tabs)) <= tabs[t].head
      /\ \E t \in Tables : Min(Heads(tabs)) = tabs[t].head
  BY Zenon, <1>1, <1>3 DEF Heads
<1>6. /\ Max(Tails(tabs)) \in 0 .. MaxItems
      /\ \A t \in Tables : tabs[t].hid <= Max(Tails(tabs))
      /\ \E t \in Tables : Max(Tails(tabs)) = tabs[t].hid
  <2> DEFINE m == Max(Tails(tabs))
  <2>1. m \in Tails(tabs) /\ \A y \in Tails(tabs) : m >= y
    BY <1>4
  <2> HIDE DEF m
  <2>2. m \in 0 .. MaxItems /\ (\A t \in Tables : m >= tabs[t].hid) /\ \E t \in Tables : m = tabs[t].hid
    BY <1>2, <2>1 DEF Tails
  <2> QED BY <2>2, TableFacts DEF m
<1> QED BY <1>5, <1>6

LEMMA InitIInv == Init => IInv
<1> SUFFICES ASSUME Init PROVE IInv
  OBVIOUS
<1> USE FreezerAssumption
<1>1. \A t \in Tables : tabs[t] = T!EmptyTable
  BY DEF Init
<1>2. T!EmptyTable \in T!Table /\ T!Ordered(T!EmptyTable)
  BY EmptyOK DEF TableOK
<1>3. TypeOK
  BY <1>1, <1>2 DEF Init, TypeOK
<1>4. T!EmptyTable.head = 0 /\ T!EmptyTable.hid = 0 /\ T!EmptyTable.dur = 0
  BY DEF T!EmptyTable
<1> QED BY <1>1, <1>3, <1>4
    DEF Init, IInv, WriterInv, RepairInv, SyncInv, SyncKeeps, FailInv, Idle, Busy, At

----
(***************************************************************************)
(* One lemma per action.  First the actions that leave the tables alone.   *)
(***************************************************************************)
LEMMA InvModifyAncients == IInv /\ ModifyAncients => IInv'
<1> SUFFICES ASSUME IInv, ModifyAncients PROVE IInv'
  OBVIOUS
<1>0. PICK n \in 1 .. Min({MaxBatch, MaxItems - frozen}) : \E vs \in [1 .. n -> Values] : Acquire("write", vs)
  BY DEF ModifyAncients
<1>1. PICK vs \in [1 .. n -> Values] : Acquire("write", vs)
  BY <1>0
<1>2. n \in 1 .. MaxItems - frozen
  BY FreezerAssumption, MinTwo DEF IInv, TypeOK
<1>3. Len(vs) = n
  BY <1>2
<1>4. UNCHANGED <<tabs, frozen, tail, syncVars, mode, crashes>> /\ Idle
  BY DEF ModifyAncients
<1>5. TypeOK'
  BY <1>1, <1>4 DEF IInv, TypeOK, Acquire, syncVars
<1>6. Batch' /\ arg' = vs
  BY <1>1, <1>2, <1>3, <1>4 DEF Batch, Acquire
<1>7. WriterInv'
  BY SMTT(30), Z3T(30), <1>1, <1>4, <1>6, TableFacts DEF IInv, WriterInv, TypeOK, Idle, Busy, At, Acquire
<1> QED BY <1>1, <1>4, <1>5, <1>7
    DEF IInv, RepairInv, SyncInv, SyncKeeps, FailInv, Idle, Acquire, syncVars

LEMMA InvcommitDone ==
    ASSUME IInv, commitDone
    PROVE  IInv'
<1>1. frozen' = frozen + Len(arg) /\ frozen' \in 0 .. MaxItems /\ frozen <= frozen'
  BY FreezerAssumption DEF commitDone, Batch, IInv, TypeOK, WriterInv, RepairInv, SyncInv, SyncKeeps, FailInv, Idle, Busy, At
<1>2. \A t \in Tables : tabs[t].head = frozen' /\ tabs[t].hid = tail
  BY <1>1, TableFacts DEF commitDone, Written, IInv, TypeOK, WriterInv, RepairInv, SyncInv, SyncKeeps, FailInv, Idle, Busy, At
<1>3. TypeOK'
  BY <1>1 DEF commitDone, Release, syncVars, IInv, TypeOK
<1>4. WriterInv'
  BY <1>1, <1>2 DEF commitDone, Release, IInv, TypeOK, WriterInv, RepairInv, SyncInv, SyncKeeps, FailInv, Idle, Busy, At
<1> QED BY <1>1, <1>3, <1>4 DEF commitDone, Release, syncVars, IInv, TypeOK, WriterInv, RepairInv, SyncInv, SyncKeeps, FailInv, Idle, Busy, At

LEMMA InvmodifyFails ==
    ASSUME IInv, modifyFails
    PROVE  IInv'
<1>1. TypeOK'
  BY DEF modifyFails, Acquire, syncVars, IInv, TypeOK
<1>2. WriterInv'
  BY TableFacts DEF modifyFails, Acquire, Batch, IInv, TypeOK, WriterInv, RepairInv, SyncInv, SyncKeeps, FailInv, Idle, Busy, At
<1> QED BY <1>1, <1>2 DEF modifyFails, Acquire, syncVars, IInv, TypeOK, WriterInv, RepairInv, SyncInv, SyncKeeps, FailInv, Idle, Busy, At

LEMMA InvrollbackDone ==
    ASSUME IInv, rollbackDone
    PROVE  IInv'
<1>1. TypeOK'
  BY DEF rollbackDone, Release, syncVars, IInv, TypeOK
<1>2. WriterInv'
  BY DEF rollbackDone, Release, IInv, TypeOK, WriterInv, RepairInv, SyncInv, SyncKeeps, FailInv, Idle, Busy, At
<1> QED BY <1>1, <1>2 DEF rollbackDone, Release, syncVars, IInv, TypeOK, WriterInv, RepairInv, SyncInv, SyncKeeps, FailInv, Idle, Busy, At

LEMMA InvTruncateHead ==
    ASSUME IInv, NEW n \in 0 .. MaxItems, TruncateHead(n)
    PROVE  IInv'
<1>1. /\ safe' \in 0 .. MaxItems /\ safe' <= n /\ safe' <= safe
      /\ syncGoal' \in -1 .. MaxItems /\ syncGoal' <= n /\ syncGoal' <= syncGoal
      /\ (syncGoal' /= -1 => syncGoal /= -1)
  BY FreezerAssumption, MinTwo DEF TruncateHead, IInv, TypeOK
<1>2. TypeOK'
  BY <1>1 DEF TruncateHead, Acquire, IInv, TypeOK
<1>3. WriterInv'
  BY <1>1 DEF TruncateHead, Acquire, IInv, TypeOK, WriterInv, RepairInv, SyncInv, SyncKeeps, FailInv, Idle, Busy, At
<1>4. SyncKeeps'
  BY <1>1, TableFacts DEF TruncateHead, IInv, SyncKeeps, TypeOK
<1>5. SyncInv'
  <2>1. \A t \in Tables \ syncTodo : tabs[t].dur >= syncGoal'
    BY <1>1, TableFacts DEF IInv, SyncInv, TypeOK
  <2>2. safe' <= frozen /\ syncGoal' <= frozen /\ mode = "open"
    BY <1>1, FreezerAssumption DEF TruncateHead, IInv, TypeOK, Idle
  <2> QED BY <1>1, <2>1, <2>2 DEF TruncateHead, SyncInv
<1> QED BY <1>1, <1>2, <1>3, <1>4, <1>5 DEF TruncateHead, Acquire, IInv, RepairInv, FailInv, Idle

LEMMA InvtruncateHeadDone ==
    ASSUME IInv, truncateHeadDone
    PROVE  IInv'
<1>1. TypeOK'
  BY FreezerAssumption DEF truncateHeadDone, Release, syncVars, IInv, TypeOK, WriterInv, RepairInv, SyncInv, SyncKeeps, FailInv, Idle, Busy, At
<1>2. WriterInv'
  BY SMTT(30), Z3T(30) DEF truncateHeadDone, Release, IInv, TypeOK, WriterInv, RepairInv, SyncInv, SyncKeeps, FailInv, Idle, Busy, At
<1> QED BY <1>1, <1>2 DEF truncateHeadDone, Release, syncVars, IInv, TypeOK, WriterInv, RepairInv, SyncInv, SyncKeeps, FailInv, Idle, Busy, At

LEMMA InvTruncateTail ==
    ASSUME IInv, NEW n \in 0 .. MaxItems, TruncateTail(n)
    PROVE  IInv'
<1>1. TypeOK'
  BY ZenonT(40) DEF TruncateTail, Acquire, syncVars, IInv, TypeOK
<1>2. WriterInv'
  BY DEF TruncateTail, Acquire, IInv, TypeOK, WriterInv, RepairInv, SyncInv, SyncKeeps, FailInv, Idle, Busy, At
<1> QED BY <1>1, <1>2 DEF TruncateTail, Acquire, syncVars, IInv, TypeOK, WriterInv, RepairInv, SyncInv, SyncKeeps, FailInv, Idle, Busy, At

LEMMA InvtruncateTailDone ==
    ASSUME IInv, truncateTailDone
    PROVE  IInv'
<1>1. TypeOK'
  BY FreezerAssumption DEF truncateTailDone, Release, syncVars, IInv, TypeOK, WriterInv, RepairInv, SyncInv, SyncKeeps, FailInv, Idle, Busy, At
<1>2. WriterInv'
  BY DEF truncateTailDone, Release, IInv, TypeOK, WriterInv, RepairInv, SyncInv, SyncKeeps, FailInv, Idle, Busy, At
<1> QED BY Zenon, <1>1, <1>2 DEF truncateTailDone, Release, syncVars, IInv, TypeOK, WriterInv, RepairInv, SyncInv, SyncKeeps, FailInv, Idle, Busy, At

LEMMA InvSync ==
    ASSUME IInv, Sync
    PROVE  IInv'
<1>1. syncGoal' \in 0 .. MaxItems /\ syncGoal' <= frozen /\ (pc = "truncateHead" => syncGoal' = arg)
  BY FreezerAssumption DEF Sync, IInv, TypeOK, WriterInv, RepairInv, SyncInv, SyncKeeps, FailInv, Idle, Busy, At
<1>2. TypeOK'
  BY <1>1, FreezerAssumption DEF Sync, lockVars, IInv, TypeOK
<1>3. WriterInv'
  <2>1. /\ mode = "open" /\ mode' = mode /\ pc' = pc /\ todo' = todo /\ arg' = arg
        /\ frozen' = frozen /\ tail' = tail /\ safe' = safe /\ tabs' = tabs
    BY Zenon DEF Sync, lockVars
  <2>2. pc = "truncateHead" => syncGoal' <= arg
    BY SMTT(30), Z3T(30), <1>1, FreezerAssumption
  <2> QED BY Zenon, <2>1, <2>2 DEF IInv, WriterInv, Batch, Busy, Idle, At
<1> QED BY <1>1, <1>2, <1>3 DEF Sync, lockVars, IInv, TypeOK, WriterInv, RepairInv, SyncInv, SyncKeeps, FailInv, Idle, Busy, At

LEMMA InvsyncDone ==
    ASSUME IInv, syncDone
    PROVE  IInv'
<1>1. /\ safe' = (IF safe >= syncGoal THEN safe ELSE syncGoal) /\ safe' \in 0 .. MaxItems
      /\ syncGoal' = -1
  BY FreezerAssumption, MaxTwo DEF syncDone, IInv, TypeOK
<1>2. TypeOK'
  BY SMTT(30), Z3T(30), <1>1, FreezerAssumption DEF syncDone, lockVars, IInv, TypeOK
<1>3. WriterInv'
  BY <1>1, FreezerAssumption DEF syncDone, lockVars, Batch, IInv, TypeOK, WriterInv, RepairInv, SyncInv, SyncKeeps, FailInv, Idle, Busy, At
<1>4. SyncKeeps'
  BY <1>1, TableFacts DEF syncDone, IInv, SyncKeeps, SyncInv, TypeOK
<1>5. SyncInv'
  <2>1. \A t \in Tables \ syncTodo : tabs[t].dur >= -1
    BY TableFacts DEF IInv
  <2> QED BY <1>1, <2>1, FreezerAssumption DEF syncDone, IInv, SyncInv, TypeOK
<1> QED BY <1>1, <1>2, <1>3, <1>4, <1>5 DEF syncDone, lockVars, IInv, WriterInv, RepairInv, FailInv

LEMMA InvNewFreezer ==
    ASSUME IInv, NewFreezer
    PROVE  IInv'
<1>1. mode = "down" /\ pc = "idle" /\ UNCHANGED <<tabs, frozen, tail, syncVars, crashes>>
  BY DEF NewFreezer
<1>2. TypeOK
  BY DEF IInv
<1>3. CASE \A t \in Tables : T!Openable(tabs[t])
  <2> DEFINE h == Min(Heads(tabs))
             d == Max(Tails(tabs))
  <2>1. Acquire("repair", [head |-> h, tail |-> d]) /\ UNCHANGED mode
    BY <1>3 DEF NewFreezer
  <2>2. /\ h \in 0 .. MaxItems /\ d \in 0 .. MaxItems
        /\ \A t \in Tables : h <= tabs[t].head /\ tabs[t].hid <= d
        /\ \E t \in Tables : h = tabs[t].head
        /\ \E t \in Tables : d = tabs[t].hid
    BY <1>2, Extremes
  <2> HIDE DEF h, d
  <2>3. safe <= h
    BY <1>2, <2>2, TableFacts DEF IInv, SyncKeeps, TypeOK
  <2>4. \A t \in Tables : tabs[t].head >= h
    BY <1>2, <2>2, TableFacts
  <2>5. RepairInv'
    BY <1>1, <1>3, <2>1, <2>2, <2>3, <2>4 DEF RepairInv, At, Acquire, T!Openable, syncVars
  <2>6. TypeOK'
    BY ZenonT(40), <1>1, <2>1 DEF IInv, TypeOK, Acquire, syncVars
  <2> QED BY <1>1, <2>1, <2>5, <2>6 DEF IInv, WriterInv, SyncInv, SyncKeeps, FailInv, Acquire, syncVars, Idle, Busy
<1>4. CASE ~ \A t \in Tables : T!Openable(tabs[t])
  <2>1. mode' = "failed" /\ UNCHANGED lockVars
    BY <1>4 DEF NewFreezer
  <2>2. PICK t \in Tables : ~(tabs[t].hid <= tabs[t].head)
    BY <1>4 DEF T!Openable
  <2>3. tabs[t].hid > safe
    BY <1>2, <2>2, TableFacts DEF IInv, SyncKeeps, TypeOK
  <2>4. TypeOK'
    BY <1>1, <2>1 DEF IInv, TypeOK, lockVars, syncVars
  <2> QED BY <1>1, <2>1, <2>3, <2>4
      DEF IInv, WriterInv, RepairInv, SyncInv, SyncKeeps, FailInv, lockVars, syncVars, Idle, Busy
<1> QED BY <1>3, <1>4

LEMMA InvrepairDone ==
    ASSUME IInv, repairDone
    PROVE  IInv'
<1>1. mode = "down" /\ pc = "repair" /\ UNCHANGED <<tabs, syncVars, crashes>>
  BY DEF repairDone
<1>2. /\ frozen' \in 0 .. MaxItems /\ tail' \in 0 .. MaxItems
      /\ tail' <= frozen' /\ safe <= frozen' /\ At(Tables, frozen', tail')
  BY FreezerAssumption DEF repairDone, IInv, RepairInv, At
<1>3. syncGoal = -1
  BY <1>1 DEF IInv, SyncInv
<1>4. TypeOK'
  BY <1>1, <1>2 DEF repairDone, Release, syncVars, IInv, TypeOK
<1>5. WriterInv'
  BY <1>1, <1>2 DEF repairDone, Release, WriterInv, Idle, Busy, At
<1>6. SyncInv'
  BY SMTT(30), Z3T(30), <1>1, <1>2, <1>3, FreezerAssumption DEF repairDone, IInv, SyncInv, syncVars
<1> QED BY <1>1, <1>4, <1>5, <1>6 DEF repairDone, Release, IInv, RepairInv, SyncKeeps, FailInv, syncVars

LEMMA InvReset ==
    ASSUME IInv, Reset
    PROVE  IInv'
<1>1. \A t \in Tables : tabs'[t] = T!EmptyTable
  BY DEF Reset
<1>2. T!EmptyTable \in T!Table /\ T!Ordered(T!EmptyTable)
  BY EmptyOK DEF TableOK
<1>3. T!EmptyTable.head = 0 /\ T!EmptyTable.hid = 0 /\ T!EmptyTable.dur = 0
  BY DEF T!EmptyTable
<1>4. TypeOK'
  BY <1>2, FreezerAssumption DEF Reset, lockVars, IInv, TypeOK
<1>5. WriterInv'
  BY <1>1, <1>3 DEF Reset, lockVars, WriterInv, Idle, Busy, At
<1>6. SyncInv' /\ SyncKeeps'
  BY SMTT(30), Z3T(30), <1>1, <1>3 DEF Reset, IInv, SyncInv, SyncKeeps, Idle
<1> QED BY <1>4, <1>5, <1>6 DEF Reset, lockVars, IInv, RepairInv, FailInv, Idle

\* Close and a power failure stop the store, with tables of which all that was
\* promised to be durable is left.
LEMMA InvStopped ==
    ASSUME IInv, Stopped, safe' = safe, crashes' \in 0 .. MaxCrashes,
           tabs' \in [Tables -> T!Table], \A t \in Tables : T!Ordered(tabs'[t]) /\ tabs'[t].dur >= tabs[t].dur
    PROVE  IInv'
<1>1. TypeOK'
  BY FreezerAssumption DEF Stopped, IInv, TypeOK
<1>2. \A t \in Tables : tabs'[t].dur \in Nat
  BY FreezerAssumption DEF T!Table
<1>3. SyncKeeps'
  BY <1>2, TableFacts DEF IInv, SyncKeeps, TypeOK
<1>4. SyncInv'
  BY <1>2 DEF Stopped, SyncInv
<1> QED BY <1>1, <1>3, <1>4 DEF Stopped, IInv, WriterInv, RepairInv, FailInv, Idle, Busy

LEMMA InvClose ==
    ASSUME IInv, Close
    PROVE  IInv'
<1>1. \A t \in Tables : TableOK(tabs'[t]) /\ tabs'[t].dur >= tabs[t].dur
  <2> SUFFICES ASSUME NEW t \in Tables
               PROVE  TableOK(T!Synced(tabs[t])) /\ T!Synced(tabs[t]).dur >= tabs[t].dur
    BY DEF Close
  <2>1. TableOK(tabs[t]) /\ tabs[t].dur \in Nat /\ tabs[t].head \in Nat /\ tabs[t].dur <= tabs[t].head
    BY Zenon, TableNats
  <2> QED BY <2>1, SyncedOK
<1>2. tabs' \in [Tables -> T!Table]
  BY <1>1 DEF Close, TableOK
<1> QED BY <1>1, <1>2, InvStopped DEF Close, TableOK, IInv, TypeOK

LEMMA InvCrash ==
    ASSUME IInv, Crash
    PROVE  IInv'
<1> DEFINE images == [t \in Tables |-> T!AfterCrash(tabs[t])]
<1>1. tabs' \in [Tables -> UNION Range(images)] /\ \A t \in Tables : tabs'[t] \in T!AfterCrash(tabs[t])
  BY DEF Crash
<1>2. \A t \in Tables : TableOK(tabs'[t]) /\ tabs'[t].dur >= tabs[t].dur
  <2> SUFFICES ASSUME NEW t \in Tables
               PROVE  TableOK(tabs'[t]) /\ tabs'[t].dur >= tabs[t].dur
    OBVIOUS
  <2>1. TableOK(tabs[t]) /\ tabs[t].dur \in Nat /\ tabs[t].head \in Nat /\ tabs[t].dur <= tabs[t].head
    BY Zenon, TableNats
  <2>2. tabs'[t] \in T!AfterCrash(tabs[t])
    BY <1>1
  <2> HIDE DEF images
  <2> QED BY <2>1, <2>2, AfterCrashOK
<1>3. tabs' \in [Tables -> T!Table]
  <2> HIDE DEF images
  <2> QED BY <1>1, <1>2 DEF TableOK
<1>4. crashes' \in 0 .. MaxCrashes
  BY FreezerAssumption DEF Crash, IInv, TypeOK
<1> QED BY <1>2, <1>3, <1>4, InvStopped DEF Crash, TableOK

(***************************************************************************)
(* The actions that change one table.                                      *)
(***************************************************************************)
\* A step of a writer, of the repair or of a Sync on one table that loses no
\* durable row which a Sync has promised or is about to promise.
LEMMA KeepsSync ==
    ASSUME IInv, NEW t \in Tables, NEW Y, TableOK(Y), tabs' = [tabs EXCEPT ![t] = Y],
           Y.dur >= safe, t \notin syncTodo' => Y.dur >= syncGoal,
           syncTodo \subseteq syncTodo' \cup {t}, UNCHANGED <<safe, syncGoal>>,
           mode' = mode, frozen' = frozen
    PROVE  SyncInv' /\ SyncKeeps'
<1>1. tabs'[t] = Y /\ \A u \in Tables \ {t} : tabs'[u] = tabs[u]
  BY Zenon, OneTable DEF IInv
<1>2. \A u \in Tables : tabs'[u].dur >= safe
  BY <1>1 DEF IInv, SyncKeeps
<1>3. \A u \in Tables \ syncTodo' : tabs'[u].dur >= syncGoal
  BY <1>1 DEF IInv, SyncInv
<1> QED BY <1>2, <1>3 DEF IInv, SyncInv, SyncKeeps

\* The rows that commitTable appends.
LEMMA SubBatch ==
    ASSUME NEW n \in Nat, NEW vs \in [1 .. n -> Values], Len(vs) = n,
           NEW w \in Nat, NEW k \in w + 1 .. n
    PROVE  /\ SubSeq(vs, w + 1, k) \in [1 .. k - w -> Values]
           /\ Len(SubSeq(vs, w + 1, k)) = k - w
           /\ \A i \in 1 .. k - w : SubSeq(vs, w + 1, k)[i] = vs[w + i]
<1> DEFINE sub == SubSeq(vs, w + 1, k)
<1>1. w + 1 \in Int /\ k \in Int /\ \A i \in w + 1 .. k : vs[i] \in Values
  OBVIOUS
<1>2. /\ sub \in Seq(Values) /\ Len(sub) = IF w + 1 <= k THEN k - (w + 1) + 1 ELSE 0
      /\ \A i \in 1 .. k - (w + 1) + 1 : sub[i] = vs[(w + 1) + i - 1]
  BY <1>1
<1> HIDE DEF sub
<1>3. Len(sub) = k - w /\ \A i \in 1 .. k - w : sub[i] = vs[w + i]
  <2>1. \A i \in 1 .. k - w : i \in 1 .. k - (w + 1) + 1 /\ (w + 1) + i - 1 = w + i
    OBVIOUS
  <2>2. Len(sub) = k - w
    BY <1>2
  <2> QED BY <1>2, <2>1, <2>2
<1>4. sub \in [1 .. Len(sub) -> Values]
  BY <1>2
<1> QED BY <1>3, <1>4 DEF sub

LEMMA InvcommitTable ==
    ASSUME IInv, NEW t \in Tables, commitTable(t)
    PROVE  IInv'
<1> DEFINE w == Written(t)
<1>0. /\ Busy("write") /\ mode = "open" /\ pc = "write"
      /\ UNCHANGED <<frozen, tail, lockVars, syncVars, mode, crashes>>
  BY Zenon DEF commitTable, Busy
<1>1. PICK n \in 1 .. MaxItems - frozen : arg \in [1 .. n -> Values] /\ Len(arg) = n
  BY ZenonT(40), <1>0 DEF IInv, WriterInv, Batch
<1>2. /\ frozen \in Nat /\ tabs[t].head \in frozen .. frozen + n
      /\ w = tabs[t].head - frozen /\ w \in Nat
      /\ \A u \in Tables : tabs[u].head \in frozen .. frozen + n /\ tabs[u].hid = tail
  BY <1>0, <1>1, FreezerAssumption DEF IInv, TypeOK, WriterInv, Written
<1>3. PICK k \in w + 1 .. n : tabs' = [tabs EXCEPT ![t] = T!Appended(tabs[t], SubSeq(arg, w + 1, k))]
  BY Zenon, <1>1 DEF commitTable
<1> DEFINE sub == SubSeq(arg, w + 1, k)
           Y == T!Appended(tabs[t], sub)
<1> HIDE DEF w
<1>a. n \in Nat /\ k \in w + 1 .. n /\ k \in Nat /\ k - w \in Nat /\ frozen + n <= MaxItems
  BY <1>1, <1>2, FreezerAssumption
<1>4. sub \in [1 .. k - w -> Values] /\ Len(sub) = k - w
  <2>1. arg \in [1 .. n -> Values] /\ Len(arg) = n /\ w \in Nat /\ n \in Nat /\ k \in w + 1 .. n
    BY <1>1, <1>2, <1>a
  <2> HIDE DEF sub
  <2>2. /\ SubSeq(arg, w + 1, k) \in [1 .. k - w -> Values]
        /\ Len(SubSeq(arg, w + 1, k)) = k - w
    BY <2>1, SubBatch
  <2> QED BY <2>2, Zenon DEF sub
<1>5. TableOK(tabs[t]) /\ k - w \in Nat /\ tabs[t].head + (k - w) <= MaxItems
  <2>1. tabs[t].head + (k - w) = frozen + k
    BY <1>2, <1>a
  <2> QED BY <1>2, <1>a, <2>1, TableFacts, FreezerAssumption DEF IInv
<1> HIDE DEF sub
<1>6. TableOK(Y) /\ Y.head = tabs[t].head + (k - w) /\ Y.hid = tabs[t].hid /\ Y.dur = tabs[t].dur
  BY <1>4, <1>5, AppendedOK
<1>7. tabs' = [tabs EXCEPT ![t] = Y]
  BY <1>3 DEF sub
<1> HIDE DEF Y
<1>8. /\ tabs' \in [Tables -> T!Table] /\ \A u \in Tables : T!Ordered(tabs'[u])
      /\ tabs'[t] = Y /\ \A u \in Tables \ {t} : tabs'[u] = tabs[u]
  BY Zenon, <1>6, <1>7, OneTable DEF IInv
<1>9. TypeOK'
  BY <1>0, <1>8 DEF IInv, TypeOK, lockVars, syncVars
<1>10. WriterInv'
  <2>1. Y.head \in frozen .. frozen + n /\ Y.hid = tail
    BY <1>2, <1>a, <1>6
  <2> QED BY ZenonT(40), <1>0, <1>1, <1>2, <1>8, <2>1 DEF IInv, WriterInv, Batch, Busy, Idle, lockVars
<1>11. SyncInv' /\ SyncKeeps'
  BY <1>0, <1>6, <1>7, KeepsSync DEF IInv, SyncInv, SyncKeeps, syncVars
<1> QED BY <1>0, <1>9, <1>10, <1>11 DEF IInv, RepairInv, FailInv, lockVars

LEMMA InvrollbackTable ==
    ASSUME IInv, NEW t \in Tables, rollbackTable(t)
    PROVE  IInv'
<1> DEFINE Y == TruncatedHead(tabs[t], frozen)
<1>1. /\ mode = "open" /\ pc = "rollback" /\ arg = frozen /\ t \in todo
      /\ todo' = todo \ {t} /\ tabs' = [tabs EXCEPT ![t] = Y]
      /\ UNCHANGED <<pc, arg, frozen, tail, syncVars, mode, crashes>>
  BY DEF rollbackTable, Busy, Visit, IInv, WriterInv
<1>2. /\ TableOK(tabs[t]) /\ tabs[t].head >= frozen /\ tabs[t].hid = tail /\ tail <= frozen
      /\ frozen \in 0 .. MaxItems /\ tabs[t].head \in 0 .. MaxItems
  BY <1>1, TableFacts DEF IInv, TypeOK, WriterInv, Busy
<1>3. /\ TableOK(Y) /\ Y.head = frozen /\ Y.hid = tail
      /\ Y.dur = IF tabs[t].head <= frozen THEN tabs[t].dur ELSE frozen
  <2>1. /\ TableOK(Y) /\ Y.hid = tabs[t].hid
        /\ Y.head = IF tabs[t].head <= frozen THEN tabs[t].head ELSE frozen
        /\ Y.dur = IF tabs[t].head <= frozen THEN tabs[t].dur ELSE frozen
    BY <1>2, TruncatedHeadOK
  <2> QED BY <1>2, <2>1, FreezerAssumption
<1> HIDE DEF Y
<1>4. /\ tabs' \in [Tables -> T!Table] /\ \A u \in Tables : T!Ordered(tabs'[u])
      /\ tabs'[t] = Y /\ \A u \in Tables \ {t} : tabs'[u] = tabs[u]
  BY Zenon, <1>1, <1>3, OneTable DEF IInv
<1>5. TypeOK'
  BY ZenonT(40), <1>1, <1>4 DEF IInv, TypeOK, syncVars
<1>6. WriterInv'
  <2>1. /\ \A u \in Tables : tabs[u].head >= frozen /\ tabs[u].hid = tail
        /\ \A u \in Tables \ todo : tabs[u].head = frozen /\ tabs[u].hid = tail
    BY Zenon, <1>1 DEF IInv, WriterInv, Busy, At
  <2>2. Y.head >= frozen
    BY <1>2, <1>3
  <2>3. \A u \in Tables : tabs'[u].head >= frozen /\ tabs'[u].hid = tail
    BY Zenon, <1>3, <1>4, <2>1, <2>2
  <2>4. \A u \in Tables \ todo' : tabs'[u].head = frozen /\ tabs'[u].hid = tail
    BY Zenon, <1>1, <1>3, <1>4, <2>1
  <2>5. mode' = "open" /\ pc' = "rollback" /\ arg' = frozen /\ frozen' = frozen /\ tail' = tail
    BY Zenon, <1>1
  <2> QED BY Zenon, <1>2, <2>3, <2>4, <2>5 DEF WriterInv, Busy, Idle, At
<1>7. SyncInv' /\ SyncKeeps'
  <2>1. Y.dur >= safe /\ (t \notin syncTodo => Y.dur >= syncGoal)
    BY <1>1, <1>2, <1>3, FreezerAssumption DEF IInv, TypeOK, SyncInv, SyncKeeps
  <2> QED BY Zenon, <1>1, <1>3, <2>1, KeepsSync DEF syncVars
<1> QED BY <1>1, <1>5, <1>6, <1>7 DEF IInv, RepairInv, FailInv

LEMMA InvtruncateHeadTable ==
    ASSUME IInv, NEW t \in Tables, truncateHeadTable(t)
    PROVE  IInv'
<1> DEFINE Y == TruncatedHead(tabs[t], arg)
<1>1. /\ mode = "open" /\ pc = "truncateHead" /\ t \in todo
      /\ todo' = todo \ {t} /\ tabs' = [tabs EXCEPT ![t] = Y]
      /\ UNCHANGED <<pc, arg, frozen, tail, syncVars, mode, crashes>>
  BY Zenon DEF truncateHeadTable, Busy, Visit
<1>2. /\ TableOK(tabs[t]) /\ tabs[t].head = frozen /\ tabs[t].hid = tail
      /\ arg \in tail .. frozen - 1 /\ arg \in 0 .. MaxItems /\ tail \in Nat /\ frozen \in Nat
      /\ safe <= arg /\ syncGoal <= arg
  <2>1. TypeOK /\ arg \in tail .. frozen - 1 /\ safe <= arg /\ syncGoal <= arg /\ At(todo, frozen, tail)
    BY Zenon, <1>1 DEF IInv, WriterInv, Busy
  <2>2. tail \in 0 .. MaxItems /\ frozen \in 0 .. MaxItems
    BY Zenon, <2>1 DEF TypeOK
  <2>3. TableOK(tabs[t]) /\ tabs[t].head = frozen /\ tabs[t].hid = tail
    BY ZenonT(40), <1>1, <2>1, TableFacts DEF At
  <2> QED BY <2>1, <2>2, <2>3, FreezerAssumption
<1>3. TableOK(Y) /\ Y.head = arg /\ Y.hid = tail /\ Y.dur = arg
  BY <1>2, TruncatedHeadOK
<1> HIDE DEF Y
<1>4. /\ tabs' \in [Tables -> T!Table] /\ \A u \in Tables : T!Ordered(tabs'[u])
      /\ tabs'[t] = Y /\ \A u \in Tables \ {t} : tabs'[u] = tabs[u]
  BY Zenon, <1>1, <1>3, OneTable DEF IInv
<1>5. TypeOK'
  BY <1>1, <1>4 DEF IInv, TypeOK, syncVars
<1>6. WriterInv'
  <2>1. /\ \A u \in todo : tabs[u].head = frozen /\ tabs[u].hid = tail
        /\ \A u \in Tables \ todo : tabs[u].head = arg /\ tabs[u].hid = tail
        /\ todo \subseteq Tables /\ tail <= frozen
    BY Zenon, <1>1 DEF IInv, WriterInv, Busy, At, TypeOK
  <2>2. \A u \in todo' : tabs'[u].head = frozen /\ tabs'[u].hid = tail
    BY Zenon, <1>1, <1>4, <2>1
  <2>3. \A u \in Tables \ todo' : tabs'[u].head = arg /\ tabs'[u].hid = tail
    BY Zenon, <1>1, <1>3, <1>4, <2>1
  <2>4. /\ mode' = "open" /\ pc' = "truncateHead" /\ arg' = arg /\ frozen' = frozen /\ tail' = tail
        /\ safe' = safe /\ syncGoal' = syncGoal
    BY Zenon, <1>1 DEF syncVars
  <2> QED BY Zenon, <1>2, <2>1, <2>2, <2>3, <2>4 DEF WriterInv, Busy, Idle, At
<1>7. SyncInv' /\ SyncKeeps'
  <2>1. Y.dur >= safe /\ Y.dur >= syncGoal
    BY Zenon, <1>2, <1>3 DEF IInv, TypeOK
  <2> QED BY Zenon, <1>1, <1>3, <2>1, KeepsSync DEF syncVars
<1> QED BY <1>1, <1>5, <1>6, <1>7 DEF IInv, RepairInv, FailInv

LEMMA InvtruncateTailTable ==
    ASSUME IInv, NEW t \in Tables, truncateTailTable(t)
    PROVE  IInv'
<1>1. /\ mode = "open" /\ pc = "truncateTail" /\ t \in todo /\ todo' = todo \ {t}
      /\ UNCHANGED <<pc, arg, frozen, tail, syncVars, mode, crashes>>
  BY DEF truncateTailTable, Busy, Visit
<1>2. PICK Y \in TruncatedTails(tabs[t], arg) : tabs' = [tabs EXCEPT ![t] = Y]
  BY Zenon DEF truncateTailTable
<1>3. /\ TableOK(tabs[t]) /\ tabs[t].head = frozen /\ tabs[t].hid = tail
      /\ arg \in tail + 1 .. frozen /\ arg \in 0 .. MaxItems /\ tail \in Nat /\ frozen \in Nat
      /\ tabs[t].dur \in Nat
  <2>1. TypeOK /\ arg \in tail + 1 .. frozen /\ At(todo, frozen, tail)
    BY Zenon, <1>1 DEF IInv, WriterInv, Busy
  <2>2. tail \in 0 .. MaxItems /\ frozen \in 0 .. MaxItems
    BY Zenon, <2>1 DEF TypeOK
  <2>3. TableOK(tabs[t]) /\ tabs[t].dur \in 0 .. MaxItems /\ tabs[t].head = frozen /\ tabs[t].hid = tail
    BY Zenon, <1>1, <2>1, TableFacts DEF At
  <2> QED BY <2>1, <2>2, <2>3, FreezerAssumption
<1>4. TableOK(Y) /\ Y.head = frozen /\ Y.hid = arg /\ Y.dur >= tabs[t].dur /\ Y.dur \in Nat
  <2>1. TableOK(Y) /\ Y.head = frozen /\ Y.hid = arg /\ tabs[t].dur <= Y.dur
    BY <1>3, TruncatedTailsOK
  <2> QED BY <2>1, <1>3, FreezerAssumption DEF TableOK, T!Table
<1>5. /\ tabs' \in [Tables -> T!Table] /\ \A u \in Tables : T!Ordered(tabs'[u])
      /\ tabs'[t] = Y /\ \A u \in Tables \ {t} : tabs'[u] = tabs[u]
  BY ZenonT(30), <1>2, <1>4, OneTable DEF IInv
<1>6. TypeOK'
  BY ZenonT(40), <1>1, <1>5 DEF IInv, TypeOK, syncVars
<1>7. WriterInv'
  <2>1. \A u \in todo \ {t} : tabs'[u].head = frozen /\ tabs'[u].hid = tail
    BY <1>1, <1>5 DEF IInv, WriterInv, Busy, At, TypeOK
  <2>2. \A u \in Tables \ (todo \ {t}) : tabs'[u].head = frozen /\ tabs'[u].hid = arg
    BY <1>1, <1>4, <1>5 DEF IInv, WriterInv, Busy, At
  <2> QED BY SMTT(30), Z3T(30), <1>1, <1>3, <2>1, <2>2 DEF IInv, WriterInv, Busy, Idle, At
<1>8. SyncInv' /\ SyncKeeps'
  <2>1. Y.dur >= safe /\ (t \notin syncTodo => Y.dur >= syncGoal)
    BY <1>3, <1>4 DEF IInv, TypeOK, SyncInv, SyncKeeps
  <2> QED BY Zenon, <1>1, <1>2, <1>4, <2>1, KeepsSync DEF syncVars
<1> QED BY Zenon, <1>1, <1>6, <1>7, <1>8 DEF IInv, RepairInv, FailInv

LEMMA InvsyncTable ==
    ASSUME IInv, NEW t \in Tables, syncTable(t)
    PROVE  IInv'
<1> DEFINE Y == T!Synced(tabs[t])
<1>1. /\ mode = "open" /\ t \in syncTodo /\ syncTodo' = syncTodo \ {t}
      /\ tabs' = [tabs EXCEPT ![t] = Y]
      /\ UNCHANGED <<pc, todo, arg, frozen, tail, syncGoal, safe, mode, crashes>>
  BY Zenon DEF syncTable, lockVars
<1>2. /\ TableOK(tabs[t]) /\ tabs[t].dur \in Nat /\ tabs[t].head \in Nat /\ tabs[t].dur <= tabs[t].head
  BY Zenon, TableNats
<1>3. TableOK(Y) /\ Y.head = tabs[t].head /\ Y.hid = tabs[t].hid /\ Y.dur = tabs[t].head
  BY Zenon, <1>2, SyncedOK
<1> HIDE DEF Y
<1>4. /\ tabs' \in [Tables -> T!Table] /\ \A u \in Tables : T!Ordered(tabs'[u])
      /\ tabs'[t] = Y /\ \A u \in Tables \ {t} : tabs'[u] = tabs[u]
  BY ZenonT(30), <1>1, <1>3, OneTable DEF IInv
<1>5. TypeOK'
  BY <1>1, <1>4 DEF IInv, TypeOK
<1>6. \A u \in Tables : tabs'[u].head = tabs[u].head /\ tabs'[u].hid = tabs[u].hid
  BY <1>3, <1>4
<1>7. WriterInv'
  BY ZenonT(30), <1>1, <1>6 DEF IInv, WriterInv, Batch, Busy, Idle, At, TypeOK
<1>8. SyncInv' /\ SyncKeeps'
  <2>1. tabs[t].head >= syncGoal
    BY <1>1, <1>2, FreezerAssumption DEF IInv, TypeOK, SyncInv, WriterInv, Busy, Idle, At
  <2>2. Y.dur >= safe /\ Y.dur >= syncGoal
    BY SMTT(30), Z3T(30), <1>2, <1>3, <2>1 DEF IInv, SyncKeeps, TypeOK
  <2> QED BY Zenon, <1>1, <1>3, <2>2, KeepsSync
<1> QED BY Zenon, <1>1, <1>5, <1>7, <1>8 DEF IInv, RepairInv, WriterInv, FailInv

\* A table that passes the repair shows that the highest tail is not above the
\* shortest head; one that does not has an unflushed tail.
LEMMA InvrepairTable ==
    ASSUME IInv, NEW t \in Tables, repairTable(t)
    PROVE  IInv'
<1> DEFINE X == TruncatedHead(tabs[t], arg.head)
           bad == \/ tabs[t].head > arg.head /\ arg.head < tabs[t].hid
                  \/ X.hid < arg.tail /\ X.head < arg.tail
<1>1. mode = "down" /\ pc = "repair" /\ t \in todo /\ UNCHANGED <<frozen, tail, syncVars, crashes>>
  BY DEF repairTable
<1>2. /\ arg.head \in 0 .. MaxItems /\ arg.tail \in 0 .. MaxItems /\ safe <= arg.head
      /\ \A u \in Tables : tabs[u].head >= arg.head /\ tabs[u].hid <= arg.tail
      /\ \E u \in Tables : tabs[u].hid = arg.tail
      /\ tabs[t].hid <= tabs[t].head
      /\ At(Tables \ todo, arg.head, arg.tail)
  BY <1>1 DEF IInv, RepairInv
<1>3. /\ TableOK(tabs[t]) /\ tabs[t].head \in 0 .. MaxItems /\ tabs[t].hid \in 0 .. MaxItems
      /\ tabs[t].dur \in 0 .. MaxItems /\ safe \in 0 .. MaxItems /\ tabs[t].dur >= safe
  BY TableFacts DEF IInv, TypeOK, SyncKeeps
<1>4. CASE bad
  <2>1. mode' = "failed" /\ Release /\ UNCHANGED tabs
    BY <1>4 DEF repairTable
  <2>2. \E u \in Tables : tabs[u].hid > safe
    <3>1. arg.tail > arg.head
      BY ZenonT(40), <1>2, <1>3, <1>4, NotRepairedOK
    <3>2. arg.tail > safe
      BY <1>2, <1>3, <3>1, FreezerAssumption
    <3> QED BY Zenon, <1>2, <3>2
  <2>3. TypeOK'
    BY Zenon, <1>1, <2>1 DEF Release, IInv, TypeOK, syncVars
  <2> QED BY ZenonT(30), <1>1, <2>1, <2>2, <2>3
      DEF Release, IInv, WriterInv, RepairInv, SyncInv, SyncKeeps, FailInv, Idle, Busy, syncVars
<1>5. CASE ~bad
  <2>1. PICK Y \in TruncatedTails(X, arg.tail) : tabs' = [tabs EXCEPT ![t] = Y]
    BY <1>5 DEF repairTable
  <2>2. todo' = todo \ {t} /\ UNCHANGED <<pc, arg, mode>>
    BY Zenon, <1>5 DEF repairTable, Visit
  <2>3. ~(tabs[t].head > arg.head /\ arg.head < tabs[t].hid) /\ ~(X.hid < arg.tail /\ X.head < arg.tail)
    BY Zenon, <1>5
  <2> HIDE DEF X
  <2>4. X = TruncatedHead(tabs[t], arg.head)
    BY Zenon DEF X
  <2>5. /\ TableOK(Y) /\ Y.head = arg.head /\ Y.hid = arg.tail /\ arg.tail <= arg.head
        /\ Y.dur \in 0 .. MaxItems /\ (Y.dur = arg.head \/ tabs[t].dur <= Y.dur)
    <3> DEFINE Z == tabs[t]
               a == arg.head
               z == arg.tail
    <3>1. /\ TableOK(Z) /\ a \in 0 .. MaxItems /\ z \in 0 .. MaxItems /\ Z.head >= a /\ Z.hid <= z /\ Z.hid <= Z.head
          /\ X = TruncatedHead(Z, a) /\ ~(Z.head > a /\ a < Z.hid) /\ ~(X.hid < z /\ X.head < z)
          /\ Y \in TruncatedTails(X, z)
      BY ZenonT(40), <1>2, <1>3, <2>1, <2>3, <2>4
    <3> HIDE DEF Z, a, z
    <3>2. /\ TableOK(Y) /\ Y.head = a /\ Y.hid = z /\ z <= a
          /\ Y.dur \in 0 .. MaxItems /\ (Y.dur = a \/ Z.dur <= Y.dur)
      BY SMTT(30), Z3T(30), <3>1, RepairedOK
    <3> QED BY Zenon, <3>2 DEF Z, a, z
  <2>6. Y.dur >= safe /\ Y.dur >= syncGoal
    <3>1. syncGoal = -1
      BY <1>1 DEF IInv, SyncInv
    <3> QED BY <1>2, <1>3, <2>5, <3>1, FreezerAssumption
  <2>7. /\ tabs' \in [Tables -> T!Table] /\ \A u \in Tables : T!Ordered(tabs'[u])
        /\ tabs'[t] = Y /\ \A u \in Tables \ {t} : tabs'[u] = tabs[u]
    BY ZenonT(30), <2>1, <2>5, OneTable DEF IInv
  <2>8. TypeOK'
    BY Zenon, <1>1, <2>2, <2>7 DEF IInv, TypeOK, syncVars
  <2>9. RepairInv'
    <3>1. \A u \in Tables : tabs'[u].head >= arg.head /\ tabs'[u].hid <= arg.tail
      BY SMTT(30), Z3T(30), <1>2, <2>5, <2>7, FreezerAssumption
    <3>2. \A u \in Tables \ (todo \ {t}) : tabs'[u].head = arg.head /\ tabs'[u].hid = arg.tail
      BY <1>2, <2>5, <2>7 DEF At
    <3>3. \E u \in Tables : tabs'[u].hid = arg.tail
      BY <2>5, <2>7
    <3>4. \A u \in todo \ {t} : tabs'[u].hid <= tabs'[u].head
      BY Zenon, <1>1, <2>7 DEF IInv, RepairInv, TypeOK
    <3>5. arg \in [head : 0 .. MaxItems, tail : 0 .. MaxItems]
      BY <1>1 DEF IInv, RepairInv
    <3> QED BY ZenonT(40), <1>1, <1>2, <2>2, <2>5, <3>1, <3>2, <3>3, <3>4, <3>5 DEF RepairInv, At, syncVars
  <2>10. SyncInv' /\ SyncKeeps'
    BY ZenonT(30), <1>1, <2>1, <2>2, <2>5, <2>6, KeepsSync DEF syncVars
  <2> QED BY Zenon, <1>1, <2>2, <2>8, <2>9, <2>10 DEF IInv, WriterInv, FailInv, Idle, Busy
<1> QED BY <1>4, <1>5

----
\* The invariant of the store's operations, power failures and repair.
LEMMA NextIInv == IInv /\ [Next]_vars => IInv'
<1> SUFFICES ASSUME IInv, [Next]_vars PROVE IInv'
  OBVIOUS
<1>1. ASSUME NEW n \in 0 .. MaxItems, TruncateHead(n) \/ TruncateTail(n) PROVE IInv'
  BY <1>1, InvTruncateHead, InvTruncateTail
<1>2. ASSUME NEW t \in Tables,
             \/ commitTable(t) \/ rollbackTable(t) \/ truncateHeadTable(t)
             \/ truncateTailTable(t) \/ syncTable(t) \/ repairTable(t)
      PROVE  IInv'
  BY <1>2, InvcommitTable, InvrollbackTable, InvtruncateHeadTable, InvtruncateTailTable,
     InvsyncTable, InvrepairTable
<1>3. CASE UNCHANGED vars
  BY Zenon, <1>3 DEF vars, IInv, TypeOK, WriterInv, RepairInv, SyncInv, SyncKeeps, FailInv, Batch, Idle, Busy, At
<1> QED BY ZenonT(40), <1>1, <1>2, <1>3, InvModifyAncients, InvcommitDone, InvmodifyFails, InvrollbackDone,
           InvtruncateHeadDone, InvtruncateTailDone, InvReset, InvSync, InvsyncDone, InvClose,
           InvCrash, InvNewFreezer, InvrepairDone
    DEF Next

LEMMA Invariance == Spec => []IInv
BY InitIInv, NextIInv, PTL DEF Spec

LEMMA IInvSound == IInv => StoreSound
<1> SUFFICES ASSUME IInv PROVE StoreSound
  OBVIOUS
<1>1. TypeOK
  BY Zenon DEF IInv
<1>2. CountersAgree
  BY FreezerAssumption DEF IInv, WriterInv, CountersAgree, Heads, Tails, At
<1>3. FailsOnlyUnflushed
  <2> SUFFICES ASSUME mode = "failed" PROVE Max(Tails(tabs)) > safe
    BY DEF FailsOnlyUnflushed
  <2>1. PICK t \in Tables : tabs[t].hid > safe
    BY DEF IInv, FailInv
  <2>2. tabs[t].hid <= Max(Tails(tabs)) /\ Max(Tails(tabs)) \in 0 .. MaxItems
    BY <1>1, Extremes
  <2> HIDE DEF FailsOnlyUnflushed
  <2> QED BY <1>1, <2>1, <2>2, TableFacts, FreezerAssumption DEF TypeOK
<1> QED BY <1>1, <1>2, <1>3 DEF StoreSound

\* Whatever operations, failures of a write, power failures and repairs have
\* gone before: when no writer runs, every table holds exactly the rows from
\* Tail to Ancients, and NewFreezer fails only after rows were hidden that no
\* Sync had flushed (freezer.go: repair, TruncateHead, TruncateTail).
THEOREM StoreCorrect == Spec => []StoreSound
BY Invariance, IInvSound, PTL

\* The rows frozen when a finished Sync began are durable in every table, with
\* writers, truncations and crashes beside it (freezer.go: Sync).
THEOREM SyncCorrect == Spec => []SyncKeeps
<1>1. IInv => SyncKeeps
  BY DEF IInv
<1> QED BY <1>1, Invariance, PTL

----
(***************************************************************************)
(* What the actions do to the rows the tables hold together: the tables    *)
(* never disagree on a row (RowsInv), and the row table View makes of them.*)
(***************************************************************************)
\* Tables that hold the same row hold the same content of it.
Agree(ts) ==
    \A s, t \in Tables : \A i \in (ts[s].lo .. ts[s].head - 1) \cap (ts[t].lo .. ts[t].head - 1) :
        ts[s].val[i] = ts[t].val[i]

Good(ts) == ts \in [Tables -> T!Table] /\ (\A t \in Tables : T!Ordered(ts[t])) /\ Agree(ts)

\* What a writer has appended are the rows of its batch; a store that is not
\* open has nothing unflushed; the repair cuts no table below the shortest.
RowsInv ==
    /\ Agree(tabs)
    /\ Busy("write") => \A t \in Tables : \A i \in frozen .. tabs[t].head - 1 :
                           tabs[t].val[i] = arg[i - frozen + 1]
    /\ mode /= "open" => \A t \in Tables : tabs[t].dur = tabs[t].head
    /\ pc = "repair" => \E t \in Tables : tabs[t].head = arg.head

\* The extremes over the tables that View is made of.
LEMMA Least ==
    ASSUME NEW f \in [Tables -> 0 .. MaxItems]
    PROVE  LET m == Min({f[t] : t \in Tables}) IN
           m \in 0 .. MaxItems /\ (\A t \in Tables : m <= f[t]) /\ \E t \in Tables : m = f[t]
<1> DEFINE S == {f[t] : t \in Tables}
<1>1. S \in SUBSET Nat /\ S # {} /\ S \subseteq 0 .. MaxItems
  BY FreezerAssumption
<1>2. (\A t \in Tables : f[t] \in S) /\ \A m \in S : \E t \in Tables : m = f[t]
  OBVIOUS
<1> HIDE DEF S
<1>3. Min(S) \in S /\ \A y \in S : Min(S) <= y
  BY <1>1, MinNat
<1> QED BY Zenon, <1>1, <1>2, <1>3 DEF S

LEMMA Greatest ==
    ASSUME NEW f \in [Tables -> 0 .. MaxItems]
    PROVE  LET m == Max({f[t] : t \in Tables}) IN
           m \in 0 .. MaxItems /\ (\A t \in Tables : m >= f[t]) /\ \E t \in Tables : m = f[t]
<1> DEFINE S == {f[t] : t \in Tables}
<1>1. S \in SUBSET (0 .. MaxItems) /\ S # {}
  BY FreezerAssumption
<1>2. (\A t \in Tables : f[t] \in S) /\ \A m \in S : \E t \in Tables : m = f[t]
  OBVIOUS
<1> HIDE DEF S
<1>3. Max(S) \in S /\ \A y \in S : Max(S) >= y
  BY Zenon, <1>1, FreezerAssumption, MaxNat
<1> QED BY Zenon, <1>1, <1>2, <1>3 DEF S

\* View is a table: its bounds are the extremes of the tables', and its rows
\* are those of every table.
ViewOf(V, ts, isOpen) ==
    /\ V \in T!Table
    /\ \A t \in Tables : ts[t].lo <= V.lo /\ V.head <= ts[t].head /\ ts[t].hid <= V.hid /\ ts[t].hidDur <= V.hidDur
    /\ \E t \in Tables : V.lo = ts[t].lo
    /\ \E t \in Tables : V.head = ts[t].head
    /\ \E t \in Tables : V.hid = ts[t].hid
    /\ \E t \in Tables : V.hidDur = ts[t].hidDur
    /\ isOpen => (\A t \in Tables : V.dur <= ts[t].dur) /\ \E t \in Tables : V.dur = ts[t].dur
    /\ ~isOpen => V.dur = V.head
    /\ V.val \in [V.lo .. V.head - 1 -> Values]
    /\ \A t \in Tables : \A i \in V.lo .. V.head - 1 : V.val[i] = ts[t].val[i]

LEMMA ViewFacts ==
    ASSUME NEW ts, Good(ts), NEW isOpen \in BOOLEAN
    PROVE  ViewOf(View(ts, isOpen), ts, isOpen)
<1> DEFINE lo == Max({ts[t].lo : t \in Tables})
           head == Min(Heads(ts))
           hid == Max(Tails(ts))
           hidDur == Max({ts[t].hidDur : t \in Tables})
           minDur == Min({ts[t].dur : t \in Tables})
           row(i) == {ts[t].val[i] : t \in Tables}
           val == [i \in lo .. head - 1 |-> IF \E v \in Values : row(i) = {v}
                                           THEN CHOOSE v \in Values : row(i) = {v} ELSE "mixed"]
<1>1. \A t \in Tables : /\ ts[t].lo \in 0 .. MaxItems /\ ts[t].head \in 0 .. MaxItems
                        /\ ts[t].hid \in 0 .. MaxItems /\ ts[t].hidDur \in 0 .. MaxItems
                        /\ ts[t].dur \in 0 .. MaxItems /\ ts[t].dur <= ts[t].head
                        /\ ts[t].val \in [ts[t].lo .. ts[t].head - 1 -> Values]
  BY DEF Good, T!Table, T!Ordered
<1>2. lo \in 0 .. MaxItems /\ (\A t \in Tables : lo >= ts[t].lo) /\ \E t \in Tables : lo = ts[t].lo
  <2> DEFINE f == [t \in Tables |-> ts[t].lo]
  <2>1. f \in [Tables -> 0 .. MaxItems] /\ (\A t \in Tables : f[t] = ts[t].lo) /\ {f[t] : t \in Tables} = {ts[t].lo : t \in Tables}
    BY <1>1
  <2> HIDE DEF f
  <2> QED BY ZenonT(40), <2>1, Greatest
<1>3. hid \in 0 .. MaxItems /\ (\A t \in Tables : hid >= ts[t].hid) /\ \E t \in Tables : hid = ts[t].hid
  <2> DEFINE f == [t \in Tables |-> ts[t].hid]
  <2>1. f \in [Tables -> 0 .. MaxItems] /\ (\A t \in Tables : f[t] = ts[t].hid) /\ {f[t] : t \in Tables} = Tails(ts)
    BY <1>1 DEF Tails
  <2> HIDE DEF f
  <2> QED BY <2>1, Greatest
<1>4. hidDur \in 0 .. MaxItems /\ (\A t \in Tables : hidDur >= ts[t].hidDur) /\ \E t \in Tables : hidDur = ts[t].hidDur
  <2> DEFINE f == [t \in Tables |-> ts[t].hidDur]
  <2>1. f \in [Tables -> 0 .. MaxItems] /\ (\A t \in Tables : f[t] = ts[t].hidDur) /\ {f[t] : t \in Tables} = {ts[t].hidDur : t \in Tables}
    BY <1>1
  <2> HIDE DEF f
  <2> QED BY Zenon, <2>1, Greatest
<1>5. head \in 0 .. MaxItems /\ (\A t \in Tables : head <= ts[t].head) /\ \E t \in Tables : head = ts[t].head
  <2> DEFINE f == [t \in Tables |-> ts[t].head]
  <2>1. f \in [Tables -> 0 .. MaxItems] /\ (\A t \in Tables : f[t] = ts[t].head) /\ {f[t] : t \in Tables} = Heads(ts)
    BY <1>1 DEF Heads
  <2> HIDE DEF f
  <2> QED BY <2>1, Least
<1>6. minDur \in 0 .. MaxItems /\ (\A t \in Tables : minDur <= ts[t].dur) /\ \E t \in Tables : minDur = ts[t].dur
  <2> DEFINE f == [t \in Tables |-> ts[t].dur]
  <2>1. f \in [Tables -> 0 .. MaxItems] /\ (\A t \in Tables : f[t] = ts[t].dur) /\ {f[t] : t \in Tables} = {ts[t].dur : t \in Tables}
    BY ZenonT(40), <1>1
  <2> HIDE DEF f
  <2> QED BY Zenon, <2>1, Least
<1> DEFINE dur == IF isOpen THEN minDur ELSE head
<1>7. View(ts, isOpen) = [lo |-> lo, head |-> head, val |-> val, hid |-> hid, dur |-> dur, hidDur |-> hidDur]
  BY DEF View
<1> HIDE DEF lo, head, hid, hidDur, minDur
<1>8. ASSUME NEW t \in Tables, NEW i \in lo .. head - 1
      PROVE  val[i] = ts[t].val[i] /\ ts[t].val[i] \in Values
  <2>1. \A s \in Tables : i \in ts[s].lo .. ts[s].head - 1
    BY <1>1, <1>2, <1>5, FreezerAssumption
  <2>2. \A s \in Tables : ts[s].val[i] = ts[t].val[i]
    BY Zenon, <2>1 DEF Good, Agree
  <2>3. ts[t].val[i] \in Values
    BY Zenon, <1>1, <2>1
  <2>4. row(i) = {ts[t].val[i]}
    BY Zenon, <2>2
  <2> HIDE DEF row
  <2>5. \A v \in Values : row(i) = {v} => v = ts[t].val[i]
    BY <2>4
  <2> QED BY ZenonT(40), <2>3, <2>4, <2>5
<1>9. val \in [lo .. head - 1 -> Values]
  <2>1. PICK t \in Tables : TRUE
    BY FreezerAssumption
  <2>2. \A i \in lo .. head - 1 : val[i] \in Values
    BY Zenon, <1>8, <2>1
  <2> QED BY Zenon, <2>2
<1> HIDE DEF val
<1>10. val \in T!Items
  BY SMTT(30), Z3T(30), <1>2, <1>5, <1>9, ItemsType
<1>11. dur \in 0 .. MaxItems
  BY ZenonT(40), <1>5, <1>6
<1> HIDE DEF dur
<1>12. View(ts, isOpen) \in T!Table
  BY SMTT(30), Z3T(30), <1>2, <1>3, <1>4, <1>5, <1>7, <1>10, <1>11 DEF T!Table
<1> DEFINE V == View(ts, isOpen)
<1>13. V.lo = lo /\ V.head = head /\ V.val = val /\ V.hid = hid /\ V.dur = dur /\ V.hidDur = hidDur
  BY <1>7
<1>14. \A t \in Tables : ts[t].lo <= lo /\ ts[t].hid <= hid /\ ts[t].hidDur <= hidDur
  BY <1>1, <1>2, <1>3, <1>4, FreezerAssumption
<1>15. /\ isOpen => (\A t \in Tables : dur <= ts[t].dur) /\ \E t \in Tables : dur = ts[t].dur
       /\ ~isOpen => dur = head
  BY Zenon, <1>6 DEF dur
<1> HIDE DEF V
<1>16. V \in T!Table
  BY Zenon, <1>12 DEF V
<1>17. \A t \in Tables : \A i \in lo .. head - 1 : val[i] = ts[t].val[i]
  BY Zenon, <1>8
<1>18. ViewOf(V, ts, isOpen)
  BY ZenonT(40), <1>2, <1>3, <1>4, <1>5, <1>9, <1>13, <1>14, <1>15, <1>16, <1>17 DEF ViewOf
<1> QED BY Zenon, <1>18 DEF V

\* Tables are equal when their fields are.
LEMMA SameTable ==
    ASSUME NEW X \in T!Table, NEW Y \in T!Table,
           X.lo = Y.lo, X.head = Y.head, X.val = Y.val, X.hid = Y.hid, X.dur = Y.dur, X.hidDur = Y.hidDur
    PROVE  X = Y
BY DEF T!Table

(***************************************************************************)
(* When a step of the view is a step of the abstract table.                *)
(***************************************************************************)
LEMMA MapFlush ==
    ASSUME view \in T!Table, view' \in T!Table, mode = "open", mode' = mode,
           view'.lo = view.lo, view'.head = view.head, view'.val = view.val, view'.hid = view.hid,
           view'.dur \in view.dur .. view.head, view'.hidDur \in view.hidDur .. view.hid
    PROVE  Rows!StoreNext
<1> DEFINE Y == [view EXCEPT !.dur = view'.dur, !.hidDur = view'.hidDur]
<1>1. Y \in T!Table
  BY Zenon DEF T!Table
<1>2. /\ Y.lo = view.lo /\ Y.head = view.head /\ Y.val = view.val /\ Y.hid = view.hid
      /\ Y.dur = view'.dur /\ Y.hidDur = view'.hidDur
  BY DEF T!Table
<1> HIDE DEF Y
<1>3. view' = Y
  BY <1>1, <1>2, SameTable
<1>4. Rows!FlushedFrom(view, view')
  BY <1>3 DEF Rows!FlushedFrom, Y
<1> QED BY <1>4 DEF Rows!StoreNext, Rows!Flush

LEMMA MapCutHead ==
    ASSUME view \in T!Table, view' \in T!Table, mode = "open", mode' = mode,
           view'.head \in view.hid .. view.head - 1,
           view'.val \in [view.lo .. view'.head - 1 -> Values],
           \A i \in view.lo .. view'.head - 1 : view'.val[i] = view.val[i],
           view'.lo = view.lo, view'.hid = view.hid,
           view'.dur <= view'.head, view'.dur >= view.dur \/ view'.dur >= view'.head,
           view'.hidDur \in view.hidDur .. view.hid
    PROVE  Rows!StoreNext
<1>1. /\ view.lo \in Int /\ view.head \in Int /\ view.dur \in Int /\ view.hid \in Int
      /\ view'.head \in Int /\ view'.dur \in Int
      /\ view'.head \in 0 .. MaxItems /\ view'.val \in T!Items
  BY FreezerAssumption DEF T!Table
<1>2. Rows!Cut(view, view.lo, view'.head) = view'.val
  BY Zenon, <1>1 DEF Rows!Cut
<1> DEFINE m == IF view.dur <= view'.head THEN view.dur ELSE view'.head
           B == [Rows!HeadTruncated(view, view'.head) EXCEPT !.dur = m]
           U == [B EXCEPT !.dur = view'.dur, !.hidDur = view'.hidDur]
<1>3. m \in 0 .. MaxItems /\ m <= view'.dur
  BY <1>1, FreezerAssumption DEF T!Table
<1> HIDE DEF m
<1>4. Rows!HeadTruncated(view, view'.head) = [view EXCEPT !.head = view'.head, !.val = view'.val, !.dur = view'.head]
  BY <1>2 DEF Rows!HeadTruncated
<1>5. /\ B \in T!Table
      /\ B.lo = view.lo /\ B.head = view'.head /\ B.val = view'.val /\ B.hid = view.hid
      /\ B.dur = m /\ B.hidDur = view.hidDur
  BY Zenon, <1>1, <1>3, <1>4 DEF T!Table
<1> HIDE DEF B
<1>6. /\ U \in T!Table
      /\ U.lo = B.lo /\ U.head = B.head /\ U.val = B.val /\ U.hid = B.hid
      /\ U.dur = view'.dur /\ U.hidDur = view'.hidDur
  BY Zenon, <1>5 DEF T!Table
<1> HIDE DEF U
<1>7. view' = U
  BY <1>5, <1>6, SameTable
<1>8. view'.dur \in B.dur .. B.head /\ view'.hidDur \in B.hidDur .. B.hid
  BY <1>1, <1>3, <1>5, FreezerAssumption
<1>9. Rows!FlushedFrom(B, view')
  BY <1>7, <1>8 DEF Rows!FlushedFrom, U
<1>10. Rows!CutHead
  BY <1>9, Zenon DEF Rows!CutHead, B, m
<1> QED BY <1>10 DEF Rows!StoreNext

LEMMA MapCutTail ==
    ASSUME view \in T!Table, view' \in T!Table, mode /= "failed", mode' = mode,
           view'.hid = view.hid \/ view'.hid \in view.hid .. view.head,
           view'.lo \in view.lo .. view'.hid, view'.head = view.head,
           view'.val \in [view'.lo .. view.head - 1 -> Values],
           \A i \in view'.lo .. view.head - 1 : view'.val[i] = view.val[i],
           view'.dur \in view.dur .. view.head, view'.hidDur \in view.hidDur .. view'.hid
    PROVE  Rows!StoreNext
<1>1. /\ view'.lo \in Int /\ view.head \in Int /\ view.dur \in Int /\ view.hid \in Int
      /\ view'.hid \in 0 .. MaxItems /\ view'.lo \in 0 .. MaxItems /\ view'.val \in T!Items
      /\ view'.dur \in 0 .. MaxItems /\ view'.hidDur \in 0 .. MaxItems
  BY FreezerAssumption DEF T!Table
<1>2. Rows!Cut(view, view'.lo, view.head) = view'.val
  BY Zenon, <1>1 DEF Rows!Cut
<1> DEFINE B == [view EXCEPT !.hid = view'.hid, !.lo = view'.lo, !.val = Rows!Cut(view, view'.lo, view.head)]
           U == [B EXCEPT !.dur = view'.dur, !.hidDur = view'.hidDur]
<1>3. /\ B \in T!Table
      /\ B.lo = view'.lo /\ B.head = view.head /\ B.val = view'.val /\ B.hid = view'.hid
      /\ B.dur = view.dur /\ B.hidDur = view.hidDur
  BY Zenon, <1>1, <1>2 DEF T!Table
<1> HIDE DEF B
<1>4. /\ U \in T!Table
      /\ U.lo = B.lo /\ U.head = B.head /\ U.val = B.val /\ U.hid = B.hid
      /\ U.dur = view'.dur /\ U.hidDur = view'.hidDur
  BY Zenon, <1>1, <1>3 DEF T!Table
<1> HIDE DEF U
<1>5. view' = U
  BY <1>3, <1>4, SameTable
<1>6. Rows!FlushedFrom(B, view')
  BY <1>3, <1>5 DEF Rows!FlushedFrom, U
<1>7. Rows!CutTail
  BY <1>6 DEF Rows!CutTail, B
<1> QED BY <1>7 DEF Rows!StoreNext

LEMMA MapAppend ==
    ASSUME view \in T!Table, view' \in T!Table, mode = "open", mode' = mode,
           view.lo <= view.head, view.head < view'.head,
           view.val \in [view.lo .. view.head - 1 -> Values],
           view'.val \in [view.lo .. view'.head - 1 -> Values],
           \A i \in view.lo .. view.head - 1 : view'.val[i] = view.val[i],
           view'.lo = view.lo, view'.hid = view.hid, view'.dur = view.dur, view'.hidDur = view.hidDur
    PROVE  Rows!StoreNext
<1>1. /\ view.lo \in Nat /\ view.head \in Nat /\ view'.head \in Nat
      /\ view'.head \in 0 .. MaxItems /\ view'.val \in T!Items
  BY FreezerAssumption DEF T!Table
<1> DEFINE n == view'.head - view.head
           vs == [j \in 1 .. n |-> view'.val[view.head + j - 1]]
<1>2. n \in 1 .. MaxItems - view.head /\ n \in Nat
  BY <1>1, FreezerAssumption
<1>3. vs \in [1 .. n -> Values]
  <2>1. \A j \in 1 .. n : view.head + j - 1 \in view.lo .. view'.head - 1
    BY <1>1
  <2> HIDE DEF n
  <2> QED BY Zenon, <2>1
<1>4. Len(vs) = n
  <2> HIDE DEF n
  <2> QED BY <1>2
<1>5. \A i \in view.head .. view'.head - 1 : vs[i - view.head + 1] = view'.val[i]
  <2> SUFFICES ASSUME NEW i \in view.head .. view'.head - 1
               PROVE  vs[i - view.head + 1] = view'.val[i]
    OBVIOUS
  <2>1. i - view.head + 1 \in 1 .. n /\ view.head + (i - view.head + 1) - 1 = i
    BY <1>1
  <2> HIDE DEF n
  <2> QED BY <2>1
<1>6. view.head + n = view'.head
  BY <1>1
<1> HIDE DEF n, vs
<1> DEFINE new == [i \in view.lo .. view.head + Len(vs) - 1 |->
                     IF i < view.head THEN view.val[i] ELSE vs[i - view.head + 1]]
           Y == [view EXCEPT !.head = view.head + Len(vs), !.val = new]
<1>7. new = view'.val
  <2>1. view.lo .. view.head + Len(vs) - 1 = view.lo .. view'.head - 1
    BY <1>1, <1>2, <1>4, <1>6
  <2>2. \A i \in view.lo .. view'.head - 1 : (IF i < view.head THEN view.val[i] ELSE vs[i - view.head + 1]) = view'.val[i]
    <3> SUFFICES ASSUME NEW i \in view.lo .. view'.head - 1
                 PROVE  (IF i < view.head THEN view.val[i] ELSE vs[i - view.head + 1]) = view'.val[i]
      OBVIOUS
    <3>1. CASE i < view.head
      BY <1>1, <3>1
    <3>2. CASE ~(i < view.head)
      BY <1>1, <1>5, <3>2
    <3> QED BY ZenonT(40), <3>1, <3>2
  <2> QED BY Zenon, <2>1, <2>2
<1> HIDE DEF new
<1>8. /\ Y \in T!Table
      /\ Y.lo = view.lo /\ Y.head = view'.head /\ Y.val = view'.val /\ Y.hid = view.hid
      /\ Y.dur = view.dur /\ Y.hidDur = view.hidDur
  BY Zenon, <1>1, <1>4, <1>6, <1>7 DEF T!Table
<1>9. Rows!Appended(view, vs) = Y
  BY DEF Rows!Appended, new
<1> HIDE DEF Y
<1>10. view' = Rows!Appended(view, vs)
  BY <1>8, <1>9, SameTable
<1>11. Rows!AppendItems
  BY ZenonT(40), <1>2, <1>3, <1>10 DEF Rows!AppendItems
<1> QED BY <1>11 DEF Rows!StoreNext

(***************************************************************************)
(* RowsInv is an invariant.                                                *)
(***************************************************************************)
\* Replacing a table by a part of it keeps the tables in agreement.
LEMMA ShrinkAgree ==
    ASSUME TypeOK, Agree(tabs), NEW t \in Tables, NEW Y, TableOK(Y), tabs' = [tabs EXCEPT ![t] = Y],
           tabs[t].lo <= Y.lo, Y.head <= tabs[t].head,
           \A i \in Y.lo .. Y.head - 1 : Y.val[i] = tabs[t].val[i]
    PROVE  Agree(tabs')
<1>1. tabs'[t] = Y /\ \A u \in Tables \ {t} : tabs'[u] = tabs[u]
  BY Zenon, OneTable
<1>2. Y.lo \in Nat /\ Y.head \in Nat
  BY FreezerAssumption DEF TableOK, T!Table
<1>3. \A u \in Tables : tabs[u].lo \in Nat /\ tabs[u].head \in Nat
  BY TableFacts, FreezerAssumption
<1>4. ASSUME NEW u \in Tables, NEW i \in tabs'[u].lo .. tabs'[u].head - 1
      PROVE  i \in tabs[u].lo .. tabs[u].head - 1 /\ tabs'[u].val[i] = tabs[u].val[i]
  <2>1. CASE u = t
    BY <1>1, <1>2, <1>3, <1>4, <2>1
  <2>2. CASE u # t
    BY ZenonT(40), <1>1, <1>4, <2>2
  <2> QED BY <2>1, <2>2
<1> QED BY <1>4 DEF Agree

\* The tables do not change, and the store neither starts to write nor stops.
LEMMA RowsSame ==
    ASSUME RowsInv, UNCHANGED <<tabs, mode>>, pc' # "repair" \/ UNCHANGED <<pc, arg>>,
           pc' # "write" \/ UNCHANGED <<pc, arg, frozen>>
    PROVE  RowsInv'
BY DEF RowsInv, Agree, Busy

LEMMA RowscommitTable ==
    ASSUME IInv, RowsInv, NEW t \in Tables, commitTable(t)
    PROVE  /\ RowsInv'
           /\ \E Y : /\ TableOK(Y) /\ tabs' = [tabs EXCEPT ![t] = Y]
                     /\ Y.head > tabs[t].head /\ Y.lo = tabs[t].lo /\ Y.hid = tabs[t].hid
                     /\ Y.dur = tabs[t].dur /\ Y.hidDur = tabs[t].hidDur
                     /\ \A i \in tabs[t].lo .. tabs[t].head - 1 : Y.val[i] = tabs[t].val[i]
<1> DEFINE w == Written(t)
<1>0. /\ Busy("write") /\ mode = "open" /\ pc = "write"
      /\ UNCHANGED <<frozen, tail, lockVars, syncVars, mode, crashes>>
  BY Zenon DEF commitTable, Busy
<1>1. PICK n \in 1 .. MaxItems - frozen : arg \in [1 .. n -> Values] /\ Len(arg) = n
  BY ZenonT(40), <1>0 DEF IInv, WriterInv, Batch
<1>2. /\ frozen \in Nat /\ tabs[t].head \in frozen .. frozen + n
      /\ w = tabs[t].head - frozen /\ w \in Nat
  BY <1>0, <1>1, FreezerAssumption DEF IInv, TypeOK, WriterInv, Written
<1>3. PICK k \in w + 1 .. n : tabs' = [tabs EXCEPT ![t] = T!Appended(tabs[t], SubSeq(arg, w + 1, k))]
  BY Zenon, <1>1 DEF commitTable
<1> DEFINE sub == SubSeq(arg, w + 1, k)
           Y == T!Appended(tabs[t], sub)
<1> HIDE DEF w
<1>4. n \in Nat /\ k \in w + 1 .. n /\ k \in Nat /\ k - w \in Nat /\ k > w /\ frozen + n <= MaxItems
  BY <1>1, <1>2, FreezerAssumption
<1>5. /\ sub \in [1 .. k - w -> Values] /\ Len(sub) = k - w
      /\ \A i \in 1 .. k - w : sub[i] = arg[w + i]
  <2>1. arg \in [1 .. n -> Values] /\ Len(arg) = n /\ w \in Nat /\ n \in Nat /\ k \in w + 1 .. n
    BY <1>1, <1>2, <1>4
  <2> HIDE DEF sub
  <2>2. /\ SubSeq(arg, w + 1, k) \in [1 .. k - w -> Values]
        /\ Len(SubSeq(arg, w + 1, k)) = k - w
        /\ \A i \in 1 .. k - w : SubSeq(arg, w + 1, k)[i] = arg[w + i]
    BY ZenonT(40), <2>1, SubBatch
  <2> QED BY <2>2, Zenon DEF sub
<1>6. TableOK(tabs[t]) /\ tabs[t].head + (k - w) = frozen + k /\ tabs[t].head + (k - w) <= MaxItems
      /\ tabs[t].head \in Nat /\ tabs[t].lo \in Nat
  <2>1. tabs[t].head + (k - w) = frozen + k
    BY <1>2, <1>4
  <2> QED BY <1>2, <1>4, <2>1, TableFacts, FreezerAssumption DEF IInv
<1>7. tabs' = [tabs EXCEPT ![t] = Y]
  BY ZenonT(40), <1>3
<1> HIDE DEF sub
<1>8. /\ TableOK(Y) /\ Y.head = tabs[t].head + (k - w)
      /\ Y.lo = tabs[t].lo /\ Y.hid = tabs[t].hid /\ Y.dur = tabs[t].dur /\ Y.hidDur = tabs[t].hidDur
      /\ \A i \in tabs[t].lo .. tabs[t].head - 1 : Y.val[i] = tabs[t].val[i]
      /\ \A i \in tabs[t].head .. tabs[t].head + (k - w) - 1 : Y.val[i] = sub[i - tabs[t].head + 1]
  <2> DEFINE m == k - w
  <2>1. m \in Nat /\ sub \in [1 .. m -> Values] /\ Len(sub) = m /\ tabs[t].head + m <= MaxItems
    BY <1>4, <1>5, <1>6
  <2> HIDE DEF m
  <2>2. /\ TableOK(Y) /\ Y.head = tabs[t].head + m
        /\ Y.lo = tabs[t].lo /\ Y.hid = tabs[t].hid /\ Y.dur = tabs[t].dur /\ Y.hidDur = tabs[t].hidDur
        /\ \A i \in tabs[t].lo .. tabs[t].head - 1 : Y.val[i] = tabs[t].val[i]
        /\ \A i \in tabs[t].head .. tabs[t].head + m - 1 : Y.val[i] = sub[i - tabs[t].head + 1]
    BY ZenonT(30), <1>6, <2>1, AppendedOK
  <2> QED BY <2>2 DEF m
<1> HIDE DEF Y
<1>9. tabs'[t] = Y /\ \A u \in Tables \ {t} : tabs'[u] = tabs[u]
  BY Zenon, <1>7, <1>8, OneTable DEF IInv
<1>10. ASSUME NEW i \in frozen .. Y.head - 1
       PROVE  Y.val[i] = arg[i - frozen + 1]
  <2>1. CASE i < tabs[t].head
    <3>1. tabs[t].lo <= frozen
      <4>1. tabs[t].lo <= tabs[t].hid /\ tabs[t].hid \in Nat
        BY Zenon, TableNats
      <4>2. tabs[t].hid = tail /\ tail <= frozen
        BY ZenonT(40), <1>0 DEF IInv, WriterInv
      <4> QED BY <1>2, <1>6, <4>1, <4>2
    <3>2. i \in tabs[t].lo .. tabs[t].head - 1 /\ i \in frozen .. tabs[t].head - 1
      BY <1>2, <1>6, <2>1, <3>1
    <3> QED BY Zenon, <1>0, <1>8, <3>2 DEF RowsInv
  <2>2. CASE ~(i < tabs[t].head)
    <3>1. /\ i \in tabs[t].head .. tabs[t].head + (k - w) - 1
          /\ i - tabs[t].head + 1 \in 1 .. k - w
          /\ w + (i - tabs[t].head + 1) = i - frozen + 1
      BY <1>2, <1>4, <1>6, <1>8, <2>2
    <3>2. Y.val[i] = sub[i - tabs[t].head + 1]
      BY Zenon, <1>8, <3>1
    <3>3. sub[i - tabs[t].head + 1] = arg[w + (i - tabs[t].head + 1)]
      BY Zenon, <1>5, <3>1
    <3> QED BY ZenonT(40), <3>1, <3>2, <3>3
  <2> QED BY <2>1, <2>2
<1>11. Agree(tabs')
  <2>1. \A u \in Tables : tabs[u].lo \in Nat /\ tabs[u].head \in Nat /\ frozen <= tabs[u].head
    <3>1. \A u \in Tables : tabs[u].head \in frozen .. frozen + Len(arg)
      BY Zenon, <1>0 DEF IInv, WriterInv
    <3>2. \A u \in Tables : frozen <= tabs[u].head
      BY <1>1, <1>2, <1>4, <3>1
    <3> QED BY Zenon, <3>2, TableNats
  <2>2. ASSUME NEW u \in Tables \ {t},
               NEW i \in (tabs[u].lo .. tabs[u].head - 1) \cap (Y.lo .. Y.head - 1)
        PROVE  tabs[u].val[i] = Y.val[i]
    <3>0. /\ i \in tabs[u].lo .. tabs[u].head - 1 /\ i \in Y.lo .. Y.head - 1 /\ Y.lo = tabs[t].lo /\ Y.head \in Nat
          /\ tabs[u].lo \in Nat /\ tabs[u].head \in Nat /\ tabs[t].lo \in Nat /\ tabs[t].head \in Nat
          /\ frozen \in Nat /\ frozen <= tabs[t].head
      <4>1. Y.head \in Nat
        BY <1>4, <1>6, <1>8
      <4> QED BY ZenonT(40), <1>2, <1>6, <1>8, <2>1, <2>2, <4>1
    <3>1. CASE i < tabs[t].head
      <4>1. i \in tabs[t].lo .. tabs[t].head - 1
        BY <3>0, <3>1
      <4>2. tabs[u].val[i] = tabs[t].val[i]
        BY <2>2, <4>1 DEF RowsInv, Agree
      <4> QED BY ZenonT(40), <1>8, <4>1, <4>2
    <3>2. CASE ~(i < tabs[t].head)
      <4>1. i \in frozen .. tabs[u].head - 1 /\ i \in frozen .. Y.head - 1
        BY <3>0, <3>2
      <4>2. tabs[u].val[i] = arg[i - frozen + 1]
        BY Zenon, <1>0, <2>2, <4>1 DEF RowsInv
      <4> QED BY ZenonT(40), <1>10, <4>1, <4>2
    <3> QED BY Zenon, <3>1, <3>2
  <2>3. Agree(tabs)
    BY Zenon DEF RowsInv
  <2>4. ASSUME NEW u \in Tables, NEW v \in Tables,
               NEW i \in (tabs'[u].lo .. tabs'[u].head - 1) \cap (tabs'[v].lo .. tabs'[v].head - 1)
        PROVE  tabs'[u].val[i] = tabs'[v].val[i]
    <3>1. CASE u = t /\ v = t
      BY Zenon, <3>1
    <3>2. CASE u = t /\ v /= t
      <4>1. tabs'[u] = Y /\ tabs'[v] = tabs[v] /\ v \in Tables \ {t}
        BY Zenon, <1>9, <3>2
      <4>2. i \in (tabs[v].lo .. tabs[v].head - 1) \cap (Y.lo .. Y.head - 1)
        BY Zenon, <2>4, <4>1
      <4> QED BY ZenonT(40), <2>2, <4>1, <4>2
    <3>3. CASE u /= t /\ v = t
      <4>1. tabs'[v] = Y /\ tabs'[u] = tabs[u] /\ u \in Tables \ {t}
        BY Zenon, <1>9, <3>3
      <4>2. i \in (tabs[u].lo .. tabs[u].head - 1) \cap (Y.lo .. Y.head - 1)
        BY Zenon, <2>4, <4>1
      <4> QED BY ZenonT(40), <2>2, <4>1, <4>2
    <3>4. CASE u /= t /\ v /= t
      <4>1. tabs'[u] = tabs[u] /\ tabs'[v] = tabs[v]
        BY Zenon, <1>9, <3>4
      <4>2. i \in (tabs[u].lo .. tabs[u].head - 1) \cap (tabs[v].lo .. tabs[v].head - 1)
        BY Zenon, <2>4, <4>1
      <4>3. tabs[u].val[i] = tabs[v].val[i]
        BY Zenon, <2>3, <4>2 DEF Agree
      <4> QED BY Zenon, <4>1, <4>3
    <3> QED BY Zenon, <3>1, <3>2, <3>3, <3>4
  <2> QED BY Zenon, <2>4 DEF Agree
<1>12. RowsInv'
  BY ZenonT(30), <1>0, <1>9, <1>10, <1>11 DEF RowsInv, Busy, lockVars
<1>13. Y.head > tabs[t].head
  BY <1>2, <1>4, <1>6, <1>8
<1> QED BY Zenon, <1>7, <1>8, <1>12, <1>13

\* A roll-back or a head truncation of one table cuts it to a length that no
\* table is shorter than.
CutsHead(t, Y, n) ==
    /\ mode = "open" /\ mode' = mode /\ TableOK(Y) /\ tabs' = [tabs EXCEPT ![t] = Y]
    /\ n \in 0 .. MaxItems /\ tail <= n /\ Y.head = n
    /\ \A u \in Tables : tabs[u].head >= n /\ tabs[u].hid = tail
    /\ Y.lo = tabs[t].lo /\ Y.hid = tabs[t].hid /\ Y.hidDur = tabs[t].hidDur
    /\ Y.dur = tabs[t].dur \/ Y.dur = n
    /\ \A i \in Y.lo .. Y.head - 1 : Y.val[i] = tabs[t].val[i]

LEMMA RowsCutHead ==
    ASSUME IInv, RowsInv, NEW t \in Tables, rollbackTable(t) \/ truncateHeadTable(t)
    PROVE  RowsInv' /\ \E Y, n : CutsHead(t, Y, n)
<1>1. PICK n : /\ mode = "open" /\ UNCHANGED <<mode, pc>> /\ pc \notin {"write", "repair"}
               /\ tabs' = [tabs EXCEPT ![t] = TruncatedHead(tabs[t], n)]
               /\ n \in 0 .. MaxItems /\ tail <= n
               /\ \A u \in Tables : tabs[u].head >= n /\ tabs[u].hid = tail
  <2>1. CASE rollbackTable(t)
    BY Zenon, <2>1 DEF rollbackTable, Busy, Visit, IInv, TypeOK, WriterInv
  <2>2. CASE truncateHeadTable(t)
    <3>1. /\ mode = "open" /\ UNCHANGED <<mode, pc>> /\ pc = "truncateHead"
          /\ tabs' = [tabs EXCEPT ![t] = TruncatedHead(tabs[t], arg)]
      BY <2>2 DEF truncateHeadTable, Busy, Visit
    <3>2. arg \in tail .. frozen - 1 /\ At(todo, frozen, tail) /\ At(Tables \ todo, arg, tail)
          /\ frozen \in 0 .. MaxItems /\ tail \in 0 .. MaxItems
      BY <3>1 DEF IInv, TypeOK, WriterInv, Busy
    <3>3. \A u \in Tables : tabs[u].head >= arg /\ tabs[u].hid = tail
      BY <3>2, FreezerAssumption DEF At
    <3>4. arg \in 0 .. MaxItems /\ tail <= arg
      BY <3>2, FreezerAssumption
    <3> QED BY Zenon, <3>1, <3>3, <3>4
  <2> QED BY <2>1, <2>2
<1> DEFINE Y == TruncatedHead(tabs[t], n)
<1>2. TableOK(tabs[t]) /\ tabs[t].head \in 0 .. MaxItems /\ tabs[t].hid <= n /\ tabs[t].head >= n /\ n \in 0 .. MaxItems
  BY Zenon, <1>1, TableFacts DEF IInv
<1>3. /\ TableOK(Y)
      /\ Y.head = IF tabs[t].head <= n THEN tabs[t].head ELSE n
      /\ Y.dur = IF tabs[t].head <= n THEN tabs[t].dur ELSE n
      /\ Y.lo = tabs[t].lo /\ Y.hid = tabs[t].hid /\ Y.hidDur = tabs[t].hidDur
      /\ \A i \in Y.lo .. Y.head - 1 : Y.val[i] = tabs[t].val[i]
  BY Zenon, <1>2, TruncatedHeadOK
<1>4. tabs' = [tabs EXCEPT ![t] = Y]
  BY Zenon, <1>1
<1> HIDE DEF Y
<1>5. Y.head = n /\ (Y.dur = tabs[t].dur \/ Y.dur = n) /\ Y.head <= tabs[t].head /\ tabs[t].lo <= Y.lo
  <2>1. Y.head = n /\ (Y.dur = tabs[t].dur \/ Y.dur = n)
    <3>1. /\ Y.head = (IF tabs[t].head <= n THEN tabs[t].head ELSE n)
          /\ Y.dur = (IF tabs[t].head <= n THEN tabs[t].dur ELSE n)
          /\ tabs[t].head \in 0 .. MaxItems /\ tabs[t].head >= n /\ n \in 0 .. MaxItems
      BY Zenon, <1>2, <1>3
    <3> QED BY <3>1, FreezerAssumption
  <2>2. Y.lo = tabs[t].lo /\ tabs[t].lo \in Nat
    BY Zenon, <1>3, TableNats
  <2>3. n <= tabs[t].head /\ tabs[t].lo <= Y.lo
    <3>1. tabs[t].head \in 0 .. MaxItems /\ tabs[t].head >= n /\ n \in 0 .. MaxItems
      BY Zenon, <1>2
    <3> QED BY <2>2, <3>1, FreezerAssumption
  <2> QED BY Zenon, <2>1, <2>3
<1>6. CutsHead(t, Y, n)
  BY Zenon, <1>1, <1>3, <1>4, <1>5 DEF CutsHead
<1>7. Agree(tabs')
  BY ZenonT(40), <1>3, <1>4, <1>5, ShrinkAgree DEF IInv, RowsInv
<1>8. RowsInv'
  BY <1>1, <1>7 DEF RowsInv, Busy
<1> QED BY <1>6, <1>8

\* A tail truncation of one table, in an operation or in the repair, which also
\* cuts the table's head to the length of the shortest one.
CutsTail(t, Y) ==
    /\ mode' = mode /\ TableOK(Y) /\ tabs' = [tabs EXCEPT ![t] = Y]
    /\ tabs[t].lo <= Y.lo /\ tabs[t].hid <= Y.hid /\ tabs[t].hidDur <= Y.hidDur
    /\ Y.head <= tabs[t].head /\ \E u \in Tables : tabs[u].head <= Y.head
    /\ mode = "open" => tabs[t].dur <= Y.dur
    /\ mode = "open" => \A u \in Tables : Y.hid <= tabs[u].head
    /\ mode # "open" => \E u \in Tables : Y.hid = tabs[u].hid
    /\ \A i \in Y.lo .. Y.head - 1 : Y.val[i] = tabs[t].val[i]

LEMMA RowstruncateTailTable ==
    ASSUME IInv, RowsInv, NEW t \in Tables, truncateTailTable(t)
    PROVE  RowsInv' /\ mode = "open" /\ \E Y : CutsTail(t, Y)
<1>1. /\ mode = "open" /\ pc = "truncateTail" /\ t \in todo /\ UNCHANGED <<pc, mode>>
  BY DEF truncateTailTable, Busy, Visit
<1>2. PICK Y \in TruncatedTails(tabs[t], arg) : tabs' = [tabs EXCEPT ![t] = Y]
  BY Zenon DEF truncateTailTable
<1>3. /\ TableOK(tabs[t]) /\ tabs[t].hid = tail /\ \A u \in Tables : tabs[u].head = frozen
      /\ arg \in tail + 1 .. frozen /\ arg \in 0 .. MaxItems /\ tail \in Nat /\ frozen \in Nat
  <2>1. TableOK(tabs[t]) /\ MaxItems \in Nat
    BY Zenon, TableNats
  <2>2. arg \in tail + 1 .. frozen /\ At(todo, frozen, tail) /\ At(Tables \ todo, frozen, arg)
    BY Zenon, <1>1 DEF IInv, WriterInv, Busy
  <2>3. tail \in 0 .. MaxItems /\ frozen \in 0 .. MaxItems
    BY Zenon DEF IInv, TypeOK
  <2>4. tabs[t].hid = tail /\ \A u \in Tables : tabs[u].head = frozen
    BY Zenon, <1>1, <2>2 DEF At
  <2>5. arg \in 0 .. MaxItems /\ tail \in Nat /\ frozen \in Nat
    BY <2>1, <2>2, <2>3
  <2> QED BY Zenon, <2>1, <2>2, <2>4, <2>5
<1>4. /\ TableOK(Y) /\ Y.head = frozen /\ Y.hid = arg
      /\ tabs[t].lo <= Y.lo /\ tabs[t].dur <= Y.dur /\ tabs[t].hidDur <= Y.hidDur
      /\ \A i \in Y.lo .. Y.head - 1 : Y.val[i] = tabs[t].val[i]
  <2>1. tabs[t].hid < arg => arg <= tabs[t].head
    BY <1>3
  <2>2. /\ TableOK(Y) /\ Y.hid = (IF tabs[t].hid >= arg THEN tabs[t].hid ELSE arg) /\ Y.head = tabs[t].head
        /\ tabs[t].lo <= Y.lo /\ tabs[t].dur <= Y.dur /\ tabs[t].hidDur <= Y.hidDur
        /\ \A i \in Y.lo .. Y.head - 1 : Y.val[i] = tabs[t].val[i]
    <3> DEFINE Z == tabs[t]
    <3>1. TableOK(Z) /\ arg \in 0 .. MaxItems /\ (Z.hid < arg => arg <= Z.head) /\ Y \in TruncatedTails(Z, arg)
      BY ZenonT(40), <1>2, <1>3, <2>1
    <3> HIDE DEF Z
    <3>2. /\ TableOK(Y) /\ Y.hid = (IF Z.hid >= arg THEN Z.hid ELSE arg) /\ Y.head = Z.head
          /\ Z.lo <= Y.lo /\ Z.dur <= Y.dur /\ Z.hidDur <= Y.hidDur
          /\ \A i \in Y.lo .. Y.head - 1 : Y.val[i] = Z.val[i]
      BY SMTT(30), Z3T(30), <3>1, TruncatedTailsOK
    <3> QED BY Zenon, <3>2 DEF Z
  <2>3. ~(tail >= arg)
    BY SMTT(30), Z3T(30), <1>3
  <2> QED BY Zenon, <1>3, <2>2, <2>3
<1>5. CutsTail(t, Y)
  BY <1>1, <1>2, <1>3, <1>4, FreezerAssumption DEF CutsTail
<1>6. Agree(tabs')
  BY Zenon, <1>5, ShrinkAgree DEF IInv, RowsInv, CutsTail
<1>7. RowsInv'
  BY ZenonT(40), <1>1, <1>6 DEF RowsInv, Busy
<1> QED BY <1>1, <1>5, <1>7

LEMMA RowsrepairTable ==
    ASSUME IInv, RowsInv, NEW t \in Tables, repairTable(t)
    PROVE  /\ RowsInv' /\ mode = "down"
           /\ \/ \E Y : CutsTail(t, Y)
              \/ /\ UNCHANGED tabs /\ mode' = "failed"
                 /\ \E u, v \in Tables : tabs[u].hid > tabs[v].head
<1> DEFINE X == TruncatedHead(tabs[t], arg.head)
           bad == \/ tabs[t].head > arg.head /\ arg.head < tabs[t].hid
                  \/ X.hid < arg.tail /\ X.head < arg.tail
<1>1. mode = "down" /\ pc = "repair" /\ t \in todo
  BY Zenon DEF repairTable
<1>2. /\ arg.head \in 0 .. MaxItems /\ arg.tail \in 0 .. MaxItems
      /\ \A u \in Tables : tabs[u].head >= arg.head /\ tabs[u].hid <= arg.tail
      /\ \E u \in Tables : tabs[u].hid = arg.tail
      /\ \E u \in Tables : tabs[u].head = arg.head
      /\ tabs[t].hid <= tabs[t].head
  BY ZenonT(40), <1>1 DEF IInv, RepairInv, RowsInv
<1>3. /\ TableOK(tabs[t]) /\ tabs[t].head \in 0 .. MaxItems /\ tabs[t].hid \in 0 .. MaxItems
      /\ tabs[t].dur \in 0 .. MaxItems /\ tabs[t].lo \in 0 .. MaxItems /\ tabs[t].hidDur \in 0 .. MaxItems
      /\ tabs[t].dur = tabs[t].head
  BY <1>1, TableFacts DEF IInv, RowsInv
<1>4. CASE bad
  <2>1. mode' = "failed" /\ Release /\ UNCHANGED tabs
    BY <1>4 DEF repairTable
  <2>2. arg.tail > arg.head
    BY Zenon, <1>2, <1>3, <1>4, NotRepairedOK
  <2>3. \E u, v \in Tables : tabs[u].hid > tabs[v].head
    BY Zenon, <1>2, <2>2
  <2>4. RowsInv'
    BY ZenonT(40), <1>1, <2>1 DEF Release, RowsInv, Agree, Busy
  <2> QED BY ZenonT(40), <1>1, <2>1, <2>3, <2>4
<1>5. CASE ~bad
  <2>1. PICK Y \in TruncatedTails(X, arg.tail) : tabs' = [tabs EXCEPT ![t] = Y]
    BY <1>5 DEF repairTable
  <2>2. UNCHANGED <<pc, arg, mode>>
    BY Zenon, <1>5 DEF repairTable, Visit
  <2>3. ~(tabs[t].head > arg.head /\ arg.head < tabs[t].hid) /\ ~(X.hid < arg.tail /\ X.head < arg.tail)
    BY Zenon, <1>5
  <2> HIDE DEF X
  <2>4. X = TruncatedHead(tabs[t], arg.head)
    BY Zenon DEF X
  <2>5. /\ TableOK(Y) /\ Y.head = arg.head /\ Y.hid = arg.tail
        /\ tabs[t].lo <= Y.lo /\ tabs[t].hidDur <= Y.hidDur
        /\ Y.dur \in 0 .. MaxItems /\ (Y.dur = arg.head \/ (tabs[t].head = arg.head /\ tabs[t].dur <= Y.dur))
        /\ Y.dur <= Y.head /\ Y.lo \in 0 .. MaxItems
        /\ \A i \in Y.lo .. Y.head - 1 : Y.val[i] = tabs[t].val[i]
    <3> DEFINE Z == tabs[t]
               a == arg.head
               z == arg.tail
    <3>1. /\ TableOK(Z) /\ a \in 0 .. MaxItems /\ z \in 0 .. MaxItems /\ Z.head >= a /\ Z.hid <= z /\ Z.hid <= Z.head
          /\ X = TruncatedHead(Z, a) /\ ~(Z.head > a /\ a < Z.hid) /\ ~(X.hid < z /\ X.head < z)
          /\ Y \in TruncatedTails(X, z)
      BY ZenonT(40), <1>2, <1>3, <2>1, <2>3, <2>4
    <3> HIDE DEF Z, a, z
    <3>2. /\ TableOK(Y) /\ Y.head = a /\ Y.hid = z
          /\ Z.lo <= Y.lo /\ Z.hidDur <= Y.hidDur
          /\ Y.dur \in 0 .. MaxItems /\ (Y.dur = a \/ (Z.head = a /\ Z.dur <= Y.dur))
          /\ Y.dur <= Y.head /\ Y.lo \in 0 .. MaxItems
          /\ \A i \in Y.lo .. Y.head - 1 : Y.val[i] = Z.val[i]
      BY SMTT(30), Z3T(30), <3>1, RepairedOK
    <3> QED BY Zenon, <3>2 DEF Z, a, z
  <2>6. Y.dur = Y.head /\ Y.head <= tabs[t].head /\ tabs[t].hid <= Y.hid /\ Y.head \in 0 .. MaxItems
    <3>1. arg.head <= tabs[t].head /\ tabs[t].hid <= arg.tail
      BY ZenonT(40), <1>2, <1>3
    <3>2. Y.dur = arg.head
      BY <1>2, <1>3, <2>5, FreezerAssumption
    <3> QED BY ZenonT(40), <1>2, <2>5, <3>1, <3>2
  <2>7. \E u \in Tables : tabs[u].head <= Y.head
    BY Zenon, <1>2, <2>5
  <2>8. CutsTail(t, Y)
    BY Zenon, <1>1, <1>2, <2>1, <2>2, <2>5, <2>6, <2>7 DEF CutsTail
  <2>9. Agree(tabs')
    BY Zenon, <2>8, ShrinkAgree DEF IInv, RowsInv, CutsTail
  <2>10. tabs'[t] = Y /\ \A u \in Tables \ {t} : tabs'[u] = tabs[u]
    BY ZenonT(30), <2>1, <2>5, OneTable DEF IInv
  <2>11. RowsInv'
    BY Zenon, <1>1, <2>2, <2>5, <2>6, <2>9, <2>10 DEF RowsInv, Busy
  <2> QED BY Zenon, <1>1, <2>8, <2>11
<1> QED BY <1>4, <1>5

\* A flush of one table.
SyncsTable(t, Y) ==
    /\ mode = "open" /\ mode' = mode /\ TableOK(Y) /\ tabs' = [tabs EXCEPT ![t] = Y]
    /\ Y.lo = tabs[t].lo /\ Y.head = tabs[t].head /\ Y.val = tabs[t].val /\ Y.hid = tabs[t].hid
    /\ Y.dur = tabs[t].head /\ Y.hidDur = tabs[t].hid

LEMMA RowssyncTable ==
    ASSUME IInv, RowsInv, NEW t \in Tables, syncTable(t)
    PROVE  RowsInv' /\ \E Y : SyncsTable(t, Y)
<1> DEFINE Y == T!Synced(tabs[t])
<1>1. mode = "open" /\ tabs' = [tabs EXCEPT ![t] = Y] /\ UNCHANGED <<pc, arg, frozen, mode>>
  BY DEF syncTable, lockVars
<1>2. TableOK(tabs[t]) /\ tabs[t].lo \in Nat /\ tabs[t].head \in Nat
  BY ZenonT(40), TableNats
<1>3. /\ TableOK(Y)
      /\ Y.lo = tabs[t].lo /\ Y.head = tabs[t].head /\ Y.val = tabs[t].val /\ Y.hid = tabs[t].hid
      /\ Y.dur = tabs[t].head /\ Y.hidDur = tabs[t].hid
  BY <1>2, SyncedOK
<1> HIDE DEF Y
<1>4. tabs'[t] = Y /\ \A u \in Tables \ {t} : tabs'[u] = tabs[u]
  BY Zenon, <1>1, <1>3, OneTable DEF IInv
<1>5. \A u \in Tables : tabs'[u].lo = tabs[u].lo /\ tabs'[u].head = tabs[u].head /\ tabs'[u].val = tabs[u].val
  BY <1>3, <1>4
<1>6. Agree(tabs')
  BY <1>5 DEF RowsInv, Agree
<1>7. RowsInv'
  BY SMTT(30), Z3T(30), <1>1, <1>5, <1>6 DEF RowsInv, Busy, IInv, WriterInv
<1> QED BY Zenon, <1>1, <1>3, <1>7 DEF SyncsTable

\* All tables are replaced by what is left of them.
LEMMA PartsAgree ==
    ASSUME NEW ts, NEW us, Agree(ts),
           \A t \in Tables : /\ us[t].lo = ts[t].lo /\ us[t].head \in Int /\ us[t].head <= ts[t].head
                             /\ ts[t].head \in Int /\ ts[t].lo \in Int
                             /\ \A i \in us[t].lo .. us[t].head - 1 : us[t].val[i] = ts[t].val[i]
    PROVE  Agree(us)
<1>1. ASSUME NEW t \in Tables, NEW i \in us[t].lo .. us[t].head - 1
      PROVE  i \in ts[t].lo .. ts[t].head - 1 /\ us[t].val[i] = ts[t].val[i]
  OBVIOUS
<1> QED BY <1>1 DEF Agree

LEMMA RowsClose ==
    ASSUME IInv, RowsInv, Close
    PROVE  /\ RowsInv' /\ mode = "open" /\ mode' = "down"
           /\ \A t \in Tables :
                /\ tabs'[t].lo = tabs[t].lo /\ tabs'[t].head = tabs[t].head /\ tabs'[t].val = tabs[t].val
                /\ tabs'[t].hid = tabs[t].hid /\ tabs'[t].hidDur = tabs[t].hid
<1>1. mode = "open" /\ mode' = "down" /\ pc' = "idle" /\ \A t \in Tables : tabs'[t] = T!Synced(tabs[t])
  BY Zenon DEF Close, Stopped, Idle
<1>2. ASSUME NEW t \in Tables
      PROVE  /\ tabs'[t].lo = tabs[t].lo /\ tabs'[t].head = tabs[t].head /\ tabs'[t].val = tabs[t].val
             /\ tabs'[t].hid = tabs[t].hid /\ tabs'[t].hidDur = tabs[t].hid /\ tabs'[t].dur = tabs'[t].head
  <2>1. TableOK(tabs[t]) /\ tabs'[t] = T!Synced(tabs[t])
    BY Zenon, <1>1, TableFacts DEF IInv
  <2> QED BY <2>1, SyncedOK
<1>3. Agree(tabs')
  BY <1>2 DEF RowsInv, Agree
<1>4. RowsInv'
  BY ZenonT(40), <1>1, <1>2, <1>3 DEF RowsInv, Busy
<1> QED BY <1>1, <1>2, <1>4

LEMMA RowsCrash ==
    ASSUME IInv, RowsInv, Crash
    PROVE  /\ RowsInv' /\ mode /= "failed" /\ mode' = "down"
           /\ \A t \in Tables :
                /\ tabs'[t].lo = tabs[t].lo /\ tabs'[t].head \in tabs[t].dur .. tabs[t].head
                /\ tabs'[t].hid \in tabs[t].hidDur .. tabs[t].hid /\ tabs'[t].hidDur = tabs'[t].hid
                /\ \A i \in tabs'[t].lo .. tabs'[t].head - 1 : tabs'[t].val[i] = tabs[t].val[i]
<1>1. mode /= "failed" /\ mode' = "down" /\ pc' = "idle" /\ \A t \in Tables : tabs'[t] \in T!AfterCrash(tabs[t])
  BY DEF Crash, Stopped
<1>2. ASSUME NEW t \in Tables
      PROVE  /\ tabs'[t].lo = tabs[t].lo /\ tabs'[t].head \in tabs[t].dur .. tabs[t].head
             /\ tabs'[t].hid \in tabs[t].hidDur .. tabs[t].hid /\ tabs'[t].hidDur = tabs'[t].hid
             /\ \A i \in tabs'[t].lo .. tabs'[t].head - 1 : tabs'[t].val[i] = tabs[t].val[i]
             /\ tabs'[t].dur = tabs'[t].head
  <2>1. TableOK(tabs[t]) /\ tabs'[t] \in T!AfterCrash(tabs[t])
    BY ZenonT(40), <1>1, TableFacts DEF IInv
  <2> QED BY Zenon, <2>1, AfterCrashOK
<1>3. \A t \in Tables : /\ tabs'[t].head \in Int /\ tabs'[t].head <= tabs[t].head
                        /\ tabs[t].head \in Int /\ tabs[t].lo \in Int
  BY <1>2, TableFacts, FreezerAssumption DEF IInv
<1>4. Agree(tabs')
  BY Zenon, <1>2, <1>3, PartsAgree DEF RowsInv
<1>5. RowsInv'
  BY ZenonT(40), <1>1, <1>2, <1>4 DEF RowsInv, Busy
<1> QED BY <1>1, <1>2, <1>5

LEMMA RowsReset ==
    ASSUME IInv, RowsInv, Reset
    PROVE  RowsInv' /\ mode = "open" /\ mode' = mode /\ \A t \in Tables : tabs'[t] = T!EmptyTable
<1>1. mode = "open" /\ mode' = mode /\ pc' = "idle" /\ \A t \in Tables : tabs'[t] = T!EmptyTable
  BY DEF Reset, lockVars, Idle
<1>2. Agree(tabs')
  BY <1>1 DEF Agree
<1> QED BY <1>1, <1>2 DEF RowsInv, Busy

LEMMA InitRows == Init => RowsInv
<1> SUFFICES ASSUME Init PROVE RowsInv
  OBVIOUS
<1>1. mode = "open" /\ pc = "idle" /\ \A t \in Tables : tabs[t] = T!EmptyTable
  BY DEF Init
<1>2. Agree(tabs)
  BY <1>1 DEF Agree
<1> QED BY <1>1, <1>2 DEF RowsInv, Busy

LEMMA RowsNewFreezer ==
    ASSUME IInv, RowsInv, NewFreezer
    PROVE  /\ RowsInv' /\ mode = "down" /\ UNCHANGED tabs
           /\ mode' = mode \/ (mode' = "failed" /\ \E u \in Tables : tabs[u].hid > tabs[u].head)
<1>1. mode = "down" /\ pc = "idle" /\ UNCHANGED tabs
  BY DEF NewFreezer
<1>2. Agree(tabs')
  BY <1>1 DEF RowsInv
<1>3. CASE \A t \in Tables : T!Openable(tabs[t])
  <2>1. pc' = "repair" /\ arg' = [head |-> Min(Heads(tabs)), tail |-> Max(Tails(tabs))] /\ mode' = mode
    BY <1>3 DEF NewFreezer, Acquire
  <2>2. arg'.head = Min(Heads(tabs))
    BY <2>1
  <2>3. \E t \in Tables : tabs'[t].head = arg'.head
    BY Zenon, <1>1, <2>2, Extremes DEF IInv
  <2> QED BY ZenonT(40), <1>1, <1>2, <2>1, <2>3 DEF RowsInv, Busy
<1>4. CASE ~ \A t \in Tables : T!Openable(tabs[t])
  <2>1. mode' = "failed" /\ pc' = pc
    BY <1>4 DEF NewFreezer, lockVars
  <2>2. PICK u \in Tables : ~(tabs[u].hid <= tabs[u].head)
    BY <1>4 DEF T!Openable
  <2>3. tabs[u].hid > tabs[u].head
    BY SMTT(30), Z3T(30), <2>2, TableFacts, FreezerAssumption DEF IInv
  <2> QED BY Zenon, <1>1, <1>2, <2>1, <2>3 DEF RowsInv, Busy
<1> QED BY <1>3, <1>4

LEMMA RowsModifyAncients ==
    ASSUME IInv, RowsInv, ModifyAncients
    PROVE  RowsInv' /\ UNCHANGED <<tabs, mode>>
<1>1. UNCHANGED <<tabs, frozen, mode>> /\ Idle /\ pc' = "write"
  BY Zenon DEF ModifyAncients, Acquire
<1>2. \A t \in Tables : tabs[t].head = frozen
  BY <1>1 DEF IInv, WriterInv, At
<1>3. frozen \in Nat
  BY FreezerAssumption DEF IInv, TypeOK
<1>4. \A t \in Tables : tabs[t].head .. tabs[t].head - 1 = {}
  BY SMTT(30), Z3T(30), <1>2, <1>3
<1> QED BY <1>1, <1>2, <1>4 DEF RowsInv, Busy, Idle, Agree

LEMMA RowsrepairDone ==
    ASSUME IInv, RowsInv, repairDone
    PROVE  /\ RowsInv' /\ mode = "down" /\ mode' = "open" /\ UNCHANGED tabs
           /\ \A u, v \in Tables : tabs[u].hid <= tabs[v].head
<1>1. mode = "down" /\ mode' = "open" /\ pc' = "idle" /\ UNCHANGED tabs
  BY DEF repairDone, Release
<1>2. \A u, v \in Tables : tabs[u].hid <= tabs[v].head
  BY FreezerAssumption DEF repairDone, IInv, RepairInv, At
<1> QED BY <1>1, <1>2 DEF RowsInv, Busy

\* The other actions leave the tables and the mode alone.
Silent ==
    \/ commitDone \/ modifyFails \/ rollbackDone \/ truncateHeadDone \/ truncateTailDone
    \/ Sync \/ syncDone \/ \E n \in 0 .. MaxItems : TruncateHead(n) \/ TruncateTail(n)

LEMMA RowsSilent ==
    ASSUME IInv, RowsInv, Silent
    PROVE  RowsInv' /\ UNCHANGED <<tabs, mode>>
<1>1. UNCHANGED <<tabs, mode>>
  BY Zenon DEF Silent, commitDone, modifyFails, rollbackDone, truncateHeadDone, truncateTailDone,
         Sync, syncDone, TruncateHead, TruncateTail
<1>2. pc' \notin {"write", "repair"} \/ UNCHANGED <<pc, arg, frozen>>
  BY Zenon DEF Silent, commitDone, modifyFails, rollbackDone, truncateHeadDone, truncateTailDone,
         Sync, syncDone, TruncateHead, TruncateTail, Acquire, Release, lockVars
<1> QED BY <1>1, <1>2, RowsSame
====
