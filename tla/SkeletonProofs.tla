--------------------------- MODULE SkeletonProofs ---------------------------
(***************************************************************************)
(* Proofs about Skeleton, for any peers, chains, window and bounds: the    *)
(* persisted subchains stay linked and disjoint, no task is lost or given  *)
(* out twice, and the backfiller only works on a linked skeleton.          *)
(***************************************************************************)
EXTENDS SkeletonResponses

\* What SMT leaves open is tried with Zenon, and once more with Z3.
USE SMT, Zenon, Z3T(30)

----
(***************************************************************************)
(* The beginning and the end of a cycle: lists of subchains that are cut,  *)
(* extended and cleaned.                                                   *)
(***************************************************************************)
\* The first subchain is replaced by one above the other subchains, and the
\* headers below it are kept.
LEMMA ReplaceFirst ==
    ASSUME NEW d, NEW e, NEW ss \in Seq(Subchains), ss /= <<>>, Sound(ss, d),
           NEW s \in Subchains, Segment(s, e), ss[1].tail <= s.tail,
           \A n \in 1 .. ss[1].tail - 1 : e[n] = d[n]
    PROVE  [ss EXCEPT ![1] = s] \in Seq(Subchains) /\ Sound([ss EXCEPT ![1] = s], e)
<1> DEFINE tt == [ss EXCEPT ![1] = s]
<1>0. 1 \in 1 .. Len(ss) /\ Len(ss) \in Nat
  OBVIOUS
<1>1. tt \in Seq(Subchains) /\ Len(tt) = Len(ss) /\ tt[1] = s /\ \A i \in 2 .. Len(ss) : tt[i] = ss[i]
  BY <1>0
<1> HIDE DEF tt
<1>2. \A i \in 1 .. Len(ss) : ss[i] \in Subchains /\ ss[i].head \in Nat /\ ss[i].tail \in 1 .. MaxNumber /\ ss[i].tail <= ss[i].head
  BY SubTypes DEF Sound, Segment
<1>3. s.tail \in Nat
  BY SkeletonAssumption DEF Subchains
<1>4. ASSUME NEW i \in 2 .. Len(ss)
      PROVE  Segment(ss[i], e) /\ ss[i].head < tt[i - 1].tail
  <2>1. ss[i].head < ss[1].tail
    BY <1>0, Descends
  <2>2. Segment(ss[i], d) /\ \A n \in ss[i].tail .. ss[i].head : n \in 1 .. ss[1].tail - 1
    BY <1>0, <1>2, <2>1, SkeletonAssumption DEF Sound
  <2>3. Segment(ss[i], e)
    BY <1>2, <2>2, SameSegment
  <2>4. CASE i = 2
    BY <1>0, <1>1, <1>2, <1>3, <2>1, <2>3, <2>4, SkeletonAssumption
  <2>5. CASE i /= 2
    BY <1>0, <1>1, <2>3, <2>5 DEF Sound
  <2> QED BY <2>4, <2>5
<1>5. Sound(tt, e)
  BY <1>0, <1>1, <1>4 DEF Sound
<1> QED BY <1>1, <1>5 DEF tt

\* A new subchain above the others.
LEMMA Prepend ==
    ASSUME NEW d, NEW ss \in Seq(Subchains), Sound(ss, d), NEW s \in Subchains, Segment(s, d),
           ss /= <<>> => ss[1].head < s.tail
    PROVE  /\ <<s>> \o ss \in Seq(Subchains) /\ <<s>> \o ss /= <<>> /\ Sound(<<s>> \o ss, d)
           /\ (<<s>> \o ss)[1] = s
<1> DEFINE tt == <<s>> \o ss
<1>1. /\ tt \in Seq(Subchains) /\ Len(tt) = Len(ss) + 1 /\ tt[1] = s
      /\ \A i \in 2 .. Len(tt) : tt[i] = ss[i - 1]
  OBVIOUS
<1> HIDE DEF tt
<1>2. ASSUME NEW i \in 1 .. Len(tt)
      PROVE  Segment(tt[i], d)
  <2>1. CASE i = 1
    BY <1>1, <2>1
  <2>2. CASE i /= 1
    <3>1. i - 1 \in 1 .. Len(ss) /\ tt[i] = ss[i - 1]
      BY <1>1, <2>2
    <3> QED BY <3>1 DEF Sound
  <2> QED BY <2>1, <2>2
<1>3. ASSUME NEW i \in 2 .. Len(tt)
      PROVE  tt[i].head < tt[i - 1].tail
  <2>1. CASE i = 2
    BY <1>1, <2>1
  <2>2. CASE i /= 2
    <3>1. i - 1 \in 2 .. Len(ss) /\ tt[i] = ss[i - 1] /\ tt[i - 1] = ss[i - 1 - 1]
      BY <1>1, <2>2
    <3> QED BY <3>1 DEF Sound
  <2> QED BY <2>1, <2>2
<1>4. Sound(tt, d) /\ tt /= <<>>
  BY <1>1, <1>2, <1>3 DEF Sound
<1> QED BY <1>1, <1>4 DEF tt

\* What is left of the subchains below number n.
LEMMA BelowFacts ==
    ASSUME subs \in Seq(Subchains), Sound(subs, db), NEW n \in Nat
    PROVE  /\ Below(n) \in Seq(Subchains) /\ Sound(Below(n), db)
           /\ \A i \in 1 .. Len(Below(n)) : Below(n)[i].tail < n
<1> DEFINE S == {i \in DOMAIN subs : subs[i].tail < n} \cup {Len(subs) + 1}
           first == Min(S)
           kept == SubSeq(subs, first, Len(subs))
<1>1. S \in SUBSET Nat /\ S # {} /\ S \subseteq 1 .. Len(subs) + 1
  OBVIOUS
<1>2. first \in S
  BY ZenonT(30), <1>1, MinNat
<1>3. first \in 1 .. Len(subs) + 1 /\ (first <= Len(subs) => subs[first].tail < n)
  BY <1>1, <1>2
<1> HIDE DEF first, S
<1>4. \A i \in 1 .. Len(subs) : subs[i] \in Subchains /\ subs[i].head \in Nat /\ subs[i].tail \in Nat /\ subs[i].tail <= subs[i].head
  BY SubTypes DEF Sound, Segment
<1>5. \A i \in first .. Len(subs) : subs[i].tail < n
  <2> SUFFICES ASSUME NEW i \in first .. Len(subs) PROVE subs[i].tail < n
    OBVIOUS
  <2>1. CASE i = first
    BY <1>3, <2>1
  <2>2. CASE i /= first
    <3>1. first \in 1 .. Len(subs) /\ i \in 1 .. Len(subs) /\ first < i
      BY <1>3, <2>2
    <3>2. subs[i].head < subs[first].tail
      BY <3>1, Descends
    <3> QED BY <1>3, <1>4, <3>1, <3>2
  <2> QED BY <2>1, <2>2
<1>6. /\ kept \in Seq(Subchains) /\ Len(kept) = Len(subs) - first + 1
      /\ \A i \in 1 .. Len(kept) : kept[i] = subs[first + i - 1]
  BY <1>3
<1>7. Below(n) = kept
  BY DEF Below, kept, first, S
<1> HIDE DEF kept
<1>8. \A i \in 1 .. Len(kept) : first + i - 1 \in first .. Len(subs) /\ first + i - 1 \in 1 .. Len(subs)
  BY <1>3, <1>6
<1>9. \A i \in 1 .. Len(kept) : Segment(kept[i], db) /\ kept[i].tail < n
  BY <1>5, <1>6, <1>8 DEF Sound
<1>10. ASSUME NEW i \in 2 .. Len(kept)
       PROVE  kept[i].head < kept[i - 1].tail
  <2>1. PICK m \in 2 .. Len(subs) : kept[i] = subs[m] /\ kept[i - 1] = subs[m - 1]
    <3>1. i \in 1 .. Len(kept) /\ i - 1 \in 1 .. Len(kept) /\ first + i - 1 \in 2 .. Len(subs)
          /\ first + (i - 1) - 1 = (first + i - 1) - 1
      BY <1>3, <1>6
    <3> QED BY <1>6, <3>1
  <2> QED BY <2>1 DEF Sound
<1>11. Sound(kept, db)
  BY <1>9, <1>10 DEF Sound
<1> QED BY <1>6, <1>7, <1>9, <1>11

LEMMA TrimmedFacts ==
    ASSUME subs \in Seq(Subchains), Sound(subs, db), NEW h \in Headers
    PROVE  /\ Trimmed(h) \in Seq(Subchains) /\ Sound(Trimmed(h), db)
           /\ \A i \in 1 .. Len(Trimmed(h)) : Trimmed(h)[i].head < Number(h)
<1> DEFINE n == Number(h)
           kept == Below(n)
<1>1. n \in Nat /\ n \in 1 .. MaxNumber
  BY HeaderFacts, SkeletonAssumption
<1> HIDE DEF n
<1>2. kept \in Seq(Subchains) /\ Sound(kept, db) /\ \A i \in 1 .. Len(kept) : kept[i].tail < n
  BY ZenonT(30), <1>1, BelowFacts
<1> HIDE DEF kept
<1>3. Trimmed(h) = IF kept = <<>> THEN <<>> ELSE [kept EXCEPT ![1].head = Min({@, n - 1})]
  BY DEF Trimmed, kept, n
<1>4. CASE kept = <<>>
  BY <1>3, <1>4 DEF Sound
<1>5. CASE kept /= <<>>
  <2> DEFINE s == [kept[1] EXCEPT !.head = Min({@, n - 1})]
             tt == [kept EXCEPT ![1] = s]
  <2>1. 1 \in 1 .. Len(kept) /\ Len(kept) \in Nat
    BY <1>2, <1>5
  <2>2. /\ kept[1] \in Subchains /\ kept[1].head \in 1 .. MaxNumber /\ kept[1].tail \in 1 .. MaxNumber
        /\ kept[1].head \in Int /\ kept[1].tail \in Int
        /\ kept[1].tail < n /\ kept[1].tail <= kept[1].head /\ Segment(kept[1], db)
    BY <1>2, <2>1, SubTypes DEF Sound, Segment
  <2>3. Min({kept[1].head, n - 1}) = IF kept[1].head <= n - 1 THEN kept[1].head ELSE n - 1
    BY <1>1, <2>2, MinTwo
  <2>4. s = [kept[1] EXCEPT !.head = IF kept[1].head <= n - 1 THEN kept[1].head ELSE n - 1]
    BY <2>3
  <2> HIDE DEF s
  <2>5. /\ s \in Subchains /\ s.tail = kept[1].tail /\ s.next = kept[1].next
        /\ s.head = IF kept[1].head <= n - 1 THEN kept[1].head ELSE n - 1
    <3>1. (IF kept[1].head <= n - 1 THEN kept[1].head ELSE n - 1) \in 1 .. MaxNumber
      BY <1>1, <2>2, SkeletonAssumption
    <3> QED BY Zenon, <2>2, <2>4, <3>1 DEF Subchains
  <2>6. Segment(s, db) /\ s.head < n
    BY <1>1, <2>2, <2>5 DEF Segment
  <2>7. tt \in Seq(Subchains) /\ Sound(tt, db)
    <3>1. \A m \in 1 .. kept[1].tail - 1 : db[m] = db[m]
      OBVIOUS
    <3>2. kept[1].tail <= s.tail
      BY <2>2, <2>5
    <3> QED BY ZenonT(30), <1>2, <1>5, <2>5, <2>6, <3>1, <3>2, ReplaceFirst
  <2>8. Trimmed(h) = tt
    BY <1>3, <1>5, <2>1 DEF s
  <2>9. ASSUME NEW i \in 1 .. Len(tt)
        PROVE  tt[i].head < n
    <3>1. Len(tt) = Len(kept) /\ tt[1] = s /\ \A j \in 2 .. Len(kept) : tt[j] = kept[j]
      BY <1>2, <2>1
    <3>2. CASE i = 1
      BY <2>6, <3>1, <3>2
    <3>3. CASE i /= 1
      <4>1. i \in 1 .. Len(kept) /\ 1 < i /\ tt[i] = kept[i]
        BY <2>1, <3>1, <3>3
      <4>2. kept[i].head < kept[1].tail /\ kept[i].head \in Nat
        BY <1>2, <2>1, <4>1, Descends, SubTypes
      <4> QED BY <1>1, <2>2, <4>1, <4>2
    <3> QED BY <3>2, <3>3
  <2> QED BY <2>7, <2>8, <2>9 DEF n
<1> QED BY <1>4, <1>5

\* The list of subchains a new head leads to.
LEMMA InitSyncFacts ==
    ASSUME subs \in Seq(Subchains), Stored(db), Sound(subs, db), NEW h \in Headers
    PROVE  /\ initSync(h) \in Seq(Subchains) /\ initSync(h) /= <<>>
           /\ Stored([db EXCEPT ![Number(h)] = h])
           /\ Sound(initSync(h), [db EXCEPT ![Number(h)] = h])
<1> DEFINE n == Number(h)
           d == [db EXCEPT ![n] = h]
           kept == Trimmed(h)
           s == [kept[1] EXCEPT !.head = n]
           extends == kept /= <<>> /\ kept[1].head = n - 1 /\ db[kept[1].head] = Parent(h)
<1>1. n \in Nat /\ n \in 1 .. MaxNumber /\ h /= None /\ Parent(h) \in Headers \cup {Genesis}
  BY HeaderFacts, SkeletonAssumption
<1>2. kept \in Seq(Subchains) /\ Sound(kept, db) /\ \A i \in 1 .. Len(kept) : kept[i].head < n
  BY TrimmedFacts
<1>3. initSync(h) = IF extends THEN [kept EXCEPT ![1].head = n] ELSE <<Subchain(h)>> \o kept
  BY DEF initSync
<1>4. Stored(d) /\ d[n] = h /\ \A m \in 1 .. MaxNumber : m /= n => d[m] = db[m]
  <2>1. d \in [1 .. MaxNumber -> Headers \cup {None}] /\ d[n] = h /\ \A m \in 1 .. MaxNumber : m /= n => d[m] = db[m]
    BY <1>1 DEF Stored
  <2> HIDE DEF d
  <2>2. \A m \in 1 .. MaxNumber : d[m] /= None => Number(d[m]) = m
    BY <2>1 DEF Stored, n
  <2> QED BY <2>1, <2>2 DEF Stored
<1> HIDE DEF n, d, kept
<1>5. ASSUME NEW i \in 1 .. Len(kept)
      PROVE  Segment(kept[i], d)
  <2>1. kept[i] \in Subchains /\ Segment(kept[i], db)
    BY <1>2, SubTypes DEF Sound
  <2>2. \A m \in kept[i].tail .. kept[i].head : m \in 1 .. MaxNumber /\ m /= n
    BY <1>1, <1>2, <2>1, SubTypes, SkeletonAssumption
  <2>3. \A m \in kept[i].tail .. kept[i].head : d[m] = db[m]
    BY <1>4, <2>2
  <2> QED BY <2>1, <2>3, SameSegment
<1>6. Sound(kept, d)
  BY <1>2, <1>5 DEF Sound
<1>7. CASE extends
  <2>1. /\ 1 \in 1 .. Len(kept) /\ kept[1] \in Subchains /\ Segment(kept[1], d)
        /\ kept[1].tail \in 1 .. MaxNumber /\ kept[1].tail <= n - 1 /\ kept[1].head = n - 1 /\ kept[1].tail \in Int
    BY <1>2, <1>5, <1>7, SubTypes DEF Segment
  <2>2. s \in Subchains /\ s.tail = kept[1].tail /\ s.head = n /\ s.next = kept[1].next
    BY Zenon, <1>1, <2>1 DEF Subchains
  <2>3. \A m \in kept[1].tail .. n : m = n \/ m \in kept[1].tail .. n - 1
    BY <1>1, <2>1
  <2>4. d[n - 1] = Parent(h)
    BY <1>1, <1>4, <1>7, <2>1, SkeletonAssumption
  <2> HIDE DEF s
  <2>5. Segment(s, d)
    BY <1>1, <1>4, <2>1, <2>2, <2>3, <2>4 DEF Segment
  <2>6. [kept EXCEPT ![1] = s] \in Seq(Subchains) /\ Sound([kept EXCEPT ![1] = s], d)
    <3>1. kept[1].tail <= s.tail /\ kept /= <<>>
      BY <1>7, <2>1, <2>2
    <3> QED BY <1>2, <1>6, <2>2, <2>5, <3>1, ReplaceFirst
  <2>7. initSync(h) = [kept EXCEPT ![1] = s] /\ initSync(h) /= <<>>
    BY <1>2, <1>3, <1>7, <2>1 DEF s
  <2> QED BY <1>4, <2>6, <2>7 DEF n, d
<1>8. CASE ~extends
  <2>1. Subchain(h) = [head |-> n, tail |-> n, next |-> Parent(h)]
    BY DEF Subchain, n
  <2>2. Subchain(h) \in Subchains /\ Subchain(h).tail = n
    BY <1>1, <2>1 DEF Subchains
  <2>3. Segment(Subchain(h), d)
    BY <1>1, <1>4, <2>1 DEF Segment
  <2>4. kept /= <<>> => kept[1].head < Subchain(h).tail
    BY <1>2, <2>2
  <2> QED BY <1>2, <1>3, <1>4, <1>6, <1>8, <2>2, <2>3, <2>4, Prepend DEF n, d
<1> QED BY <1>7, <1>8

\* The deletion of headers.
LEMMA DeletedFacts ==
    ASSUME Stored(db), NEW a \in Int, NEW b \in Int
    PROVE  /\ Stored(Deleted(a, b))
           /\ \A n \in 1 .. MaxNumber : Deleted(a, b)[n] = IF n \in a .. b THEN None ELSE db[n]
<1>1. DOMAIN db = 1 .. MaxNumber
  BY DEF Stored
<1>2. \A n \in 1 .. MaxNumber : Deleted(a, b)[n] = IF n \in a .. b THEN None ELSE db[n]
  BY <1>1 DEF Deleted
<1>3. Deleted(a, b) \in [1 .. MaxNumber -> Headers \cup {None}]
  BY <1>1 DEF Deleted, Stored
<1> QED BY <1>2, <1>3 DEF Stored

\* What cleanStales makes of the first subchain when everything is deleted.
LEMMA CleanFacts ==
    ASSUME subs \in Seq(Subchains), subs /= <<>>, Stored(db), Sound(subs, db),
           NEW h \in Headers \cup {Genesis, None}, Stale(h)
    PROVE  LET tt == [subs EXCEPT ![1] = CleanSub(h)]
               e == Deleted(subs[1].tail, StaleEnd(h))
           IN  tt \in Seq(Subchains) /\ tt /= <<>> /\ Stored(e) /\ Sound(tt, e)
<1> DEFINE n == Number(h)
           s == subs[1]
           c == CleanSub(h)
           end == StaleEnd(h)
           e == Deleted(s.tail, end)
<1>1. /\ s \in Subchains /\ Segment(s, db) /\ s.head \in 1 .. MaxNumber /\ s.tail \in 1 .. MaxNumber
      /\ s.head \in Int /\ s.tail \in Int /\ s.tail <= s.head
  BY SubTypes DEF Sound, Segment
<1>2. /\ h /= None /\ n >= s.tail /\ db[n] = h
      /\ n < s.head => Parent(db[n + 1]) = h
  BY DEF Stale
<1> HIDE DEF s
<1>3. h \in Headers /\ n \in 1 .. MaxNumber /\ n \in Int
  BY <1>1, <1>2, HeaderFacts, SkeletonAssumption
<1>4. end = IF n = s.head THEN n - 1 ELSE IF s.head <= n THEN s.head ELSE n
  BY <1>1, <1>3, MinTwo DEF StaleEnd, s
<1>5. end \in Int
  BY <1>1, <1>3, <1>4
<1>6. c = IF n < s.head THEN [s EXCEPT !.tail = Number(db[n + 1]), !.next = Parent(db[n + 1])] ELSE Subchain(h)
  BY DEF CleanSub, s
<1>7. Stored(e) /\ \A m \in 1 .. MaxNumber : e[m] = IF m \in s.tail .. end THEN None ELSE db[m]
  BY <1>1, <1>5, DeletedFacts
<1> HIDE DEF n, c, end, e
<1>8. c \in Subchains /\ s.tail <= c.tail /\ Segment(c, e)
  <2>1. CASE n < s.head
    <3>1. n + 1 \in s.tail .. s.head /\ n + 1 \in 1 .. MaxNumber /\ n + 1 /= s.tail
      BY <1>1, <1>2, <1>3, <2>1, SkeletonAssumption
    <3>2. db[n + 1] /= None
      BY <1>1, <3>1 DEF Segment
    <3>3. Number(db[n + 1]) = n + 1 /\ Parent(db[n + 1]) = h
      BY <1>2, <2>1, <3>1, <3>2 DEF Stored
    <3>4. c = [s EXCEPT !.tail = n + 1, !.next = h]
      BY <1>6, <2>1, <3>3
    <3>5. c \in Subchains /\ c.tail = n + 1 /\ c.head = s.head /\ c.next = h
      BY ZenonT(30), <1>1, <1>3, <3>1, <3>4 DEF Subchains
    <3>6. end = n
      BY <1>1, <1>3, <1>4, <2>1
    <3>7. \A m \in n + 1 .. s.head : m \in 1 .. MaxNumber /\ m \in s.tail .. s.head /\ m \notin s.tail .. end /\ (m /= n + 1 => m - 1 \in n + 1 .. s.head)
      BY <1>1, <1>2, <1>3, <3>6, SkeletonAssumption
    <3>8. \A m \in n + 1 .. s.head : e[m] = db[m]
      BY <1>7, <3>7
    <3>9. \A m \in n + 1 .. s.head : db[m] /= None /\ (m /= n + 1 => Parent(db[m]) = db[m - 1])
      <4>1. \A m \in n + 1 .. s.head : m /= n + 1 => m /= s.tail
        BY <1>1, <1>2, <1>3
      <4> QED BY <1>1, <3>7, <4>1 DEF Segment
    <3>10. \A m \in n + 1 .. s.head : m /= n + 1 => e[m - 1] = db[m - 1]
      BY <3>7, <3>8
    <3>11. Segment(c, e)
      BY SMTT(30), Z3T(30), <3>1, <3>3, <3>5, <3>8, <3>9, <3>10, <1>1, <1>3 DEF Segment
    <3> QED BY <1>1, <1>2, <1>3, <3>5, <3>11
  <2>2. CASE ~(n < s.head)
    <3>1. c = [head |-> n, tail |-> n, next |-> Parent(h)]
      BY <1>6, <2>2 DEF Subchain, n
    <3>2. c \in Subchains
      BY <1>3, <3>1, HeaderFacts DEF Subchains
    <3>3. n \notin s.tail .. end
      BY <1>1, <1>3, <1>4, <2>2
    <3>4. e[n] = h
      BY <1>2, <1>3, <1>7, <3>3
    <3> QED BY <1>2, <1>3, <3>1, <3>2, <3>4 DEF Segment
  <2> QED BY <2>1, <2>2
<1>9. \A m \in 1 .. s.tail - 1 : e[m] = db[m]
  <2>1. \A m \in 1 .. s.tail - 1 : m \in 1 .. MaxNumber /\ m \notin s.tail .. end
    BY <1>1, <1>5, SkeletonAssumption
  <2> QED BY <1>7, <2>1
<1>10. [subs EXCEPT ![1] = c] \in Seq(Subchains) /\ Sound([subs EXCEPT ![1] = c], e)
  BY <1>8, <1>9, ReplaceFirst DEF s
<1>11. [subs EXCEPT ![1] = c] /= <<>>
  OBVIOUS
<1> QED BY <1>7, <1>10, <1>11 DEF s, c, e, end

\* What a crash leaves between two flushes of cleanStales.
LEMMA CrashFacts ==
    ASSUME subs \in Seq(Subchains), subs /= <<>>, Stored(db), Sound(subs, db),
           NEW h \in Headers \cup {Genesis, None}, Stale(h), Number(h) <= subs[1].head,
           NEW n \in subs[1].tail + 1 .. StaleEnd(h)
    PROVE  LET tt == [subs EXCEPT ![1] = [head |-> CleanSub(h).head, tail |-> n, next |-> Parent(db[n])]]
               e == Deleted(subs[1].tail, n - 1)
           IN  tt \in Seq(Subchains) /\ tt /= <<>> /\ Stored(e) /\ Sound(tt, e)
<1> DEFINE s == subs[1]
           c == [head |-> CleanSub(h).head, tail |-> n, next |-> Parent(db[n])]
           e == Deleted(s.tail, n - 1)
<1>1. /\ s \in Subchains /\ Segment(s, db) /\ s.head \in 1 .. MaxNumber /\ s.tail \in 1 .. MaxNumber
      /\ s.head \in Int /\ s.tail \in Int /\ s.tail <= s.head
  BY SubTypes DEF Sound, Segment
<1>2. /\ h /= None /\ Number(h) >= s.tail /\ Number(h) <= s.head
  BY DEF Stale
<1> HIDE DEF s
<1>3. h \in Headers /\ Number(h) \in Int
  <2>1. h /= Genesis
    BY <1>1, <1>2, HeaderFacts
  <2> QED BY <1>2, <2>1, HeaderFacts
<1>4. StaleEnd(h) = IF Number(h) = s.head THEN Number(h) - 1 ELSE Number(h)
  BY <1>1, <1>2, <1>3, MinTwo DEF StaleEnd, s
<1>5. n \in Int /\ n \in s.tail .. s.head /\ n \in 1 .. MaxNumber /\ n > s.tail
  BY <1>1, <1>2, <1>3, <1>4, SkeletonAssumption DEF s
<1>6. CleanSub(h).head = s.head
  <2>1. CASE Number(h) < s.head
    <3>1. CleanSub(h) = [s EXCEPT !.tail = Number(db[Number(h) + 1]), !.next = Parent(db[Number(h) + 1])]
      BY <2>1 DEF CleanSub, s
    <3> QED BY <1>1, <3>1 DEF Subchains
  <2>2. CASE ~(Number(h) < s.head)
    BY <1>1, <1>2, <1>3, <2>2 DEF CleanSub, Subchain, s
  <2> QED BY <2>1, <2>2
<1>7. c = [head |-> s.head, tail |-> n, next |-> Parent(db[n])]
  BY <1>6
<1>8. db[n] /= None /\ db[n] \in Headers
  BY <1>1, <1>5 DEF Segment, Stored
<1>9. c \in Subchains
  BY ZenonT(40), <1>1, <1>5, <1>7, <1>8, HeaderFacts DEF Subchains
<1>10. Stored(e) /\ \A m \in 1 .. MaxNumber : e[m] = IF m \in s.tail .. n - 1 THEN None ELSE db[m]
  BY <1>1, <1>5, DeletedFacts
<1> HIDE DEF c, e
<1>11. \A m \in n .. s.head : m \in s.tail .. s.head /\ m /= s.tail /\ m \in 1 .. MaxNumber /\ m \notin s.tail .. n - 1
                              /\ (m /= n => m - 1 \in n .. s.head)
  BY <1>1, <1>5, SkeletonAssumption
<1>12. \A m \in n .. s.head : e[m] = db[m] /\ db[m] /= None /\ (m /= n => Parent(db[m]) = db[m - 1])
  BY <1>1, <1>10, <1>11 DEF Segment
<1>13. \A m \in n .. s.head : m /= n => e[m - 1] = db[m - 1]
  BY <1>11, <1>12
<1>14. Segment(c, e)
  <2>1. c.tail = n /\ c.head = s.head /\ c.next = Parent(db[n])
    BY <1>7
  <2> QED BY <1>1, <1>5, <1>12, <1>13, <2>1 DEF Segment
<1>15. \A m \in 1 .. s.tail - 1 : e[m] = db[m]
  <2>1. \A m \in 1 .. s.tail - 1 : m \in 1 .. MaxNumber /\ m \notin s.tail .. n - 1
    BY <1>1, <1>5, SkeletonAssumption
  <2> QED BY <1>10, <2>1
<1>16. s.tail <= c.tail
  BY <1>5, <1>7
<1>17. [subs EXCEPT ![1] = c] \in Seq(Subchains) /\ Sound([subs EXCEPT ![1] = c], e)
  BY <1>9, <1>14, <1>15, <1>16, ReplaceFirst DEF s
<1>18. [subs EXCEPT ![1] = c] /= <<>>
  OBVIOUS
<1> QED BY <1>10, <1>17, <1>18 DEF s, c, e

----
(***************************************************************************)
(* The steps.                                                              *)
(***************************************************************************)
LEMMA Empty ==
    /\ NoCycle \in Cycles /\ ~NoCycle.linked /\ NoCycle.reqs = {} /\ NoCycle.filled = None
    /\ NoCycle.owners = [k \in TaskIds |-> None] /\ NoCycle.space = [k \in TaskIds |-> <<>>]
    /\ NoFill \in Fills /\ ~NoFill.filling /\ NoFill.filled = None /\ NoFill.state = "off" /\ ~NoFill.cancelled
<1>1. MaxNumber \in Nat /\ 0 \in 0 .. MaxNumber
  BY SkeletonAssumption
<1>2. <<>> \in Seq(Headers)
  OBVIOUS
<1>3. [k \in TaskIds |-> None] \in [TaskIds -> Peers \cup {None}] /\ [k \in TaskIds |-> <<>>] \in [TaskIds -> Seq(Headers)]
  BY <1>2
<1>4. NoCycle \in Cycles
  BY <1>1, <1>3 DEF NoCycle, Cycles
<1>5. NoFill \in Fills
  BY <1>1, <1>2 DEF NoFill, Fills
<1> QED BY Zenon, <1>4, <1>5 DEF NoCycle, NoFill

LEMMA InitInv == Init => IInv
<1> SUFFICES ASSUME Init PROVE IInv
  OBVIOUS
<1> USE DEF Init
<1>1. TypeInv
  <2>1. subs \in Seq(Subchains) /\ Stored(db)
    BY DEF Stored
  <2> QED BY <2>1, Empty DEF TypeInv
<1>2. Sound(subs, db)
  BY DEF Sound
<1>3. ControlInv
  BY Empty DEF ControlInv
<1>4. LinkInv
  BY Empty DEF LinkInv
<1>5. TaskInv
  BY DEF TaskInv
<1> QED BY <1>1, <1>2, <1>3, <1>4, <1>5 DEF IInv

\* A step of the cycle that leaves the skeleton and the backfiller alone.
LEMMA CycleKeeps ==
    ASSUME IInv, pc = "run", UNCHANGED <<subs, db, local, current, pc, next, fill>>, online' \subseteq Peers,
           NEW c \in Cycles, cyc' \in Assigned(c), c.linked = cyc.linked, c.filled = cyc.filled,
           c.scratchHead = cyc.scratchHead, c.reqs \subseteq cyc.reqs, Tracked(cyc) => Tracked(c)
    PROVE  IInv'
<1>1. /\ cyc' \in Cycles /\ cyc'.linked = cyc.linked /\ cyc'.scratchHead = cyc.scratchHead /\ cyc'.filled = cyc.filled
      /\ cyc.linked => cyc' = c
      /\ Tracked(cyc) => Tracked(cyc')
  BY AssignedFacts
<1>2. TypeInv'
  BY <1>1 DEF IInv, TypeInv, Stored
<1>3. Sound(subs, db)'
  BY DEF IInv, Sound, Segment
<1>4. ControlInv'
  BY DEF IInv, ControlInv
<1>5. LinkInv'
  BY <1>1 DEF IInv, LinkInv, Linked
<1>6. TaskInv'
  <2>1. ASSUME ~cyc'.linked PROVE cyc'.scratchHead = subs'[1].tail - 1 /\ Tracked(cyc')
    BY ZenonT(40), <1>1, <2>1 DEF IInv, TaskInv
  <2>2. Tracked(cyc)' <=> Tracked(cyc')
    BY DEF Tracked, Of
  <2> QED BY <2>1, <2>2 DEF TaskInv
<1> QED BY <1>2, <1>3, <1>4, <1>5, <1>6 DEF IInv

LEMMA RequestFailsInv == ASSUME IInv, NEW r \in cyc.reqs, RequestFails(r) PROVE IInv'
<1>1. pc = "run" /\ cyc' \in Assigned(Reverted(cyc, r)) /\ UNCHANGED <<subs, db, local, current, pc, next, fill, online>>
  BY DEF RequestFails
<1>2. ~cyc.linked /\ cyc \in Cycles /\ Tracked(cyc) /\ online' \subseteq Peers
  BY <1>1 DEF IInv, TypeInv, LinkInv, TaskInv
<1>3. /\ Reverted(cyc, r) \in Cycles /\ Reverted(cyc, r).linked = cyc.linked /\ Reverted(cyc, r).filled = cyc.filled
      /\ Reverted(cyc, r).scratchHead = cyc.scratchHead /\ Tracked(Reverted(cyc, r))
  BY <1>2, RevertedFacts
<1>4. Reverted(cyc, r).reqs \subseteq cyc.reqs
  BY <1>2 DEF Reverted, Cycles
<1> QED BY ZenonT(40), <1>1, <1>2, <1>3, <1>4, CycleKeeps

LEMMA PeerJoinsInv == ASSUME IInv, NEW p \in Peers, PeerJoins(p) PROVE IInv'
<1>1. UNCHANGED <<subs, db, local, current, pc, next, fill>> /\ online' \subseteq Peers
  BY DEF PeerJoins, IInv, TypeInv
<1>2. CASE pc = "run"
  <2> DEFINE c == [cyc EXCEPT !.idles = cyc.idles \cup {p}]
  <2>1. cyc' \in Assigned(c) /\ cyc \in Cycles
    BY <1>2 DEF PeerJoins, IInv, TypeInv
  <2>2. /\ c \in Cycles /\ c.reqs = cyc.reqs /\ c.scratchHead = cyc.scratchHead /\ c.space = cyc.space
        /\ c.owners = cyc.owners /\ c.linked = cyc.linked /\ c.filled = cyc.filled
    BY ZenonT(30), <2>1 DEF Cycles
  <2> HIDE DEF c
  <2>3. Tracked(cyc) => Tracked(c)
    BY ZenonT(40), <2>1, <2>2, IdleFacts
  <2> QED BY <1>1, <1>2, <2>1, <2>2, <2>3, CycleKeeps
<1>3. CASE pc /= "run"
  <2>1. UNCHANGED cyc
    BY ZenonT(40), <1>3 DEF PeerJoins
  <2> QED BY <1>1, <1>3, <2>1
       DEF IInv, TypeInv, ControlInv, LinkInv, TaskInv, Linked, Stored, Sound, Segment
<1> QED BY <1>2, <1>3

LEMMA LateReplyInv == ASSUME IInv, NEW p \in Peers, LateReply(p) PROVE IInv'
<1>1. UNCHANGED <<subs, db, local, current, pc, next, fill>> /\ online' \subseteq Peers /\ pc = "run"
  BY DEF LateReply, IInv, TypeInv
<1> DEFINE c == [cyc EXCEPT !.late = cyc.late \ {p}, !.idles = cyc.idles \cup {p}]
<1>2. cyc' \in Assigned(c) /\ cyc \in Cycles
  BY DEF LateReply, IInv, TypeInv
<1>3. /\ c \in Cycles /\ c.reqs = cyc.reqs /\ c.scratchHead = cyc.scratchHead /\ c.space = cyc.space
      /\ c.owners = cyc.owners /\ c.linked = cyc.linked /\ c.filled = cyc.filled
  BY ZenonT(30), <1>2 DEF Cycles
<1> HIDE DEF c
<1>4. Tracked(cyc) => Tracked(c)
  BY <1>2, <1>3, IdleFacts
<1> QED BY <1>1, <1>2, <1>3, <1>4, CycleKeeps

LEMMA PeerLeavesInv == ASSUME IInv, NEW p \in Peers, PeerLeaves(p) PROVE IInv'
<1>1. UNCHANGED <<subs, db, local, current, pc, next, fill>> /\ online' \subseteq Peers
  BY DEF PeerLeaves, IInv, TypeInv
<1>2. CASE pc = "run"
  <2> DEFINE own == {r \in cyc.reqs : r.peer = p}
             ow == [k \in TaskIds |-> IF \E r \in own : (cyc.scratchHead - r.head) \div requestHeaders = k
                                      THEN None ELSE cyc.owners[k]]
             lt == IF own = {} THEN cyc.late ELSE cyc.late \cup {p}
             c == [cyc EXCEPT !.reqs = cyc.reqs \ own, !.owners = ow, !.late = lt, !.idles = cyc.idles \ {p}]
  <2>1. cyc \in Cycles
    BY DEF IInv, TypeInv
  <2>2. cyc' \in Assigned(c)
    BY <1>2, Zenon DEF PeerLeaves
  <2>3. ow \in [TaskIds -> Peers \cup {None}] /\ lt \subseteq Peers /\ own \in SUBSET cyc.reqs
    BY <2>1 DEF Cycles
  <2>4. \A k \in TaskIds : ow[k] = IF \E r \in own : (cyc.scratchHead - r.head) \div requestHeaders = k
                                   THEN None ELSE cyc.owners[k]
    OBVIOUS
  <2> HIDE DEF ow, lt, own
  <2>5. /\ c \in Cycles /\ c.reqs = cyc.reqs \ own /\ c.scratchHead = cyc.scratchHead /\ c.space = cyc.space
        /\ c.owners = ow /\ c.linked = cyc.linked /\ c.filled = cyc.filled
    BY ZenonT(30), <2>1, <2>3 DEF Cycles
  <2> HIDE DEF c
  <2>6. ASSUME Tracked(cyc) PROVE Tracked(c)
    <3>1. \A k \in TaskIds : c.owners[k] = IF \E r \in own : (cyc.scratchHead - r.head) \div requestHeaders = k
                                          THEN None ELSE cyc.owners[k]
      BY <2>4, <2>5, Zenon
    <3> QED BY <2>1, <2>3, <2>5, <2>6, <3>1, FreedFacts, Zenon
  <2>7. c.reqs \subseteq cyc.reqs
    BY <2>5
  <2> QED BY <1>1, <1>2, <2>2, <2>5, <2>6, <2>7, CycleKeeps
<1>3. CASE pc /= "run"
  <2>1. UNCHANGED cyc
    BY <1>3 DEF PeerLeaves
  <2> QED BY <1>1, <1>3, <2>1
       DEF IInv, TypeInv, ControlInv, LinkInv, TaskInv, Linked, Stored, Sound, Segment
<1> QED BY <1>2, <1>3

LEMMA ReplyInv ==
    ASSUME IInv, NEW r \in cyc.reqs, NEW ch \in Chains, Reply(r, ch)
    PROVE  IInv'
<1>1. pc = "run" /\ UNCHANGED <<local, current, next, fill, online>>
  BY DEF Reply
<1>2. PICK w \in Consumed(Delivered(r, ch)) :
         /\ subs' = w.subs /\ db' = w.db
         /\ pc' = IF w.linked \/ w.merged THEN "end" ELSE "run"
         /\ cyc' \in IF w.linked \/ w.merged THEN {w.cyc} ELSE Assigned(w.cyc)
  BY DEF Reply
<1>3. /\ ~cyc.linked /\ TypeInv /\ subs /= <<>> /\ Sound(subs, db) /\ Genesis \in local
      /\ cyc.scratchHead = subs[1].tail - 1 /\ Tracked(cyc)
  BY Zenon, <1>1 DEF IInv, TypeInv, ControlInv, LinkInv, TaskInv
<1>4. Consuming(w)
  BY ZenonT(40), <1>2, <1>3, DeliveredFacts, ConsumedFacts
<1>5. w \in Works /\ w.subs /= <<>> /\ Stored(w.db) /\ Sound(w.subs, w.db) /\ ~w.cyc.linked /\ w.cyc \in Cycles
  BY <1>4 DEF Consuming, Works
<1>6. /\ cyc' \in Cycles /\ cyc'.scratchHead = w.cyc.scratchHead /\ ~cyc'.linked
      /\ Tracked(w.cyc) => Tracked(cyc')
  <2>1. CASE w.linked \/ w.merged
    BY Zenon, <1>2, <1>5, <2>1
  <2>2. CASE ~(w.linked \/ w.merged)
    BY Zenon, <1>2, <1>5, <2>2, AssignedFacts
  <2> QED BY <2>1, <2>2
<1>7. TypeInv'
  BY ZenonT(40), <1>1, <1>2, <1>3, <1>5, <1>6 DEF TypeInv, Works, Stored
<1>8. Sound(subs, db)'
  BY <1>2, <1>5 DEF Sound, Segment
<1>9. ControlInv'
  BY ZenonT(40), <1>1, <1>2, <1>5 DEF IInv, ControlInv
<1>10. LinkInv'
  BY <1>1, <1>2, <1>3, <1>6 DEF IInv, LinkInv
<1>11. TaskInv'
  <2>1. ASSUME pc' = "run" PROVE cyc'.scratchHead = subs'[1].tail - 1 /\ Tracked(cyc')
    BY ZenonT(40), <1>2, <1>4, <1>6, <2>1 DEF Consuming, Fetching
  <2>2. Tracked(cyc)' <=> Tracked(cyc')
    BY DEF Tracked, Of
  <2> QED BY Zenon, <2>1, <2>2 DEF TaskInv
<1> QED BY <1>7, <1>8, <1>9, <1>10, <1>11 DEF IInv

LEMMA HonestReplyInv == ASSUME IInv, NEW r \in cyc.reqs, HonestReply(r) PROVE IInv'
<1>1. subs /= <<>> /\ subs \in Seq(Subchains)
  BY DEF IInv, TypeInv, ControlInv, HonestReply, Reply
<1>2. subs[1].next \in Headers \cup {Genesis}
  BY <1>1, SubTypes
<1>3. subs[1].next[2] \in Chains
  BY <1>2, HeaderFacts, SkeletonAssumption DEF Genesis
<1> QED BY ZenonT(40), <1>3, ReplyInv DEF HonestReply

LEMMA OtherReplyInv == ASSUME IInv, NEW r \in cyc.reqs, OtherReply(r) PROVE IInv'
BY ReplyInv DEF OtherReply

LEMMA ResumedFacts ==
    ASSUME NEW f \in Fills
    PROVE  /\ Resumed(f) \in Fills /\ Resumed(f).filling /\ Resumed(f).filled \in {f.filled, None}
           /\ f.filling => Resumed(f) = f
<1>1. CASE f.filling
  BY <1>1 DEF Resumed, Fills
<1>2. CASE ~f.filling
  BY Zenon, <1>2, Empty DEF Resumed, Fills
<1> QED BY <1>1, <1>2

LEMMA BeginCycleInv == ASSUME IInv, BeginCycle PROVE IInv'
<1> DEFINE c == [NoCycle EXCEPT !.linked = Linked(subs'), !.scratchHead = subs'[1].tail - 1, !.idles = online]
<1>1. /\ pc = "begin" /\ pc' = "run" /\ next' = None /\ cyc' \in Assigned(c)
      /\ fill' = (IF Linked(subs') THEN Resumed(fill) ELSE fill)
      /\ UNCHANGED <<local, current, online>>
  BY DEF BeginCycle
<1>2. subs' \in Seq(Subchains) /\ subs' /= <<>> /\ Stored(db') /\ Sound(subs', db')
  <2>1. CASE next = None
    BY <1>1, <2>1 DEF BeginCycle, IInv, TypeInv, ControlInv
  <2>2. CASE next /= None
    <3>1. next \in Headers
      BY <1>1, <2>2 DEF IInv, TypeInv, ControlInv
    <3>2. subs' = initSync(next) /\ db' = [db EXCEPT ![Number(next)] = next]
      BY <2>2 DEF BeginCycle
    <3> QED BY Zenon, <3>1, <3>2, InitSyncFacts DEF IInv, TypeInv
  <2> QED BY <2>1, <2>2
<1>3. subs'[1].tail \in 1 .. MaxNumber /\ subs'[1].tail - 1 \in 0 .. MaxNumber
  BY <1>2, SubTypes, SkeletonAssumption
<1>4. /\ c \in Cycles /\ (c.linked <=> Linked(subs')) /\ c.scratchHead = subs'[1].tail - 1 /\ c.reqs = {}
      /\ c.owners = [k \in TaskIds |-> None] /\ c.space = [k \in TaskIds |-> <<>>]
  BY ZenonT(40), <1>3, Empty DEF Cycles, IInv, TypeInv, Linked
<1> HIDE DEF c
<1>5. Tracked(c)
  BY <1>4 DEF Tracked, Of
<1>6. /\ cyc' \in Cycles /\ cyc'.linked = c.linked /\ cyc'.scratchHead = c.scratchHead
      /\ (c.linked => cyc' = c) /\ Tracked(cyc')
  BY <1>1, <1>4, <1>5, AssignedFacts
<1>7. /\ fill' \in Fills /\ fill'.filled \in {fill.filled, None} /\ (fill.filling => fill' = fill)
      /\ (fill'.filling => fill.filling \/ Linked(subs'))
      /\ (fill'.state /= "off" => fill'.filling)
  BY <1>1, ResumedFacts DEF IInv, TypeInv, ControlInv
<1>8. TypeInv'
  BY SMTT(30), Z3T(30), <1>1, <1>2, <1>6, <1>7 DEF IInv, TypeInv, Stored
<1>9. Sound(subs, db)'
  BY <1>2 DEF Sound, Segment
<1>10. ControlInv'
  BY <1>1, <1>2, <1>7 DEF ControlInv
<1>11. LinkInv'
  <2>1. Linked(subs)' <=> Linked(subs')
    BY <1>1 DEF Linked
  <2>2. fill.filling => fill.cancelled
    BY <1>1 DEF IInv, LinkInv
  <2> QED BY <1>1, <1>4, <1>6, <1>7, <2>1, <2>2 DEF LinkInv
<1>12. TaskInv'
  <2>1. Tracked(cyc)' <=> Tracked(cyc')
    BY DEF Tracked, Of
  <2> QED BY ZenonT(40), <1>4, <1>6, <2>1 DEF TaskInv
<1> QED BY <1>8, <1>9, <1>10, <1>11, <1>12 DEF IInv

\* Only the control of the loop changes.
LEMMA StartHeadInv == ASSUME IInv, NEW h \in Headers, StartHead(h) PROVE IInv'
<1>1. pc = "wait" /\ pc' = "begin" /\ next' = h /\ h /= Quit /\ h /= None
      /\ UNCHANGED <<subs, db, local, current, cyc, fill, online>>
  BY HeaderFacts DEF StartHead
<1>2. TypeInv' /\ ControlInv' /\ LinkInv' /\ TaskInv'
  BY Zenon, <1>1 DEF IInv, TypeInv, ControlInv, LinkInv, TaskInv, Linked, Stored
<1>3. Sound(subs, db)'
  BY <1>1 DEF IInv, Sound, Segment
<1> QED BY <1>2, <1>3 DEF IInv

LEMMA ForceHeadInv == ASSUME IInv, NEW h \in Headers, ForceHead(h) PROVE IInv'
<1>1. pc = "run" /\ pc' = "end" /\ next' = h /\ UNCHANGED <<subs, db, local, current, cyc, fill, online>>
  BY Zenon DEF ForceHead
<1>2. TypeInv' /\ ControlInv' /\ LinkInv' /\ TaskInv'
  BY SMTT(30), Z3T(30), <1>1 DEF IInv, TypeInv, ControlInv, LinkInv, TaskInv, Linked, Stored
<1>3. Sound(subs, db)'
  BY Zenon, <1>1 DEF IInv, Sound, Segment
<1> QED BY <1>2, <1>3 DEF IInv

LEMMA TerminateInv == ASSUME IInv, Terminate PROVE IInv'
<1>1. pc = "run" /\ pc' = "end" /\ next' = Quit /\ UNCHANGED <<subs, db, local, current, cyc, fill, online>>
  BY DEF Terminate
<1>2. TypeInv' /\ ControlInv' /\ LinkInv' /\ TaskInv'
  BY Zenon, <1>1 DEF IInv, TypeInv, ControlInv, LinkInv, TaskInv, Linked, Stored
<1>3. Sound(subs, db)'
  BY <1>1 DEF IInv, Sound, Segment
<1> QED BY <1>2, <1>3 DEF IInv

\* A head that extends the first subchain is a child of one of its headers.
LEMMA ExtendFacts ==
    ASSUME subs \in Seq(Subchains), subs /= <<>>, Stored(db), Sound(subs, db), NEW h \in Headers, Accepted(h),
           ~(subs[1].tail >= Number(h))
    PROVE  LET tt == [subs EXCEPT ![1].head = Number(h)]
               e == [db EXCEPT ![Number(h)] = h]
           IN  /\ tt \in Seq(Subchains) /\ tt /= <<>> /\ Len(tt) = Len(subs) /\ Stored(e) /\ Sound(tt, e)
               /\ tt[1].tail = subs[1].tail /\ tt[1].next = subs[1].next
<1> DEFINE one == subs[1]
           m == Number(h)
           s == [one EXCEPT !.head = m]
           tt == [subs EXCEPT ![1] = s]
           e == [db EXCEPT ![m] = h]
<1>1. /\ one \in Subchains /\ one.tail \in Nat /\ one.head \in Nat /\ one.tail \in 1 .. MaxNumber
      /\ one.head \in 1 .. MaxNumber /\ Segment(one, db)
      /\ m \in 1 .. MaxNumber /\ m \in Nat /\ MaxNumber \in Nat
  BY SMTT(30), Z3T(30), SubTypes, HeaderFacts, SkeletonAssumption DEF Sound
<1>2. one.tail < m /\ m <= one.head + 1 /\ db[m - 1] = Parent(h)
  BY <1>1 DEF Accepted
<1> HIDE DEF m
<1>3. s \in Subchains /\ s.head = m /\ s.tail = one.tail /\ s.next = one.next
  BY ZenonT(40), <1>1 DEF Subchains
<1>4. /\ e \in [1 .. MaxNumber -> Headers \cup {None}] /\ e[m] = h /\ Stored(e)
      /\ \A n \in 1 .. MaxNumber : n /= m => e[n] = db[n]
  <2>1. e \in [1 .. MaxNumber -> Headers \cup {None}] /\ e[m] = h /\ \A n \in 1 .. MaxNumber : n /= m => e[n] = db[n]
    BY <1>1 DEF Stored
  <2> QED BY Zenon, <2>1 DEF Stored, m
<1> HIDE DEF e
<1>5. Segment(s, e)
  <2>1. \A n \in one.tail .. m - 1 : /\ n \in 1 .. MaxNumber /\ n /= m /\ n \in one.tail .. one.head
                                     /\ (n /= one.tail => n - 1 \in one.tail .. m - 1)
    BY SMTT(30), Z3T(30), <1>1, <1>2
  <2>2. \A n \in one.tail .. m - 1 : e[n] = db[n] /\ db[n] /= None /\ Parent(db[n]) = IF n = one.tail THEN one.next ELSE db[n - 1]
    BY Zenon, <1>1, <1>4, <2>1 DEF Segment
  <2>3. \A n \in one.tail .. m - 1 : n /= one.tail => e[n - 1] = db[n - 1]
    BY <2>1, <2>2
  <2>4. e[m] /= None /\ m /= one.tail /\ Parent(e[m]) = e[m - 1]
    <3>1. m - 1 \in one.tail .. m - 1 /\ m /= one.tail
      BY <1>1, <1>2
    <3>2. e[m - 1] = db[m - 1]
      BY <2>2, <3>1
    <3> QED BY ZenonT(40), <1>2, <1>4, <3>1, <3>2, HeaderFacts
  <2>5. \A n \in one.tail .. m : n = m \/ n \in one.tail .. m - 1
    BY <1>1
  <2>6. one.tail <= m
    BY <1>1, <1>2
  <2> HIDE DEF s
  <2> QED BY ZenonT(40), <1>3, <2>2, <2>3, <2>4, <2>5, <2>6 DEF Segment
<1>6. \A n \in 1 .. one.tail - 1 : e[n] = db[n]
  <2>1. \A n \in 1 .. one.tail - 1 : n \in 1 .. MaxNumber /\ n /= m
    BY <1>1, <1>2
  <2> QED BY <1>4, <2>1
<1> HIDE DEF s
<1>7. tt \in Seq(Subchains) /\ Sound(tt, e)
  <2>1. subs[1].tail <= s.tail
    BY <1>1, <1>3
  <2> QED BY Zenon, <1>3, <1>5, <1>6, <2>1, ReplaceFirst
<1>8. Len(tt) = Len(subs) /\ tt /= <<>> /\ tt[1] = s
  OBVIOUS
<1>9. tt = [subs EXCEPT ![1].head = Number(h)]
  BY DEF s, m
<1> QED BY Zenon, <1>3, <1>4, <1>7, <1>8, <1>9 DEF e, m

LEMMA ExtendHeadInv == ASSUME IInv, NEW h \in Headers, ExtendHead(h) PROVE IInv'
<1>1. /\ pc = "run" /\ Accepted(h) /\ cyc' \in Assigned(cyc)
      /\ fill' = (IF cyc.linked THEN Resumed(fill) ELSE fill)
      /\ UNCHANGED <<local, current, pc, next, online>>
  BY DEF ExtendHead
<1>2. subs \in Seq(Subchains) /\ subs /= <<>> /\ Stored(db) /\ Sound(subs, db) /\ cyc \in Cycles /\ fill \in Fills
  BY Zenon, <1>1 DEF IInv, TypeInv, ControlInv
<1>3. /\ subs' \in Seq(Subchains) /\ subs' /= <<>> /\ Len(subs') = Len(subs) /\ Stored(db') /\ Sound(subs', db')
      /\ subs'[1].tail = subs[1].tail /\ subs'[1].next = subs[1].next
  <2>1. CASE subs[1].tail >= Number(h)
    <3>1. UNCHANGED <<subs, db>>
      BY <2>1 DEF ExtendHead
    <3> QED BY <1>2, <3>1
  <2>2. CASE ~(subs[1].tail >= Number(h))
    <3>1. subs' = [subs EXCEPT ![1].head = Number(h)] /\ db' = [db EXCEPT ![Number(h)] = h]
      BY <2>2 DEF ExtendHead
    <3> QED BY ZenonT(30), <1>1, <1>2, <2>2, <3>1, ExtendFacts
  <2> QED BY <2>1, <2>2
<1>4. /\ cyc' \in Cycles /\ cyc'.linked = cyc.linked /\ cyc'.scratchHead = cyc.scratchHead
      /\ (cyc.linked => cyc' = cyc) /\ (Tracked(cyc) => Tracked(cyc'))
  BY <1>1, <1>2, AssignedFacts
<1>5. /\ fill' \in Fills /\ fill'.filled \in {fill.filled, None} /\ (fill.filling => fill' = fill)
      /\ (fill'.filling => fill.filling \/ cyc.linked)
      /\ (fill'.state /= "off" => fill'.filling)
  BY <1>1, <1>2, ResumedFacts DEF IInv, ControlInv
<1>6. Linked(subs)' <=> Linked(subs)
  BY Zenon, <1>1, <1>3 DEF Linked
<1>7. TypeInv'
  BY Zenon, <1>1, <1>3, <1>4, <1>5 DEF IInv, TypeInv, Stored
<1>8. Sound(subs, db)'
  BY Zenon, <1>3 DEF Sound, Segment
<1>9. ControlInv'
  BY Zenon, <1>1, <1>3, <1>5 DEF ControlInv
<1>10. LinkInv'
  BY Zenon, <1>1, <1>4, <1>5, <1>6 DEF IInv, LinkInv
<1>11. TaskInv'
  <2>1. Tracked(cyc)' <=> Tracked(cyc')
    BY DEF Tracked, Of
  <2> QED BY Zenon, <1>1, <1>3, <1>4, <2>1 DEF IInv, TaskInv
<1> QED BY <1>7, <1>8, <1>9, <1>10, <1>11 DEF IInv

\* The end of a cycle: from here on the backfiller is cancelled or not running.
LEMMA SuspendInv == ASSUME IInv, Suspend PROVE IInv'
<1>1. /\ pc = "end" /\ pc' = "clean" /\ UNCHANGED <<subs, db, local, current, next, online>>
      /\ cyc' = [NoCycle EXCEPT !.filled = IF fill.filling THEN current ELSE fill.filled]
      /\ fill' = IF ~fill.filling THEN fill
                 ELSE [fill EXCEPT !.cancelled = TRUE, !.queue = <<>>,
                                   !.state = IF @ \in {"starting", "search"} THEN @ ELSE "exit"]
  BY DEF Suspend
<1>2. fill \in Fills /\ fill.filled \in local \cup {None} /\ current \in local /\ local \subseteq Headers \cup {Genesis}
  BY DEF IInv, TypeInv
<1>3. cyc' \in Cycles
  BY ZenonT(40), <1>1, <1>2, Empty DEF Cycles
<1>4. /\ fill' \in Fills /\ fill'.filled = fill.filled /\ fill'.filling = fill.filling
      /\ (fill'.filling => fill'.cancelled) /\ (fill'.state /= "off" => fill'.filling)
  <2>1. CASE ~fill.filling
    BY <1>1, <1>2, <2>1 DEF IInv, ControlInv
  <2>2. CASE fill.filling
    <3> DEFINE st == IF fill.state \in {"starting", "search"} THEN fill.state ELSE "exit"
    <3>1. fill' = [fill EXCEPT !.cancelled = TRUE, !.queue = <<>>, !.state = st]
      BY <1>1, <2>2, Zenon
    <3>2. st \in {"off", "starting", "search", "fetch", "drain", "exit"} /\ <<>> \in Seq(Headers)
      OBVIOUS
    <3> HIDE DEF st
    <3> QED BY ZenonT(30), <1>2, <2>2, <3>1, <3>2 DEF Fills
  <2> QED BY <1>2, <2>1, <2>2 DEF Fills
<1>5. TypeInv'
  BY <1>1, <1>3, <1>4 DEF IInv, TypeInv, Stored
<1>6. Sound(subs, db)'
  BY <1>1 DEF IInv, Sound, Segment
<1>7. ControlInv' /\ LinkInv' /\ TaskInv'
  BY <1>1, <1>4 DEF IInv, ControlInv, LinkInv, TaskInv
<1> QED BY <1>5, <1>6, <1>7 DEF IInv

LEMMA CleanStalesInv == ASSUME IInv, cleanStales PROVE IInv'
<1>1. /\ pc = "clean" /\ NextCycle /\ cyc' = NoCycle /\ UNCHANGED <<local, current, fill, online>>
  BY DEF cleanStales
<1>2. subs \in Seq(Subchains) /\ subs /= <<>> /\ Stored(db) /\ Sound(subs, db) /\ cyc.filled \in Headers \cup {Genesis, None}
  BY <1>1 DEF IInv, TypeInv, ControlInv, Cycles
<1>3. subs' \in Seq(Subchains) /\ subs' /= <<>> /\ Stored(db') /\ Sound(subs', db')
  <2>1. CASE Stale(cyc.filled)
    <3>1. subs' = [subs EXCEPT ![1] = CleanSub(cyc.filled)] /\ db' = Deleted(subs[1].tail, StaleEnd(cyc.filled))
      BY <2>1 DEF cleanStales
    <3> QED BY ZenonT(30), <1>2, <2>1, <3>1, CleanFacts
  <2>2. CASE ~Stale(cyc.filled)
    <3>1. UNCHANGED <<subs, db>>
      BY <2>2 DEF cleanStales
    <3> QED BY <1>2, <3>1
  <2> QED BY <2>1, <2>2
<1>4. pc' \in {"dead", "begin"} /\ next' \in Headers \cup {None, Quit} /\ next' /= Quit
  BY Zenon, <1>1, HeaderFacts DEF NextCycle, IInv, TypeInv
<1>5. TypeInv'
  BY Zenon, <1>1, <1>3, <1>4, Empty DEF IInv, TypeInv, Stored
<1>6. Sound(subs, db)'
  BY <1>3 DEF Sound, Segment
<1>7. ControlInv' /\ LinkInv' /\ TaskInv'
  BY <1>1, <1>3, <1>4 DEF IInv, ControlInv, LinkInv, TaskInv
<1> QED BY <1>5, <1>6, <1>7 DEF IInv

\* The process is lost, and the progress on disk is sound.
LEMMA LostInv ==
    ASSUME IInv, Lost, subs' \in Seq(Subchains), Stored(db'), Sound(subs', db')
    PROVE  IInv'
<1>1. pc' = "wait" /\ next' = None /\ cyc' = NoCycle /\ fill' = NoFill /\ UNCHANGED <<local, current, online>>
  BY Zenon DEF Lost
<1>2. TypeInv'
  BY Zenon, <1>1, Empty DEF IInv, TypeInv, Stored
<1>3. Sound(subs, db)'
  BY Zenon DEF Sound, Segment
<1>4. ControlInv' /\ LinkInv' /\ TaskInv'
  BY <1>1, Empty DEF ControlInv, LinkInv, TaskInv
<1> QED BY <1>2, <1>3, <1>4 DEF IInv

LEMMA RestartInv == ASSUME IInv, Restart PROVE IInv'
<1>1. Lost /\ UNCHANGED <<subs, db>>
  BY DEF Restart
<1>2. subs' \in Seq(Subchains) /\ Stored(db') /\ Sound(subs', db')
  BY <1>1 DEF IInv, TypeInv
<1> QED BY <1>1, <1>2, LostInv

LEMMA FillPanicsInv == ASSUME IInv, FillPanics PROVE IInv'
<1>1. Lost /\ UNCHANGED <<subs, db>>
  BY DEF FillPanics
<1>2. subs' \in Seq(Subchains) /\ Stored(db') /\ Sound(subs', db')
  BY <1>1 DEF IInv, TypeInv
<1> QED BY <1>1, <1>2, LostInv

LEMMA CrashCleaningInv == ASSUME IInv, CrashCleaning PROVE IInv'
<1>1. Lost /\ pc = "clean" /\ Stale(cyc.filled) /\ Number(cyc.filled) <= subs[1].head
  BY DEF CrashCleaning
<1>2. PICK n \in subs[1].tail + 1 .. StaleEnd(cyc.filled) :
         /\ subs' = [subs EXCEPT ![1] = [head |-> CleanSub(cyc.filled).head, tail |-> n, next |-> Parent(db[n])]]
         /\ db' = Deleted(subs[1].tail, n - 1)
  BY Zenon DEF CrashCleaning
<1>3. subs \in Seq(Subchains) /\ subs /= <<>> /\ Stored(db) /\ Sound(subs, db) /\ cyc.filled \in Headers \cup {Genesis, None}
  BY <1>1 DEF IInv, TypeInv, ControlInv, Cycles
<1>4. subs' \in Seq(Subchains) /\ Stored(db') /\ Sound(subs', db')
  BY ZenonT(30), <1>1, <1>2, <1>3, CrashFacts
<1> QED BY <1>1, <1>4, LostInv

\* A step of the backfiller, or an import by the engine: the skeleton is left
\* alone, the local chain grows, and no download starts.
LEMMA FillKeeps ==
    ASSUME IInv, UNCHANGED <<subs, db, pc, next, cyc, online>>, local \subseteq local',
           local' \subseteq Headers \cup {Genesis}, current' \in local',
           fill' \in Fills, fill'.filled \in local' \cup {None},
           fill'.filling => fill.filling /\ fill'.cancelled = fill.cancelled,
           fill'.state /= "off" => fill'.filling
    PROVE  IInv'
<1>1. TypeInv'
  BY DEF IInv, TypeInv, Stored
<1>2. Sound(subs, db)'
  BY ZenonT(30) DEF IInv, Sound, Segment
<1>3. ControlInv'
  BY DEF IInv, ControlInv
<1>4. Linked(subs) => Linked(subs)'
  BY DEF Linked
<1>5. LinkInv'
  BY SMTT(30), Z3T(30), <1>4 DEF IInv, LinkInv
<1>6. TaskInv'
  BY Zenon DEF IInv, TaskInv, Tracked, Of
<1> QED BY Zenon, <1>1, <1>2, <1>3, <1>5, <1>6 DEF IInv

LEMMA EngineImportsInv == ASSUME IInv, NEW h \in Headers, EngineImports(h) PROVE IInv'
<1>1. local' = local \cup {h} /\ current' = h /\ UNCHANGED <<subs, db, pc, next, cyc, fill, online>>
  BY DEF EngineImports
<1>2. fill' \in Fills /\ fill'.filled \in local' \cup {None} /\ local' \subseteq Headers \cup {Genesis}
  BY <1>1 DEF IInv, TypeInv
<1>3. fill'.state /= "off" => fill'.filling
  BY <1>1 DEF IInv, ControlInv
<1> QED BY <1>1, <1>2, <1>3, FillKeeps

\* The steps that only change the state of the download.
DownloadSteps == FillBegins \/ FillSearches \/ FillFetching \/ FillFetches \/ FillFetched
LEMMA DownloadInv == ASSUME IInv, DownloadSteps PROVE IInv'
<1>1. /\ fill \in Fills /\ fill.state /= "off" /\ fill.filling /\ fill.filled \in local \cup {None}
      /\ subs /= <<>> /\ subs \in Seq(Subchains) /\ Stored(db)
      /\ current \in local /\ local \subseteq Headers \cup {Genesis}
  BY DEF IInv, TypeInv, ControlInv, DownloadSteps, FillBegins, FillSearches, FillFetching, FillFetches, FillFetched
<1>2. UNCHANGED <<subs, db, pc, next, cyc, online, local, current>>
  BY DEF DownloadSteps, FillUnchanged, FillBegins, FillSearches, FillFetching, FillFetches, FillFetched
<1> DEFINE one == subs[1]
<1>3. /\ one.tail \in 1 .. MaxNumber /\ one.head \in 1 .. MaxNumber /\ one.tail - 1 \in 0 .. MaxNumber
      /\ one.head \in Nat /\ one.head <= MaxNumber /\ MaxNumber \in Nat
  BY <1>1, SubTypes, SkeletonAssumption
<1>4. fill.lo \in Nat /\ fill.hi \in Nat /\ fill.lo \in 0 .. MaxNumber /\ fill.hi \in 0 .. MaxNumber /\ fill.hi <= MaxNumber
  BY <1>1, SkeletonAssumption DEF Fills
<1> HIDE DEF one
<1>5. /\ fill' \in Fills /\ fill'.filled = fill.filled /\ fill'.filling = fill.filling
      /\ fill'.cancelled = fill.cancelled
  <2>1. CASE FillBegins
    <3> DEFINE hi == Min({Number(current), one.head})
    <3>1. Number(current) \in Nat
      BY <1>1, HeaderFacts, SkeletonAssumption
    <3>2. hi \in 0 .. MaxNumber
      <4>1. hi = IF Number(current) <= one.head THEN Number(current) ELSE one.head
        BY <1>3, <3>1, MinTwo
      <4> QED BY <1>3, <3>1, <4>1
    <3>3. \/ fill' = [fill EXCEPT !.state = "search", !.lo = one.tail - 1, !.hi = hi]
          \/ fill' = [fill EXCEPT !.state = "exit"]
      BY <2>1, Zenon DEF FillBegins, one
    <3> HIDE DEF hi
    <3> QED BY Zenon, <1>1, <1>3, <3>2, <3>3 DEF Fills
  <2>2. CASE FillSearches
    <3> DEFINE check == (fill.lo + fill.hi) \div 2
    <3>1. check \in 0 .. MaxNumber
      <4>1. fill.lo + 1 < fill.hi
        BY <2>2 DEF FillSearches
      <4> QED BY <1>3, <1>4, <4>1
    <3>2. fill' = [fill EXCEPT !.lo = check] \/ fill' = [fill EXCEPT !.hi = check]
      BY <2>2, Zenon DEF FillSearches
    <3> HIDE DEF check
    <3> QED BY Zenon, <1>1, <3>1, <3>2 DEF Fills
  <2>3. CASE FillFetching
    BY Zenon, <1>1, <2>3 DEF FillFetching, Fills
  <2>4. CASE FillFetches
    <3> DEFINE h == db[fill.lo + 1]
               q == Append(fill.queue, h)
    <3>1. \/ h /= None /\ fill' = [fill EXCEPT !.lo = fill.lo + 1, !.tip = h, !.queue = q]
          \/ fill' = [fill EXCEPT !.state = "exit", !.queue = <<>>]
      BY <2>4, Zenon DEF FillFetches
    <3>2. fill.lo + 1 \in 1 .. MaxNumber /\ fill.lo + 1 \in 0 .. MaxNumber
      <4>1. fill.lo < one.head
        BY <2>4 DEF FillFetches, one
      <4> QED BY <1>3, <1>4, <4>1
    <3>3. h /= None => h \in Headers
      BY <1>1, <3>2 DEF Stored
    <3>4. fill.queue \in Seq(Headers) /\ <<>> \in Seq(Headers)
      BY <1>1 DEF Fills
    <3> HIDE DEF h
    <3>5. h /= None => q \in Seq(Headers)
      BY <3>3, <3>4
    <3> HIDE DEF q
    <3> QED BY ZenonT(30), <1>1, <3>1, <3>2, <3>3, <3>4, <3>5 DEF Fills
  <2>5. CASE FillFetched
    BY ZenonT(30), <1>1, <2>5 DEF FillFetched, Fills
  <2> QED BY <2>1, <2>2, <2>3, <2>4, <2>5 DEF DownloadSteps
<1> QED BY <1>1, <1>2, <1>5, FillKeeps

LEMMA FillImportsInv == ASSUME IInv, FillImports PROVE IInv'
<1>1. /\ fill \in Fills /\ fill.state /= "off" /\ fill.filling /\ fill.filled \in local \cup {None}
      /\ current \in local /\ local \subseteq Headers \cup {Genesis}
  BY DEF IInv, TypeInv, ControlInv, FillImports
<1>2. UNCHANGED <<subs, db, pc, next, cyc, online>>
  BY DEF FillImports, FillUnchanged
<1> DEFINE h == fill.queue[1]
<1>3. h \in Headers /\ Tail(fill.queue) \in Seq(Headers) /\ <<>> \in Seq(Headers)
  <2>1. fill.queue \in Seq(Headers) /\ fill.queue /= <<>>
    BY <1>1 DEF Fills, FillImports
  <2> QED BY <2>1
<1>4. CASE Parent(h) \in local
  <2>1. local' = local \cup {h} /\ current' = h /\ fill' = [fill EXCEPT !.queue = Tail(fill.queue)]
    BY <1>4, Zenon DEF FillImports
  <2> HIDE DEF h
  <2>2. /\ fill' \in Fills /\ fill'.filled = fill.filled /\ fill'.filling = fill.filling
        /\ fill'.cancelled = fill.cancelled
    BY ZenonT(30), <1>1, <1>3, <2>1 DEF Fills
  <2>3. local \subseteq local' /\ local' \subseteq Headers \cup {Genesis} /\ current' \in local'
    BY <1>1, <1>3, <2>1
  <2> QED BY <1>1, <1>2, <2>2, <2>3, FillKeeps
<1>5. CASE Parent(h) \notin local
  <2>1. UNCHANGED <<local, current>> /\ fill' = [fill EXCEPT !.state = "exit", !.queue = <<>>]
    BY <1>5, Zenon DEF FillImports
  <2>2. /\ fill' \in Fills /\ fill'.filled = fill.filled /\ fill'.filling = fill.filling
        /\ fill'.cancelled = fill.cancelled
    BY ZenonT(30), <1>1, <1>3, <2>1 DEF Fills
  <2> QED BY <1>1, <1>2, <2>1, <2>2, FillKeeps
<1> QED BY <1>4, <1>5

LEMMA FillExitsInv == ASSUME IInv, FillExits PROVE IInv'
<1>1. fill' = [NoFill EXCEPT !.filled = current] /\ UNCHANGED <<subs, db, pc, next, cyc, online, local, current>>
  BY DEF FillExits, FillUnchanged
<1>2. current \in local /\ local \subseteq Headers \cup {Genesis}
  BY DEF IInv, TypeInv
<1>3. fill' \in Fills /\ fill'.filled = current /\ ~fill'.filling /\ fill'.state = "off"
  BY ZenonT(40), <1>1, <1>2, Empty DEF Fills
<1> QED BY <1>1, <1>2, <1>3, FillKeeps

LEMMA NextInv == ASSUME IInv, [Next]_vars PROVE IInv'
<1>1. CASE UNCHANGED vars
  <2>1. TypeInv' /\ Sound(subs, db)'
    BY SMTT(30), Z3T(30), <1>1 DEF vars, IInv, TypeInv, Stored, Sound, Segment
  <2>2. ControlInv' /\ LinkInv'
    BY ZenonT(30), <1>1 DEF vars, IInv, ControlInv, LinkInv, Linked
  <2>3. TaskInv'
    BY Zenon, <1>1 DEF vars, IInv, TaskInv, Tracked, Of
  <2> QED BY ZenonT(40), <2>1, <2>2, <2>3 DEF IInv
<1>2. CASE BeginCycle \/ Suspend \/ cleanStales \/ Terminate \/ Restart \/ CrashCleaning
  BY SMTT(30), Z3T(30), <1>2, BeginCycleInv, SuspendInv, CleanStalesInv, TerminateInv, RestartInv, CrashCleaningInv
<1>3. CASE \E h \in Headers : StartHead(h) \/ ExtendHead(h) \/ ForceHead(h) \/ EngineImports(h)
  BY <1>3, StartHeadInv, ExtendHeadInv, ForceHeadInv, EngineImportsInv
<1>4. CASE \E p \in Peers : PeerLeaves(p) \/ PeerJoins(p) \/ LateReply(p)
  BY ZenonT(40), <1>4, PeerLeavesInv, PeerJoinsInv, LateReplyInv
<1>5. CASE \E r \in cyc.reqs : RequestFails(r) \/ HonestReply(r) \/ OtherReply(r)
  BY <1>5, RequestFailsInv, HonestReplyInv, OtherReplyInv
<1>6. CASE FillBegins \/ FillSearches \/ FillPanics \/ FillFetching \/ FillFetches \/ FillFetched \/ FillImports \/ FillExits
  BY <1>6, DownloadInv, FillPanicsInv, FillImportsInv, FillExitsInv DEF DownloadSteps
<1> QED BY Zenon, <1>1, <1>2, <1>3, <1>4, <1>5, <1>6 DEF Next

LEMMA Inductive == Spec => []IInv
<1>1. Init => IInv
  BY InitInv
<1>2. IInv /\ [Next]_vars => IInv'
  BY NextInv
<1> QED BY <1>1, <1>2, PTL DEF Spec

----
\* The progress the skeleton persists is well formed in every state, for any
\* number of peers, chains, headers and tasks: its subchains are disjoint, in
\* descending order, and each is a contiguous segment of stored headers linked by
\* their parents, whatever initSync trims, processResponse overwrites, trims and
\* merges, processNewHead unwinds, and cleanStales deletes before a crash.
THEOREM ProgressCorrect == Spec => []ProgressSound
<1>1. IInv => ProgressSound
  <2> SUFFICES ASSUME IInv PROVE ProgressSound
    OBVIOUS
  <2>1. ASSUME NEW n \in 1 .. MaxNumber
        PROVE  db[n] \in {None} \cup {HeaderAt(n, c) : c \in Chains}
    <3>1. CASE db[n] = None
      BY <3>1
    <3>2. CASE db[n] /= None
      <4>1. db[n] \in Headers /\ Number(db[n]) = n
        BY <3>2 DEF IInv, TypeInv, Stored
      <4>2. db[n] = HeaderAt(n, db[n][2]) /\ db[n][2] \in Chains
        BY <4>1, HeaderFacts
      <4> QED BY <4>2
    <3> QED BY <3>1, <3>2
  <2>2. cyc.idles \subseteq Peers /\ cyc.late \subseteq Peers
    BY DEF IInv, TypeInv, Cycles
  <2>3. TypeOK
    BY <2>1, <2>2 DEF IInv, TypeInv, TypeOK, Subchains
  <2>4. SubchainsSound
    <3>1. subs \in Seq(Subchains) /\ DOMAIN subs = 1 .. Len(subs)
      BY DEF IInv, TypeInv
    <3>2. ASSUME NEW i \in 1 .. Len(subs)
          PROVE  /\ subs[i].tail <= subs[i].head
                 /\ i > 1 => subs[i].head < subs[i - 1].tail
                 /\ \A n \in subs[i].tail .. subs[i].head : db[n] /= None
                 /\ \A n \in subs[i].tail .. subs[i].head :
                       Parent(db[n]) = IF n = subs[i].tail THEN subs[i].next ELSE db[n - 1]
      <4>1. Segment(subs[i], db)
        BY DEF IInv, Sound
      <4>2. i > 1 => i \in 2 .. Len(subs)
        BY <3>1
      <4>3. i > 1 => subs[i].head < subs[i - 1].tail
        BY ZenonT(40), <4>2 DEF IInv, Sound
      <4> QED BY <4>1, <4>3 DEF Segment
    <3> QED BY <3>1, <3>2, Zenon DEF SubchainsSound
  <2> QED BY <2>3, <2>4 DEF ProgressSound
<1> QED BY <1>1, Inductive, PTL

\* No download task is lost or given out twice, however peers join, leave, time
\* out and deliver junk: in a cycle that is not linked, a task has an owner exactly
\* if one request for it is in flight or its headers wait in the scratch space, and
\* every request lies in the window below the tail of the first subchain
\* (assignTasks, revertRequest, revertRequests, processResponse).
THEOREM TasksCorrect == Spec => []TasksTracked
<1>1. IInv => TasksTracked
  <2> SUFFICES ASSUME IInv, pc = "run", ~cyc.linked
               PROVE  /\ cyc.scratchHead = subs[1].tail - 1
                      /\ cyc.reqs = UNION {Of(cyc, k) : k \in TaskIds}
                      /\ \A k \in TaskIds :
                            IF cyc.owners[k] = None THEN Of(cyc, k) = {} /\ cyc.space[k] = <<>>
                            ELSE \/ Of(cyc, k) = {} /\ cyc.space[k] /= <<>>
                                 \/ /\ Of(cyc, k) = {[peer |-> cyc.owners[k], head |-> cyc.scratchHead - Offset(k)]}
                                    /\ cyc.space[k] = <<>>
    BY ZenonT(40) DEF TasksTracked, Of, Offset
  <2>1. cyc \in Cycles /\ Tracked(cyc) /\ cyc.scratchHead = subs[1].tail - 1
    BY DEF IInv, TypeInv, TaskInv
  <2>2. cyc.reqs = UNION {Of(cyc, k) : k \in TaskIds}
    <3>1. ASSUME NEW r \in cyc.reqs PROVE \E k \in TaskIds : r \in Of(cyc, k)
      BY <2>1 DEF Tracked, Of
    <3>2. \A k \in TaskIds : Of(cyc, k) \subseteq cyc.reqs
      BY SMTT(30), Z3T(30) DEF Of
    <3> QED BY SMTT(30), Z3T(30), <3>1, <3>2
  <2>3. ASSUME NEW k \in TaskIds
        PROVE  IF cyc.owners[k] = None THEN Of(cyc, k) = {} /\ cyc.space[k] = <<>>
               ELSE \/ Of(cyc, k) = {} /\ cyc.space[k] /= <<>>
                    \/ /\ Of(cyc, k) = {[peer |-> cyc.owners[k], head |-> cyc.scratchHead - Offset(k)]}
                       /\ cyc.space[k] = <<>>
    <3>1. ASSUME NEW ch \in Chains, Offset(k) < cyc.scratchHead PROVE Batch(ch, cyc.scratchHead - Offset(k)) /= <<>>
      BY <2>1, <3>1, TaskFacts, BatchFacts
    <3> QED BY ZenonT(30), <2>1, <3>1 DEF Tracked
  <2> QED BY <2>1, <2>2, <2>3
<1> QED BY <1>1, Inductive, PTL

\* A backfiller that runs and was not cancelled works on a skeleton that is one
\* subchain linked to the local chain: suspend always comes before the step that
\* unlinks it (sync, resume, suspend).
THEOREM FillsCorrect == Spec => []FillsLinked
<1>1. IInv => FillsLinked
  BY DEF IInv, LinkInv, FillsLinked
<1> QED BY <1>1, Inductive, PTL
====
