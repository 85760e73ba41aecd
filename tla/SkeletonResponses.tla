-------------------------- MODULE SkeletonResponses --------------------------
(***************************************************************************)
(* The inductive invariant of Skeleton, and the lemmas about the headers,  *)
(* the tasks and processResponse that the proof of its invariance uses.    *)
(***************************************************************************)
EXTENDS Skeleton, WellFoundedInduction, TLAPS

\* What SMT leaves open is tried with Zenon, and once more with Z3.
USE SMT, Zenon, Z3T(30)

(***************************************************************************)
(* The inductive invariant.                                                *)
(***************************************************************************)
\* What disk and memory hold.
Subchains == [head : 1 .. MaxNumber, tail : 1 .. MaxNumber, next : Headers \cup {Genesis}]
Stored(d) == /\ d \in [1 .. MaxNumber -> Headers \cup {None}]
             /\ \A n \in 1 .. MaxNumber : d[n] /= None => Number(d[n]) = n
Requests == [peer : Peers, head : 1 .. MaxNumber]
Cycles == [linked : BOOLEAN, scratchHead : 0 .. MaxNumber, owners : [TaskIds -> Peers \cup {None}],
           space : [TaskIds -> Seq(Headers)], reqs : SUBSET Requests,
           idles : SUBSET Peers, late : SUBSET Peers, filled : Headers \cup {Genesis, None}]
Fills == [filling : BOOLEAN, filled : Headers \cup {Genesis, None},
          state : {"off", "starting", "search", "fetch", "drain", "exit"}, cancelled : BOOLEAN,
          lo : 0 .. MaxNumber, hi : 0 .. MaxNumber, tip : Headers \cup {None}, queue : Seq(Headers)]

\* A subchain is a linked segment of the headers d, and a list of them descends.
Segment(s, d) ==
    /\ s.tail <= s.head
    /\ \A n \in s.tail .. s.head : d[n] /= None /\ Parent(d[n]) = IF n = s.tail THEN s.next ELSE d[n - 1]
Sound(ss, d) ==
    /\ \A i \in 1 .. Len(ss) : Segment(ss[i], d)
    /\ \A i \in 2 .. Len(ss) : ss[i].head < ss[i - 1].tail

TypeInv ==
    /\ subs \in Seq(Subchains) /\ Stored(db)
    /\ local \subseteq Headers \cup {Genesis} /\ Genesis \in local /\ current \in local
    /\ pc \in {"wait", "begin", "run", "end", "clean", "dead"}
    /\ next \in Headers \cup {None, Quit}
    /\ cyc \in Cycles
    /\ fill \in Fills /\ fill.filled \in local \cup {None}
    /\ online \subseteq Peers

\* The loop runs on a nonempty list of subchains, and so does the backfiller.
ControlInv ==
    /\ pc = "begin" => next /= Quit
    /\ pc \in {"run", "end", "clean"} \/ (pc = "begin" /\ next = None) => subs /= <<>>
    /\ fill.filling => subs /= <<>>
    /\ fill.state /= "off" => fill.filling

\* The backfiller that is not cancelled was started by the cycle that runs.
LinkInv ==
    /\ pc = "run" /\ cyc.linked => Linked(subs) /\ cyc.reqs = {}
    /\ fill.filling /\ ~fill.cancelled => Linked(subs) /\ (pc = "end" \/ (pc = "run" /\ cyc.linked))

\* The requests for task k, and what holds of every task of cycle c.
Offset(k) == k * requestHeaders
Of(c, k) == {r \in c.reqs : r.head = c.scratchHead - Offset(k)}
Tracked(c) ==
    /\ \A r \in c.reqs : \E k \in TaskIds : r.head = c.scratchHead - Offset(k)
    /\ \A k \in TaskIds :
          \/ c.owners[k] = None /\ Of(c, k) = {} /\ c.space[k] = <<>>
          \/ /\ c.owners[k] /= None /\ Offset(k) < c.scratchHead
             /\ \/ Of(c, k) = {} /\ \E ch \in Chains : c.space[k] = Batch(ch, c.scratchHead - Offset(k))
                \/ Of(c, k) = {[peer |-> c.owners[k], head |-> c.scratchHead - Offset(k)]} /\ c.space[k] = <<>>
TaskInv == pc = "run" /\ ~cyc.linked => cyc.scratchHead = subs[1].tail - 1 /\ Tracked(cyc)

IInv == TypeInv /\ Sound(subs, db) /\ ControlInv /\ LinkInv /\ TaskInv

----
(***************************************************************************)
(* Numbers and headers.                                                    *)
(***************************************************************************)
\* Every nonempty set of numbers has a least element, and Min finds it.
LEMMA LeastNat ==
    ASSUME NEW S \in SUBSET Nat, S # {}
    PROVE  \E x \in S : \A y \in S : x <= y
<1>1. PICK x \in S : \A y \in S : ~ (<<y, x>> \in OpToRel(<, Nat))
  BY Zenon, NatLessThanWellFounded, WFMin
<1>2. \A y \in S : ~ (y < x)
  BY Zenon, <1>1 DEF OpToRel
<1> QED BY <1>2

LEMMA MinNat ==
    ASSUME NEW S \in SUBSET Nat, S # {}
    PROVE  Min(S) \in S /\ \A y \in S : Min(S) <= y
BY Zenon, LeastNat DEF Min

LEMMA MinTwo ==
    ASSUME NEW a \in Int, NEW b \in Int
    PROVE  Min({a, b}) = IF a <= b THEN a ELSE b
BY DEF Min

\* Headers are pairs of a number and a chain; the parent is one lower.
LEMMA HeaderFacts ==
    /\ \A h \in Headers : /\ Number(h) \in 1 .. MaxNumber /\ h[2] \in Chains
                          /\ h = HeaderAt(Number(h), h[2])
                          /\ Parent(h) \in Headers \cup {Genesis}
                          /\ Number(Parent(h)) = Number(h) - 1
                          /\ h /= Genesis
    /\ Number(Genesis) = 0
    /\ \A n \in 1 .. MaxNumber, c \in Chains :
          /\ HeaderAt(n, c) \in Headers /\ Number(HeaderAt(n, c)) = n
          /\ Parent(HeaderAt(n, c)) = HeaderAt(n - 1, c)
    /\ \A c \in Chains : HeaderAt(0, c) = Genesis
    /\ None \notin Headers /\ Genesis /= None
    /\ Quit \notin Headers /\ Quit /= None
<1>1. \A n \in 0 .. MaxNumber, c \in Chains :
          HeaderAt(n, c)[1] = n /\ HeaderAt(n, c)[2] = IF n <= ForkAt THEN Trunk ELSE c
  BY DEF HeaderAt
<1>2. \A n \in 1 .. MaxNumber, c \in Chains : HeaderAt(n, c) \in Headers
  BY DEF Headers
<1>3. \A n \in 1 .. MaxNumber, c \in Chains : Parent(HeaderAt(n, c)) = HeaderAt(n - 1, c)
  BY SkeletonAssumption DEF HeaderAt, Parent
<1>4. \A c \in Chains : HeaderAt(0, c) = Genesis
  BY SkeletonAssumption DEF HeaderAt, Genesis
<1>5. ASSUME NEW h \in Headers
      PROVE  /\ Number(h) \in 1 .. MaxNumber /\ h[2] \in Chains
             /\ h = HeaderAt(Number(h), h[2])
             /\ Parent(h) \in Headers \cup {Genesis}
             /\ Number(Parent(h)) = Number(h) - 1
             /\ h /= Genesis /\ h /= None /\ h /= Quit
  <2>1. PICK n \in 1 .. MaxNumber, c \in Chains : h = HeaderAt(n, c)
    BY DEF Headers
  <2>2. Number(h) = n /\ h[2] \in Chains /\ h = HeaderAt(Number(h), h[2])
    BY <2>1, SkeletonAssumption DEF HeaderAt, Number
  <2>3. Parent(h) = HeaderAt(n - 1, c)
    BY <1>3, <2>1
  <2>4. Parent(h) \in Headers \cup {Genesis} /\ Number(Parent(h)) = n - 1
    BY <1>2, <1>4, <2>3, SkeletonAssumption DEF HeaderAt, Number
  <2>5. h /= Genesis /\ h /= None /\ h /= Quit
    BY <2>1 DEF HeaderAt, Genesis, None, Quit
  <2> QED BY <2>1, <2>2, <2>4, <2>5
<1>6. Number(Genesis) = 0 /\ Genesis /= None /\ Quit /= None
  BY DEF Genesis, None, Number, Quit
<1>7. \A n \in 1 .. MaxNumber, c \in Chains : Number(HeaderAt(n, c)) = n
  BY DEF HeaderAt, Number
<1> QED BY <1>2, <1>3, <1>4, <1>5, <1>6, <1>7

\* The offsets of the tasks.
LEMMA OffsetFacts ==
    /\ Offset(0) = 0
    /\ \A k \in Nat : Offset(k) \in Nat /\ Offset(k + 1) = Offset(k) + requestHeaders
    /\ \A j, k \in Nat : Offset(j) = Offset(k) => j = k
    /\ \A k \in Nat : Offset(k) \div requestHeaders = k
BY SkeletonAssumption DEF Offset

\* What a peer on chain c delivers for the headers from head down.
LEMMA BatchFacts ==
    ASSUME NEW c \in Chains, NEW head \in 1 .. MaxNumber
    PROVE  /\ Batch(c, head) \in Seq(Headers) /\ Batch(c, head) /= <<>>
           /\ Len(Batch(c, head)) = IF requestHeaders <= head THEN requestHeaders ELSE head
           /\ \A i \in 1 .. Len(Batch(c, head)) :
                 /\ Batch(c, head)[i] = HeaderAt(head - i + 1, c) /\ Batch(c, head)[i] \in Headers
                 /\ Number(Batch(c, head)[i]) = head - i + 1
                 /\ Parent(Batch(c, head)[i]) = HeaderAt(head - i, c)
<1> DEFINE m == Min({requestHeaders, head})
<1>1. m = (IF requestHeaders <= head THEN requestHeaders ELSE head) /\ m \in 1 .. head
  BY SkeletonAssumption, MinTwo
<1> HIDE DEF m
<1>2. Batch(c, head) = [i \in 1 .. m |-> HeaderAt(head - i + 1, c)]
  BY DEF Batch, m
<1>3. \A i \in 1 .. m : /\ head - i + 1 \in 1 .. MaxNumber /\ (head - i + 1) - 1 = head - i
  BY <1>1, SkeletonAssumption
<1>4. \A i \in 1 .. m : /\ HeaderAt(head - i + 1, c) \in Headers /\ Number(HeaderAt(head - i + 1, c)) = head - i + 1
                        /\ Parent(HeaderAt(head - i + 1, c)) = HeaderAt(head - i, c)
  BY <1>3, HeaderFacts
<1>5. Batch(c, head) \in Seq(Headers) /\ Len(Batch(c, head)) = m
  BY <1>1, <1>2, <1>4
<1>6. Batch(c, head) /= <<>>
  BY <1>1, <1>5, SkeletonAssumption
<1>7. \A i \in 1 .. m : Batch(c, head)[i] = HeaderAt(head - i + 1, c)
  BY <1>2
<1> QED BY <1>1, <1>4, <1>5, <1>6, <1>7

----
(***************************************************************************)
(* Lists of subchains.                                                     *)
(***************************************************************************)
LEMMA SubTypes ==
    /\ \A s \in Subchains : /\ s.head \in Nat /\ s.tail \in Nat /\ s.head \in 1 .. MaxNumber /\ s.tail \in 1 .. MaxNumber
                            /\ s.next \in Headers \cup {Genesis}
    /\ \A ss \in Seq(Subchains) : \A i \in 1 .. Len(ss) : ss[i] \in Subchains
<1>1. \A s \in Subchains : /\ s.head \in Nat /\ s.tail \in Nat /\ s.head \in 1 .. MaxNumber /\ s.tail \in 1 .. MaxNumber
                          /\ s.next \in Headers \cup {Genesis}
  BY SkeletonAssumption DEF Subchains
<1>2. ASSUME NEW ss \in Seq(Subchains), NEW i \in 1 .. Len(ss) PROVE ss[i] \in Subchains
  OBVIOUS
<1> QED BY <1>1, <1>2

\* Every older subchain lies below every newer one.
LEMMA Descends ==
    ASSUME NEW d, NEW ss \in Seq(Subchains), Sound(ss, d),
           NEW i \in 1 .. Len(ss), NEW j \in 1 .. Len(ss), i < j
    PROVE  ss[j].head < ss[i].tail
<1> DEFINE Bad == {k \in i + 1 .. Len(ss) : ~(ss[k].head < ss[i].tail)}
<1>0. \A k \in 1 .. Len(ss) : ss[k].head \in Nat /\ ss[k].tail \in Nat /\ ss[k].tail <= ss[k].head
  BY SubTypes DEF Sound, Segment
<1>1. ASSUME Bad # {} PROVE FALSE
  <2>1. Bad \in SUBSET Nat
    OBVIOUS
  <2>2. PICK k \in Bad : \A l \in Bad : k <= l
    BY Zenon, <1>1, <2>1, LeastNat
  <2>3. k \in 2 .. Len(ss) /\ k - 1 \in i .. Len(ss) /\ ss[k].head < ss[k - 1].tail
    BY <2>2 DEF Sound
  <2>4. k - 1 # i
    BY <2>2, <2>3
  <2>5. k - 1 \in i + 1 .. Len(ss) /\ k - 1 \notin Bad
    BY <2>2, <2>3, <2>4
  <2>6. ss[k - 1].head < ss[i].tail
    BY <2>5
  <2> HIDE DEF Bad
  <2>7. ss[k].head < ss[i].tail
    <3> DEFINE a == ss[k].head
               b == ss[k - 1].tail
               c == ss[k - 1].head
               e == ss[i].tail
    <3>1. a \in Nat /\ b \in Nat /\ c \in Nat /\ e \in Nat /\ b <= c
      BY <1>0, <2>3
    <3>2. a < b /\ c < e
      BY <2>3, <2>6
    <3> HIDE DEF a, b, c, e
    <3>3. a < e
      BY <3>1, <3>2
    <3> QED BY <3>3 DEF a, e
  <2> QED BY <2>2, <2>7 DEF Bad
<1> QED BY <1>1

\* A segment only depends on the headers it spans.
LEMMA SameSegment ==
    ASSUME NEW d, NEW e, NEW s \in Subchains, Segment(s, d), \A n \in s.tail .. s.head : e[n] = d[n]
    PROVE  Segment(s, e)
<1>1. s.tail \in Int /\ s.head \in Int
  BY SkeletonAssumption DEF Subchains
<1>2. \A n \in s.tail .. s.head : n /= s.tail => n - 1 \in s.tail .. s.head
  BY <1>1
<1> QED BY <1>1, <1>2 DEF Segment

----
(***************************************************************************)
(* processResponse.                                                        *)
(***************************************************************************)
\* The state of its loop, and what holds while it looks for overlaps: the first
\* subchain lies in the headers to be written, the older ones on disk.
Works == [subs : Seq(Subchains), db : [1 .. MaxNumber -> Headers \cup {None}], drop : SUBSET (Peers \cup {None}),
          linked : BOOLEAN, merged : BOOLEAN, cyc : Cycles]
Fetching(w) ==
    /\ ~w.linked => \A n \in 1 .. w.subs[1].tail - 1 : w.db[n] = db[n]
    /\ ~w.linked /\ ~w.merged => w.cyc.scratchHead = w.subs[1].tail - 1 /\ Tracked(w.cyc)
Overlapping(w) ==
    /\ w \in Works /\ w.subs /= <<>> /\ Stored(w.db) /\ ~w.linked /\ ~w.cyc.linked
    /\ Segment(w.subs[1], w.db)
    /\ \A i \in 2 .. Len(w.subs) : Segment(w.subs[i], db)
    /\ \A i \in 3 .. Len(w.subs) : w.subs[i].head < w.subs[i - 1].tail
    /\ Fetching(w)
NoOverlap(w) == Len(w.subs) = 1 \/ w.subs[2].head < w.subs[1].tail
\* What holds between two chunks.
Consuming(w) ==
    /\ w \in Works /\ w.subs /= <<>> /\ Stored(w.db) /\ Sound(w.subs, w.db) /\ ~w.cyc.linked
    /\ Fetching(w)

LEMMA WithoutSecond ==
    ASSUME NEW ss \in Seq(Subchains), Len(ss) >= 2, NEW s \in Subchains
    PROVE  LET tt == <<s>> \o SubSeq(ss, 3, Len(ss))
           IN  /\ tt \in Seq(Subchains) /\ tt /= <<>> /\ Len(tt) = Len(ss) - 1 /\ tt[1] = s
               /\ \A i \in 2 .. Len(tt) : tt[i] = ss[i + 1]
<1> DEFINE rest == SubSeq(ss, 3, Len(ss))
           tt == <<s>> \o rest
<1>1. rest \in Seq(Subchains) /\ Len(rest) = Len(ss) - 2 /\ \A i \in 1 .. Len(rest) : rest[i] = ss[i + 2]
  <2>1. Len(ss) \in Nat /\ \A i \in 3 .. Len(ss) : ss[i] \in Subchains
    OBVIOUS
  <2>2. rest \in Seq(Subchains) /\ Len(rest) = Len(ss) - 2
    <3>1. PICK f \in 1 .. Len(ss) + 1 : f = 3
      BY <2>1
    <3>2. SubSeq(ss, f, Len(ss)) \in Seq(Subchains) /\ Len(SubSeq(ss, f, Len(ss))) = Len(ss) - f + 1
      OBVIOUS
    <3> QED BY <2>1, <3>1, <3>2
  <2>3. \A i \in 1 .. Len(rest) : rest[i] = ss[3 + i - 1]
    BY <2>1, <2>2
  <2>4. \A i \in 1 .. Len(rest) : 3 + i - 1 = i + 2
    BY <2>1, <2>2
  <2> QED BY <2>2, <2>3, <2>4
<1> HIDE DEF rest
<1>2. tt \in Seq(Subchains) /\ Len(tt) = Len(rest) + 1 /\ tt[1] = s /\ \A i \in 2 .. Len(tt) : tt[i] = rest[i - 1]
  BY <1>1
<1> HIDE DEF tt
<1>3. \A i \in 2 .. Len(tt) : i - 1 \in 1 .. Len(rest) /\ (i - 1) + 2 = i + 1
  BY <1>1, <1>2
<1>4. Len(tt) = Len(ss) - 1 /\ tt /= <<>> /\ \A i \in 2 .. Len(tt) : tt[i] = ss[i + 1]
  BY <1>1, <1>2, <1>3
<1> QED BY <1>2, <1>4 DEF tt, rest

\* The second subchain goes, and s takes the place of the first.
LEMMA DropSecond ==
    ASSUME NEW w, Overlapping(w), Len(w.subs) >= 2, NEW s \in Subchains, Segment(s, w.db), s.tail <= w.subs[1].tail,
           NEW x \in Works, x.subs = <<s>> \o SubSeq(w.subs, 3, Len(w.subs)), x.db = w.db,
           x.linked = w.linked, x.cyc = w.cyc, x.merged \/ (~w.merged /\ s.tail = w.subs[1].tail)
    PROVE  Overlapping(x) /\ Len(x.subs) = Len(w.subs) - 1
<1>1. w.subs \in Seq(Subchains) /\ Len(w.subs) \in Nat
  BY DEF Overlapping, Works
<1>2. /\ x.subs \in Seq(Subchains) /\ x.subs /= <<>> /\ Len(x.subs) = Len(w.subs) - 1 /\ x.subs[1] = s
      /\ \A i \in 2 .. Len(x.subs) : x.subs[i] = w.subs[i + 1]
  BY <1>1, WithoutSecond
<1>3. \A i \in 2 .. Len(x.subs) : i + 1 \in 3 .. Len(w.subs) /\ i + 1 \in 2 .. Len(w.subs)
  BY <1>1, <1>2
<1>4. \A i \in 2 .. Len(x.subs) : Segment(x.subs[i], db)
  BY <1>2, <1>3 DEF Overlapping
<1>5. ASSUME NEW i \in 3 .. Len(x.subs)
      PROVE  x.subs[i].head < x.subs[i - 1].tail
  <2>1. PICK m \in 3 .. Len(w.subs) : x.subs[i] = w.subs[m] /\ x.subs[i - 1] = w.subs[m - 1]
    <3>0. i \in 2 .. Len(x.subs) /\ i - 1 \in 2 .. Len(x.subs) /\ i + 1 \in 3 .. Len(w.subs)
      BY <1>1, <1>2
    <3>1. i + 1 \in 3 .. Len(w.subs) /\ x.subs[i] = w.subs[i + 1] /\ x.subs[i - 1] = w.subs[(i - 1) + 1]
      BY Zenon, <1>2, <3>0
    <3>2. (i - 1) + 1 = (i + 1) - 1
      OBVIOUS
    <3> QED BY Zenon, <3>1, <3>2
  <2> QED BY <2>1 DEF Overlapping
<1>6. Fetching(x)
  <2>1. ~w.linked /\ \A n \in 1 .. w.subs[1].tail - 1 : w.db[n] = db[n]
    BY DEF Overlapping, Fetching
  <2>2. s.tail \in Nat /\ w.subs[1].tail \in Nat
    BY <1>1, SubTypes
  <2>3. \A n \in 1 .. s.tail - 1 : x.db[n] = db[n]
    BY <2>1, <2>2
  <2>4. ~x.merged => x.cyc.scratchHead = s.tail - 1 /\ Tracked(x.cyc)
    BY <2>1 DEF Overlapping, Fetching
  <2> QED BY <1>2, <2>3, <2>4 DEF Fetching
<1>7. Stored(x.db) /\ ~x.linked /\ ~x.cyc.linked /\ Segment(x.subs[1], x.db)
  BY <1>2 DEF Overlapping
<1> QED BY <1>2, <1>4, <1>5, <1>6, <1>7 DEF Overlapping

\* One step of the loop over the overlaps.
LEMMA OverlapStep ==
    ASSUME NEW w, Overlapping(w)
    PROVE  /\ Overlapping(Overlap(w))
           /\ NoOverlap(w) => NoOverlap(Overlap(w))
           /\ ~NoOverlap(w) => NoOverlap(Overlap(w)) \/ Len(Overlap(w).subs) = Len(w.subs) - 1
<1> DEFINE ss == w.subs
           one == ss[1]
           old == ss[2]
           tail == one.tail
           merge == [one EXCEPT !.tail = old.tail, !.next = old.next]
           rest == SubSeq(ss, 3, Len(ss))
           a == [w EXCEPT !.subs = <<one>> \o rest]
           b == [w EXCEPT !.merged = TRUE, !.subs = <<merge>> \o rest]
           c == [w EXCEPT !.subs[2].head = tail - 1]
<1>1. /\ w \in Works /\ ss \in Seq(Subchains) /\ Len(ss) \in Nat /\ Len(ss) >= 1 /\ one \in Subchains
      /\ Segment(one, w.db) /\ tail \in 1 .. MaxNumber /\ tail \in Nat /\ one.head \in 1 .. MaxNumber
  BY SubTypes DEF Overlapping, Works
<1>2. NoOverlap(w) <=> (Len(ss) = 1 \/ old.head < tail)
  BY DEF NoOverlap
<1>3. CASE NoOverlap(w)
  <2>1. Overlap(w) = w
    BY <1>2, <1>3 DEF Overlap
  <2> QED BY <1>3, <2>1
<1>4. CASE ~NoOverlap(w)
  <2>1. Len(ss) >= 2 /\ old.head >= tail
    <3>0. Len(ss) \in Nat /\ Len(ss) >= 1 /\ Len(ss) /= 1
      BY <1>1, <1>2, <1>4
    <3> HIDE DEF ss
    <3>1. Len(ss) >= 2
      BY <3>0
    <3> USE DEF ss
    <3>2. old.head \in Nat
      BY <1>1, <3>1, SubTypes
    <3> QED BY <1>1, <1>2, <1>4, <3>1, <3>2
  <2>2. /\ old \in Subchains /\ Segment(old, db) /\ old.tail \in 1 .. MaxNumber /\ old.tail \in Nat
        /\ old.head \in Nat /\ old.head \in 1 .. MaxNumber /\ old.next \in Headers \cup {Genesis}
    BY <1>1, <2>1, SubTypes DEF Overlapping
  <2>3. Overlap(w) = IF old.tail >= tail THEN a ELSE IF db[tail - 1] = one.next THEN b ELSE c
    BY <1>2, <1>4 DEF Overlap
  <2>4. \A n \in 1 .. tail - 1 : w.db[n] = db[n]
    BY DEF Overlapping, Fetching
  <2>5. CASE old.tail >= tail
    <3>1. <<one>> \o rest \in Seq(Subchains)
      BY <1>1, <2>1, WithoutSecond
    <3> HIDE DEF rest
    <3>2. a \in Works /\ a.subs = <<one>> \o rest /\ a.db = w.db /\ a.linked = w.linked /\ a.cyc = w.cyc /\ a.merged = w.merged
      BY Zenon, <1>1, <3>1 DEF Works
    <3> HIDE DEF a
    <3>3. a.merged \/ (~w.merged /\ one.tail = w.subs[1].tail)
      BY <1>1, <3>2 DEF Works
    <3>4. one.tail <= w.subs[1].tail
      BY <1>1
    <3>5. Overlapping(a) /\ Len(a.subs) = Len(w.subs) - 1
      <4>1. Overlapping(w) /\ Len(w.subs) >= 2 /\ one \in Subchains /\ Segment(one, w.db)
        BY <1>1, <2>1
      <4>2. a.subs = <<one>> \o SubSeq(w.subs, 3, Len(w.subs))
        BY Zenon, <3>2 DEF rest
      <4> HIDE DEF one
      <4> QED BY Zenon, <3>2, <3>3, <3>4, <4>1, <4>2, DropSecond
    <3> QED BY <1>4, <2>3, <2>5, <3>5
  <2>6. CASE ~(old.tail >= tail) /\ db[tail - 1] = one.next
    <3>1. merge \in Subchains /\ merge.tail = old.tail /\ merge.head = one.head /\ merge.next = old.next
      BY Zenon, <1>1, <2>2 DEF Subchains
    <3>2. <<merge>> \o rest \in Seq(Subchains)
      BY <1>1, <2>1, <3>1, WithoutSecond
    <3>3. Segment(merge, w.db)
      <4>1. \A n \in old.tail .. tail - 1 : n \in old.tail .. old.head /\ n \in 1 .. tail - 1
                                           /\ (n /= old.tail => n - 1 \in old.tail .. tail - 1)
        BY SMTT(30), Z3T(30), <1>1, <2>1, <2>2, <2>6
      <4>2. \A n \in old.tail .. tail - 1 : /\ w.db[n] = db[n] /\ db[n] /= None
                                           /\ Parent(db[n]) = IF n = old.tail THEN old.next ELSE db[n - 1]
        BY <2>2, <2>4, <4>1 DEF Segment
      <4>3. \A n \in old.tail .. tail - 1 : n /= old.tail => w.db[n - 1] = db[n - 1]
        BY <4>1, <4>2
      <4>4. w.db[tail - 1] = one.next
        BY <1>1, <2>2, <2>4, <2>6
      <4>5. \A n \in tail .. one.head : /\ w.db[n] /= None
                                        /\ Parent(w.db[n]) = IF n = tail THEN w.db[tail - 1] ELSE w.db[n - 1]
        BY <1>1, <4>4 DEF Segment
      <4>6. ASSUME NEW n \in tail .. one.head
            PROVE  n /= old.tail /\ Parent(w.db[n]) = w.db[n - 1]
        <5>1. n /= old.tail
          BY <1>1, <2>2, <2>6
        <5> QED BY <4>5, <5>1
      <4>7. \A n \in old.tail .. one.head : n \in old.tail .. tail - 1 \/ n \in tail .. one.head
        BY <1>1, <2>2
      <4>8. tail <= one.head /\ old.tail <= one.head
        BY <1>1, <2>2, <2>6, SkeletonAssumption DEF Segment
      <4> HIDE DEF merge
      <4> QED BY <3>1, <4>2, <4>3, <4>5, <4>6, <4>7, <4>8 DEF Segment
    <3> HIDE DEF rest, merge
    <3>4. b \in Works /\ b.subs = <<merge>> \o rest /\ b.db = w.db /\ b.linked = w.linked /\ b.cyc = w.cyc /\ b.merged
      BY ZenonT(30), <1>1, <3>2 DEF Works
    <3> HIDE DEF b
    <3>5. merge.tail <= w.subs[1].tail
      BY <1>1, <2>2, <2>6, <3>1
    <3>6. Overlapping(b) /\ Len(b.subs) = Len(w.subs) - 1
      BY <2>1, <3>1, <3>3, <3>4, <3>5, DropSecond DEF rest
    <3> QED BY <1>4, <2>3, <2>6, <3>6
  <2>7. CASE ~(old.tail >= tail) /\ db[tail - 1] /= one.next
    <3> DEFINE s == [old EXCEPT !.head = tail - 1]
               tt == [ss EXCEPT ![2] = s]
    <3>1. tail - 1 \in 1 .. MaxNumber /\ old.tail <= tail - 1 /\ tail - 1 <= old.head
      BY SMTT(30), Z3T(30), <1>1, <2>1, <2>2, <2>7, SkeletonAssumption
    <3>2. s \in Subchains /\ s.tail = old.tail /\ s.next = old.next /\ s.head = tail - 1
      BY <2>2, <3>1 DEF Subchains
    <3> HIDE DEF s
    <3>3. /\ tt \in Seq(Subchains) /\ Len(tt) = Len(ss) /\ tt /= <<>> /\ tt[1] = one /\ tt[2] = s
          /\ \A i \in 3 .. Len(ss) : tt[i] = ss[i]
      BY <1>1, <2>1, <3>2
    <3>4. c = [w EXCEPT !.subs = tt]
      BY <1>1, <2>1, Zenon DEF s, Works
    <3> HIDE DEF tt
    <3>5. c \in Works /\ c.subs = tt /\ c.db = w.db /\ c.linked = w.linked /\ c.cyc = w.cyc /\ c.merged = w.merged
      BY ZenonT(30), <1>1, <3>3, <3>4 DEF Works
    <3> HIDE DEF c
    <3>6. Segment(s, db)
      BY <1>1, <2>2, <3>1, <3>2 DEF Segment
    <3>7. \A i \in 2 .. Len(tt) : Segment(tt[i], db)
      <4>1. \A i \in 2 .. Len(tt) : i = 2 \/ i \in 3 .. Len(ss)
        BY <1>1, <3>3
      <4>2. \A i \in 3 .. Len(ss) : Segment(ss[i], db)
        BY DEF Overlapping
      <4> QED BY <3>3, <3>6, <4>1, <4>2
    <3>8. ASSUME NEW i \in 3 .. Len(tt)
          PROVE  tt[i].head < tt[i - 1].tail
      <4>1. ss[i].head < ss[i - 1].tail /\ tt[i] = ss[i]
        BY <3>3 DEF Overlapping
      <4>2. CASE i = 3
        BY <3>2, <3>3, <4>1, <4>2
      <4>3. CASE i /= 3
        BY <1>1, <3>3, <4>1, <4>3
      <4> QED BY <4>2, <4>3
    <3>9. Fetching(c)
      BY <3>3, <3>5 DEF Overlapping, Fetching
    <3>10. Overlapping(c)
      BY <3>3, <3>5, <3>7, <3>8, <3>9 DEF Overlapping
    <3>11. NoOverlap(c)
      BY <1>1, <3>2, <3>3, <3>5 DEF NoOverlap
    <3> QED BY <1>4, <2>3, <2>7, <3>10, <3>11
  <2> QED BY <2>5, <2>6, <2>7
<1> QED BY <1>3, <1>4

\* The loops are functions of the number of steps; such a function exists.
IsRun(g, n, A, F) == g[0] = A /\ \A k \in 1 .. n : g[k] = UNION {F[x] : x \in g[k - 1]}
LEMMA RunExists ==
    ASSUME NEW S, NEW F \in [S -> SUBSET S], NEW A \in SUBSET S, NEW n \in Nat
    PROVE  \E g \in [0 .. n -> SUBSET S] : IsRun(g, n, A, F)
<1> DEFINE Bad == {m \in Nat : ~ \E g \in [0 .. m -> SUBSET S] : IsRun(g, m, A, F)}
<1>1. ASSUME Bad # {} PROVE FALSE
  <2>1. PICK m \in Bad : \A l \in Bad : m <= l
    BY Zenon, <1>1, LeastNat
  <2>2. m /= 0
    <3> DEFINE g == [k \in 0 .. 0 |-> A]
    <3>1. g \in [0 .. 0 -> SUBSET S] /\ IsRun(g, 0, A, F)
      BY DEF IsRun
    <3> QED BY ZenonT(30), <2>1, <3>1
  <2>3. m - 1 \in Nat /\ m - 1 \notin Bad
    BY <2>1, <2>2
  <2>4. PICK g \in [0 .. m - 1 -> SUBSET S] : IsRun(g, m - 1, A, F)
    BY <2>3
  <2> DEFINE last == UNION {F[x] : x \in g[m - 1]}
             h == [k \in 0 .. m |-> IF k = m THEN last ELSE g[k]]
  <2>5. g[m - 1] \in SUBSET S
    BY <2>3
  <2>6. last \in SUBSET S
    BY <2>5
  <2> HIDE DEF last
  <2>7. h \in [0 .. m -> SUBSET S] /\ h[m] = last /\ \A k \in 0 .. m - 1 : h[k] = g[k]
    <3>1. \A k \in 0 .. m : k /= m => k \in 0 .. m - 1
      BY <2>3
    <3>2. \A k \in 0 .. m - 1 : k \in 0 .. m /\ k /= m
      BY <2>3
    <3>3. m \in 0 .. m
      BY <2>1
    <3> QED BY <2>6, <3>1, <3>2, <3>3
  <2> HIDE DEF h
  <2>8. IsRun(h, m, A, F)
    <3>1. h[0] = A
      BY <2>3, <2>4, <2>7 DEF IsRun
    <3>2. ASSUME NEW k \in 1 .. m
          PROVE  h[k] = UNION {F[x] : x \in h[k - 1]}
      <4>1. k - 1 \in 0 .. m - 1 /\ h[k - 1] = g[k - 1]
        BY <2>3, <2>7
      <4>2. CASE k = m
        BY <2>7, <4>1, <4>2 DEF last
      <4>3. CASE k /= m
        <5>1. k \in 1 .. m - 1 /\ k \in 0 .. m - 1
          BY <2>3, <4>3
        <5>2. h[k] = g[k] /\ g[k] = UNION {F[x] : x \in g[k - 1]}
          BY <2>4, <2>7, <5>1 DEF IsRun
        <5> QED BY <4>1, <5>2
      <4> QED BY <4>2, <4>3
    <3> QED BY <3>1, <3>2 DEF IsRun
  <2> QED BY <2>1, <2>7, <2>8
<1>2. n \notin Bad
  BY <1>1
<1> QED BY <1>2

\* The overlaps that are left when the loop over them ends: none.
LEMMA OverlappedFacts ==
    ASSUME NEW w, Overlapping(w)
    PROVE  \A x \in Overlapped(w) : Overlapping(x) /\ NoOverlap(x)
<1> DEFINE n == Len(w.subs)
           S == {x \in Works : Overlapping(x)}
           F == [x \in S |-> {Overlap(x)}]
           G(g) == [k \in 0 .. n |-> IF k = 0 THEN {w} ELSE {Overlap(x) : x \in g[k - 1]}]
           run == CHOOSE g : g = G(g)
<1>1. n \in Nat /\ w \in S
  BY DEF Overlapping, Works
<1>2. \A x \in S : Overlap(x) \in S
  BY OverlapStep DEF Overlapping
<1>3. Overlapped(w) = run[n]
  BY DEF Overlapped
<1> HIDE DEF n, S
<1>4. F \in [S -> SUBSET S] /\ {w} \in SUBSET S /\ \A x \in S : F[x] = {Overlap(x)}
  BY <1>1, <1>2
<1> HIDE DEF F
<1>5. PICK g \in [0 .. n -> SUBSET S] : IsRun(g, n, {w}, F)
  BY <1>1, <1>4, RunExists
<1>6. g = G(g)
  <2>1. ASSUME NEW k \in 0 .. n
        PROVE  g[k] = IF k = 0 THEN {w} ELSE {Overlap(x) : x \in g[k - 1]}
    <3>1. CASE k = 0
      BY <1>5, <3>1 DEF IsRun
    <3>2. CASE k /= 0
      <4>1. k \in 1 .. n /\ k - 1 \in 0 .. n
        BY <1>1, <3>2
      <4>2. g[k] = UNION {F[x] : x \in g[k - 1]} /\ g[k - 1] \in SUBSET S
        BY <1>5, <4>1 DEF IsRun
      <4>3. UNION {F[x] : x \in g[k - 1]} = {Overlap(x) : x \in g[k - 1]}
        BY <1>4, <4>2
      <4> QED BY Zenon, <3>2, <4>2, <4>3
    <3> QED BY <3>1, <3>2
  <2>2. DOMAIN g = 0 .. n
    OBVIOUS
  <2> QED BY <2>1, <2>2
<1>7. run = G(run)
  BY Zenon, <1>6
<1> HIDE DEF run
<1>8. run[0] = {w} /\ \A k \in 1 .. n : run[k] = {Overlap(x) : x \in run[k - 1]}
  <2>1. \A k \in 0 .. n : run[k] = IF k = 0 THEN {w} ELSE {Overlap(x) : x \in run[k - 1]}
    BY Zenon, <1>7
  <2>2. 0 \in 0 .. n /\ \A k \in 1 .. n : k \in 0 .. n /\ k /= 0
    BY <1>1
  <2> QED BY Zenon, <2>1, <2>2
<1> HIDE DEF G
<1> DEFINE Ok(k) == \A x \in run[k] : Overlapping(x) /\ (NoOverlap(x) \/ Len(x.subs) + k <= n)
           Bad == {k \in 0 .. n : ~Ok(k)}
<1>9. ASSUME Bad # {} PROVE FALSE
  <2>1. Bad \in SUBSET Nat
    BY <1>1
  <2>2. PICK k \in Bad : \A l \in Bad : k <= l
    BY ZenonT(30), <1>9, <2>1, LeastNat
  <2>3. Ok(0)
    <3>1. Overlapping(w) /\ Len(w.subs) + 0 <= n
      BY <1>1 DEF n
    <3> QED BY <1>8, <3>1
  <2>4. k /= 0 /\ k \in 1 .. n /\ k - 1 \in 0 .. n /\ k - 1 \notin Bad
    BY <1>1, <2>2, <2>3
  <2>5. Ok(k - 1)
    BY <2>4
  <2>6. ASSUME NEW x \in run[k]
        PROVE  Overlapping(x) /\ (NoOverlap(x) \/ Len(x.subs) + k <= n)
    <3>1. PICK y \in run[k - 1] : x = Overlap(y)
      BY <1>8, <2>4
    <3>2. Overlapping(y) /\ (NoOverlap(y) \/ Len(y.subs) + (k - 1) <= n)
      BY <2>5
    <3>3. /\ Overlapping(x) /\ (NoOverlap(y) => NoOverlap(x))
          /\ ~NoOverlap(y) => NoOverlap(x) \/ Len(x.subs) = Len(y.subs) - 1
      BY <3>1, <3>2, OverlapStep
    <3>4. Len(y.subs) \in Nat
      BY <3>2 DEF Overlapping, Works
    <3> QED BY <1>1, <2>4, <3>2, <3>3, <3>4
  <2> QED BY <2>2, <2>6
<1>10. Ok(n)
  BY <1>1, <1>9
<1>11. ASSUME NEW x \in run[n]
       PROVE  Overlapping(x) /\ NoOverlap(x)
  <2>1. Overlapping(x) /\ (NoOverlap(x) \/ Len(x.subs) + n <= n)
    BY <1>10
  <2>2. Len(x.subs) \in Nat /\ Len(x.subs) >= 1
    BY <2>1 DEF Overlapping, Works
  <2> QED BY <1>1, <2>1, <2>2
<1> QED BY <1>3, <1>11

\* Without overlaps the progress is sound again.
LEMMA Separated ==
    ASSUME NEW w, Overlapping(w), NoOverlap(w)
    PROVE  Consuming(w)
<1> DEFINE ss == w.subs
<1>1. ss \in Seq(Subchains) /\ Len(ss) \in Nat /\ Len(ss) >= 1 /\ \A i \in 1 .. Len(ss) : ss[i] \in Subchains
  BY SubTypes DEF Overlapping, Works
<1>2. \A n \in 1 .. ss[1].tail - 1 : w.db[n] = db[n]
  BY DEF Overlapping, Fetching
<1>3. ASSUME NEW i \in 2 .. Len(ss)
      PROVE  ss[i].head < ss[i - 1].tail
  <2>1. CASE i = 2
    BY <1>1, <2>1 DEF NoOverlap
  <2>2. CASE i /= 2
    BY <1>1, <2>2 DEF Overlapping
  <2> QED BY <2>1, <2>2
<1>4. \A i \in 2 .. Len(ss) : ss[i].head < ss[1].tail
  <2> DEFINE Bad == {i \in 2 .. Len(ss) : ~(ss[i].head < ss[1].tail)}
  <2>1. ASSUME Bad # {} PROVE FALSE
    <3>1. Bad \in SUBSET Nat
      BY <1>1
    <3>2. PICK i \in Bad : \A j \in Bad : i <= j
      BY ZenonT(30), <2>1, <3>1, LeastNat
    <3>3. ss[i].head < ss[i - 1].tail
      BY <1>3, <3>2
    <3>4. i /= 2
      BY <3>2, <3>3
    <3>5. i - 1 \in 2 .. Len(ss) /\ i - 1 \notin Bad /\ i - 1 \in 1 .. Len(ss) /\ i \in 1 .. Len(ss)
      BY <1>1, <3>2, <3>4
    <3>6. ss[i - 1].head < ss[1].tail /\ Segment(ss[i - 1], db)
      BY <3>5 DEF Overlapping
    <3>7. /\ ss[1].tail \in Nat /\ ss[i].head \in Nat /\ ss[i - 1].tail \in Nat /\ ss[i - 1].head \in Nat
          /\ ss[i - 1].tail <= ss[i - 1].head
      BY <1>1, <3>5, <3>6, SubTypes DEF Segment
    <3> QED BY <3>2, <3>3, <3>6, <3>7
  <2> QED BY <2>1
<1>5. ASSUME NEW i \in 1 .. Len(ss)
      PROVE  Segment(ss[i], w.db)
  <2>1. CASE i = 1
    BY <2>1 DEF Overlapping
  <2>2. CASE i /= 1
    <3>1. i \in 2 .. Len(ss) /\ Segment(ss[i], db) /\ ss[i] \in Subchains
      BY <1>1, <2>2 DEF Overlapping
    <3>2. ss[i].head \in Nat /\ ss[i].tail \in Nat /\ ss[i].tail >= 1 /\ ss[1].tail \in Nat
      BY <1>1, <3>1, SubTypes
    <3>3. \A n \in ss[i].tail .. ss[i].head : n \in 1 .. ss[1].tail - 1
      BY <1>4, <3>1, <3>2
    <3>4. \A n \in ss[i].tail .. ss[i].head : w.db[n] = db[n]
      BY <1>2, <3>3
    <3> QED BY <3>1, <3>4, SameSegment
  <2> QED BY <2>1, <2>2
<1>6. Sound(ss, w.db)
  BY <1>3, <1>5 DEF Sound
<1> QED BY <1>6 DEF Overlapping, Consuming

\* The window moves by one task.
LEMMA TrackedShift ==
    ASSUME NEW c \in Cycles, Tracked(c), Of(c, 0) = {},
           NEW d \in Cycles, d.reqs = c.reqs, d.scratchHead = c.scratchHead - requestHeaders,
           d.space = [k \in TaskIds |-> IF k = Tasks - 1 THEN <<>> ELSE c.space[k + 1]],
           d.owners = [k \in TaskIds |-> IF k = Tasks - 1 THEN None ELSE c.owners[k + 1]]
    PROVE  Tracked(d)
<1> DEFINE sh == c.scratchHead
<1>1. sh \in Nat /\ requestHeaders \in Nat /\ Tasks \in Nat /\ 0 \in TaskIds
  BY SkeletonAssumption DEF Cycles, TaskIds
<1>2. \A k \in TaskIds : /\ k \in Nat /\ k + 1 \in Nat /\ Offset(k) \in Nat /\ Offset(k + 1) \in Nat
                        /\ Offset(k + 1) = Offset(k) + requestHeaders
  <2>1. \A k \in TaskIds : k \in Nat /\ k + 1 \in Nat
    BY <1>1 DEF TaskIds
  <2> QED BY <2>1, OffsetFacts
<1>3. \A k \in TaskIds : k /= Tasks - 1 => k + 1 \in TaskIds
  BY <1>1 DEF TaskIds
<1>4. ASSUME NEW k \in TaskIds
      PROVE  d.scratchHead - Offset(k) = sh - Offset(k + 1)
  <2> DEFINE a == Offset(k)
             b == Offset(k + 1)
             e == d.scratchHead
  <2>1. a \in Nat /\ b \in Nat /\ b = a + requestHeaders
    BY Zenon, <1>2
  <2>2. e = sh - requestHeaders
    OBVIOUS
  <2> HIDE DEF a, b, e, sh
  <2>3. e - a = sh - b
    BY <1>1, <2>1, <2>2
  <2> QED BY <2>3 DEF a, b, e
<1>5. \A r \in c.reqs : r.head \in Int
  BY SkeletonAssumption DEF Cycles, Requests
<1>6. \A k \in TaskIds : Of(d, k) = Of(c, k + 1)
  BY <1>4 DEF Of
<1>7. ASSUME NEW r \in d.reqs
      PROVE  \E k \in TaskIds : r.head = d.scratchHead - Offset(k)
  <2>1. PICK k \in TaskIds : r.head = sh - Offset(k)
    BY DEF Tracked
  <2>2. k /= 0
    BY <2>1 DEF Of
  <2>3. k - 1 \in TaskIds /\ (k - 1) + 1 = k
    BY <1>1, <2>2 DEF TaskIds
  <2>4. d.scratchHead - Offset(k - 1) = sh - Offset(k)
    BY <1>4, <2>3
  <2> QED BY <2>1, <2>3, <2>4
<1>8. ASSUME NEW k \in TaskIds
      PROVE  \/ d.owners[k] = None /\ Of(d, k) = {} /\ d.space[k] = <<>>
             \/ /\ d.owners[k] /= None /\ Offset(k) < d.scratchHead
                /\ \/ Of(d, k) = {} /\ \E ch \in Chains : d.space[k] = Batch(ch, d.scratchHead - Offset(k))
                   \/ Of(d, k) = {[peer |-> d.owners[k], head |-> d.scratchHead - Offset(k)]} /\ d.space[k] = <<>>
  <2>1. CASE k = Tasks - 1
    <3>1. d.owners[k] = None /\ d.space[k] = <<>>
      BY <2>1
    <3>2. ASSUME NEW r \in Of(c, k + 1) PROVE FALSE
      <4>1. r \in c.reqs /\ r.head = sh - Offset(k + 1)
        BY DEF Of
      <4>2. PICK j \in TaskIds : r.head = sh - Offset(j)
        BY <4>1 DEF Tracked
      <4>3. Offset(j) = Offset(k + 1)
        <5> DEFINE a == Offset(j)
                   b == Offset(k + 1)
        <5>1. a \in Nat /\ b \in Nat /\ sh - a = sh - b
          BY <1>2, <4>1, <4>2
        <5> HIDE DEF a, b, sh
        <5>2. a = b
          BY <1>1, <5>1
        <5> QED BY <5>2 DEF a, b
      <4>4. j = k + 1
        BY <1>2, <4>3, OffsetFacts
      <4> QED BY <1>1, <2>1, <4>4 DEF TaskIds
    <3>3. Of(d, k) = {}
      BY Zenon, <1>6, <3>2
    <3> QED BY <3>1, <3>3
  <2>2. CASE k /= Tasks - 1
    <3>1. k + 1 \in TaskIds /\ d.owners[k] = c.owners[k + 1] /\ d.space[k] = c.space[k + 1]
      BY <1>3, <2>2
    <3>2. Of(d, k) = Of(c, k + 1) /\ d.scratchHead - Offset(k) = sh - Offset(k + 1)
      BY <1>4, <1>6
    <3>3. Offset(k + 1) < sh <=> Offset(k) < d.scratchHead
      <4> DEFINE a == Offset(k)
                 b == Offset(k + 1)
                 e == d.scratchHead
      <4>1. a \in Nat /\ b \in Nat /\ b = a + requestHeaders
        BY Zenon, <1>2
      <4>2. e = sh - requestHeaders
        OBVIOUS
      <4> HIDE DEF a, b, e, sh
      <4>3. b < sh <=> a < e
        BY <1>1, <4>1, <4>2
      <4> QED BY <4>3 DEF a, b, e
    <3>4. \/ c.owners[k + 1] = None /\ Of(c, k + 1) = {} /\ c.space[k + 1] = <<>>
          \/ /\ c.owners[k + 1] /= None /\ Offset(k + 1) < sh
             /\ \/ Of(c, k + 1) = {} /\ \E ch \in Chains : c.space[k + 1] = Batch(ch, sh - Offset(k + 1))
                \/ /\ Of(c, k + 1) = {[peer |-> c.owners[k + 1], head |-> sh - Offset(k + 1)]}
                   /\ c.space[k + 1] = <<>>
      BY <3>1 DEF Tracked
    <3> QED BY <3>1, <3>2, <3>3, <3>4
  <2> QED BY <2>1, <2>2
<1> QED BY <1>7, <1>8 DEF Tracked

\* The first used headers of a chunk continue the first subchain, and are put
\* below it.
Continues(w, ch, head, used) ==
    /\ ch \in Chains /\ head \in 1 .. MaxNumber /\ used \in 1 .. Len(Batch(ch, head))
    /\ w.subs[1].tail = head + 1 /\ w.subs[1].next = Batch(ch, head)[1]
ExtendedDown(p, w, ch, head, used) ==
    /\ p \in Works /\ p.subs /= <<>> /\ Stored(p.db) /\ Len(p.subs) = Len(w.subs)
    /\ p.drop = w.drop /\ p.linked = w.linked /\ p.merged = w.merged /\ p.cyc = w.cyc
    /\ p.subs[1].tail = w.subs[1].tail - used /\ p.subs[1].next = Parent(Batch(ch, head)[used])
    /\ Segment(p.subs[1], p.db)
    /\ \A i \in 2 .. Len(p.subs) : p.subs[i] = w.subs[i]
    /\ \A n \in 1 .. p.subs[1].tail - 1 : p.db[n] = db[n]
LEMMA PushedFacts ==
    ASSUME NEW w, Consuming(w), ~w.linked, NEW ch, NEW head, NEW used, Continues(w, ch, head, used)
    PROVE  ExtendedDown(Pushed(w, Batch(ch, head), used), w, ch, head, used)
<1> DEFINE chunk == Batch(ch, head)
           one == w.subs[1]
           tail == one.tail - used
           s == [one EXCEPT !.tail = tail, !.next = Parent(chunk[used])]
           e == [n \in 1 .. MaxNumber |-> IF n \in tail .. tail + used - 1 THEN chunk[tail + used - n] ELSE w.db[n]]
           tt == [w.subs EXCEPT ![1] = s]
           p == Pushed(w, chunk, used)
<1> HIDE DEF chunk, one, tail, s, e, tt, p
<1>0. /\ head \in Nat /\ 1 <= head /\ head <= MaxNumber /\ MaxNumber \in Nat /\ one.tail = head + 1
      /\ ch \in Chains /\ head \in 1 .. MaxNumber /\ used \in 1 .. Len(chunk) /\ one.next = chunk[1]
  BY SkeletonAssumption DEF one, chunk, Continues
<1>1. /\ w \in Works /\ w.subs \in Seq(Subchains) /\ w.subs /= <<>> /\ 1 \in 1 .. Len(w.subs) /\ one \in Subchains
      /\ Segment(one, w.db) /\ Stored(w.db) /\ DOMAIN w.db = 1 .. MaxNumber
  BY SMTT(30), Z3T(30), SubTypes DEF Consuming, Works, Sound, Stored, one
<1>2. /\ one.tail \in Nat /\ one.tail \in 1 .. MaxNumber /\ one.head \in Nat /\ one.head \in 1 .. MaxNumber
      /\ one.tail <= one.head /\ one.tail = head + 1
  BY <1>0, <1>1, SubTypes DEF Segment
<1>3. /\ Len(chunk) <= head /\ Len(chunk) \in Nat
      /\ \A i \in 1 .. Len(chunk) : /\ chunk[i] \in Headers /\ Number(chunk[i]) = head - i + 1
                                    /\ Parent(chunk[i]) = HeaderAt(head - i, ch)
                                    /\ chunk[i] = HeaderAt(head - i + 1, ch)
  <2>1. Len(chunk) = IF requestHeaders <= head THEN requestHeaders ELSE head
    BY <1>0, BatchFacts DEF chunk
  <2>2. requestHeaders \in Nat
    BY SkeletonAssumption
  <2>3. Len(chunk) <= head /\ Len(chunk) \in Nat
    BY SMTT(30), Z3T(30), <1>0, <2>1, <2>2
  <2> QED BY <1>0, <2>3, BatchFacts DEF chunk
<1>4. used \in Nat /\ used >= 1 /\ tail \in Nat /\ tail >= 1 /\ tail \in 1 .. MaxNumber /\ tail + used - 1 = head
  <2>1. used \in Nat /\ used >= 1 /\ used <= Len(chunk)
    BY SMTT(30), Z3T(30), <1>0, <1>3
  <2> QED BY SMTT(30), Z3T(30), <1>0, <1>2, <1>3, <2>1 DEF tail
<1>5. Parent(chunk[used]) \in Headers \cup {Genesis}
  <2>1. used \in 1 .. Len(chunk)
    BY <1>0
  <2> QED BY <1>3, <2>1, HeaderFacts
<1>6. s \in Subchains /\ s.tail = tail /\ s.head = one.head /\ s.next = Parent(chunk[used])
  BY ZenonT(30), <1>1, <1>4, <1>5 DEF Subchains, s
<1>7. \A n \in tail .. head : /\ tail + used - n \in 1 .. Len(chunk) /\ head - (tail + used - n) + 1 = n
                              /\ head - (tail + used - n) = n - 1
                              /\ n \in 1 .. MaxNumber
  <2>1. used <= Len(chunk)
    BY <1>0, <1>3
  <2> QED BY <1>0, <1>2, <1>3, <1>4, <2>1
<1>8. p = [w EXCEPT !.db = e, !.subs = tt]
  <2>1. p = [w EXCEPT !.db = [n \in DOMAIN w.db |-> IF n \in tail .. tail + used - 1 THEN chunk[tail + used - n] ELSE w.db[n]],
                      !.subs[1].tail = tail, !.subs[1].next = Parent(chunk[used])]
    BY Zenon DEF Pushed, p, tail, one
  <2>2. [n \in DOMAIN w.db |-> IF n \in tail .. tail + used - 1 THEN chunk[tail + used - n] ELSE w.db[n]] = e
    BY <1>1, Zenon DEF e
  <2>3. [w EXCEPT !.db = e, !.subs[1].tail = tail, !.subs[1].next = Parent(chunk[used])] = [w EXCEPT !.db = e, !.subs = tt]
    <3>1. /\ w.subs \in Seq(Subchains) /\ DOMAIN w.subs = 1 .. Len(w.subs)
          /\ w = [subs |-> w.subs, db |-> w.db, drop |-> w.drop, linked |-> w.linked, merged |-> w.merged, cyc |-> w.cyc]
      BY <1>1 DEF Works
    <3>2. one = [head |-> one.head, tail |-> one.tail, next |-> one.next]
      BY <1>1 DEF Subchains
    <3> QED BY <1>1, <3>1, <3>2, Zenon DEF tt, s, one
  <2> QED BY ZenonT(30), <2>1, <2>2, <2>3
<1>9. e \in [1 .. MaxNumber -> Headers \cup {None}] /\ Stored(e)
  <2>1. ASSUME NEW n \in 1 .. MaxNumber
        PROVE  e[n] \in Headers \cup {None} /\ (e[n] /= None => Number(e[n]) = n)
    <3>1. CASE n \in tail .. head
      <4>1. e[n] = chunk[tail + used - n]
        BY <1>4, <3>1 DEF e
      <4> QED BY <1>3, <1>7, <3>1, <4>1
    <3>2. CASE n \notin tail .. head
      <4>1. e[n] = w.db[n]
        BY <1>4, <3>2 DEF e
      <4> QED BY ZenonT(30), <1>1, <4>1 DEF Stored
    <3> QED BY <3>1, <3>2
  <2>2. e = [n \in 1 .. MaxNumber |-> e[n]]
    BY DEF e
  <2>3. e \in [1 .. MaxNumber -> Headers \cup {None}]
    BY <2>1, <2>2
  <2> QED BY <2>1, <2>3 DEF Stored
<1>10. \A n \in tail .. head : e[n] = HeaderAt(n, ch) /\ e[n] \in Headers
                              /\ Parent(e[n]) = HeaderAt(n - 1, ch)
  <2>1. \A n \in tail .. head : e[n] = chunk[tail + used - n]
    BY <1>4, <1>7 DEF e
  <2> QED BY <1>3, <1>7, <2>1
<1>11. \A n \in 1 .. MaxNumber : n \notin tail .. head => e[n] = w.db[n]
  BY <1>4 DEF e
<1>12. Segment(s, e)
  <2>0. tail \in tail .. head /\ s.tail .. s.head = tail .. one.head
    BY <1>0, <1>2, <1>4, <1>6
  <2>1. Parent(e[tail]) = s.next
    <3>1. tail \in tail .. head
      BY <1>0, <1>2, <1>4
    <3>3. Parent(chunk[used]) = HeaderAt(head - used, ch) /\ head - used = tail - 1
      <4>1. used \in 1 .. Len(chunk)
        BY <1>0
      <4> QED BY SMTT(30), Z3T(30), <1>0, <1>2, <1>3, <1>4, <4>1
    <3> QED BY <1>6, <1>10, <3>1, <3>3
  <2>2. ASSUME NEW n \in tail + 1 .. head
        PROVE  e[n] /= None /\ Parent(e[n]) = e[n - 1]
    <3>1. n \in tail .. head /\ n - 1 \in tail .. head
      BY <1>0, <1>2, <1>4
    <3> QED BY <1>10, <3>1, HeaderFacts
  <2>3. Parent(e[one.tail]) = e[one.tail - 1] /\ e[one.tail] /= None
    <3>1. one.tail \notin tail .. head /\ head \in tail .. head /\ one.tail - 1 = head /\ one.tail \in one.tail .. one.head
      BY <1>0, <1>2, <1>4
    <3>2. e[one.tail] = w.db[one.tail] /\ w.db[one.tail] /= None /\ Parent(w.db[one.tail]) = one.next
      BY <1>1, <1>2, <1>11, <3>1 DEF Segment
    <3>3. one.next = HeaderAt(head, ch)
      <4>1. 1 \in 1 .. Len(chunk) /\ head - 1 + 1 = head
        <5>1. used <= Len(chunk)
          BY <1>0, <1>3
        <5> QED BY <1>0, <1>3, <1>4, <5>1
      <4>2. chunk[1] = HeaderAt(head, ch)
        BY <1>3, <4>1
      <4> QED BY <1>0, <4>2
    <3>4. e[head] = HeaderAt(head, ch)
      BY <1>10, <3>1
    <3> QED BY <3>1, <3>2, <3>3, <3>4
  <2>4. ASSUME NEW n \in one.tail + 1 .. one.head
        PROVE  e[n] /= None /\ Parent(e[n]) = e[n - 1]
    <3>1. /\ n \in 1 .. MaxNumber /\ n - 1 \in 1 .. MaxNumber /\ n \notin tail .. head /\ n - 1 \notin tail .. head
          /\ n \in one.tail .. one.head /\ n /= one.tail
      BY SMTT(30), Z3T(30), <1>0, <1>2, <1>4
    <3> QED BY <1>1, <1>11, <3>1 DEF Segment
  <2>5. ASSUME NEW n \in tail .. one.head
        PROVE  e[n] /= None /\ Parent(e[n]) = IF n = tail THEN s.next ELSE e[n - 1]
    <3>1. n = tail \/ n \in tail + 1 .. head \/ n = one.tail \/ n \in one.tail + 1 .. one.head
      <4>1. n \in Int /\ tail <= n /\ n <= one.head
        BY <1>2, <1>4
      <4>2. n <= head \/ n >= one.tail
        BY <1>0, <4>1
      <4> QED BY <1>0, <1>2, <1>4, <4>1, <4>2
    <3>2. n /= tail => Parent(e[n]) = e[n - 1] /\ e[n] /= None
      BY <2>2, <2>3, <2>4, <3>1
    <3> QED BY SMTT(30), Z3T(30), <1>6, <1>10, <2>0, <2>1, <3>2, HeaderFacts
  <2>6. s.tail <= s.head
    BY <1>0, <1>2, <1>4, <1>6
  <2> QED BY <1>6, <2>0, <2>5, <2>6 DEF Segment
<1>13. tt \in Seq(Subchains) /\ tt /= <<>> /\ Len(tt) = Len(w.subs) /\ tt[1] = s /\ \A i \in 2 .. Len(tt) : tt[i] = w.subs[i]
  BY <1>1, <1>6 DEF tt
<1>14. /\ p \in Works /\ p.subs = tt /\ p.db = e
       /\ p.drop = w.drop /\ p.linked = w.linked /\ p.merged = w.merged /\ p.cyc = w.cyc
  BY ZenonT(30), <1>1, <1>8, <1>9, <1>13 DEF Works
<1>15. ASSUME NEW n \in 1 .. tail - 1
       PROVE  e[n] = db[n]
  <2>1. n \in 1 .. MaxNumber /\ n \notin tail .. head /\ n \in 1 .. one.tail - 1
    BY <1>0, <1>2, <1>4
  <2>2. w.db[n] = db[n]
    BY ZenonT(40), <2>1 DEF Consuming, Fetching, one
  <2> QED BY <1>11, <2>1, <2>2
<1>16. /\ p \in Works /\ p.subs /= <<>> /\ Stored(p.db) /\ Len(p.subs) = Len(w.subs)
       /\ p.drop = w.drop /\ p.linked = w.linked /\ p.merged = w.merged /\ p.cyc = w.cyc
       /\ p.subs[1].tail = tail /\ p.subs[1].next = Parent(chunk[used])
       /\ Segment(p.subs[1], p.db)
       /\ \A i \in 2 .. Len(p.subs) : p.subs[i] = w.subs[i]
       /\ \A n \in 1 .. p.subs[1].tail - 1 : p.db[n] = db[n]
  BY Zenon, <1>6, <1>9, <1>12, <1>13, <1>14, <1>15
<1> QED BY Zenon, <1>16 DEF ExtendedDown, p, tail, one, chunk

\* A chunk that waits at the front of the scratch space is a batch of the
\* headers below the first subchain.
Front(w) == w.cyc.space[0]
LEMMA FrontFacts ==
    ASSUME NEW w, Consuming(w), ~w.linked, ~w.merged, Front(w) /= <<>>
    PROVE  /\ w.cyc \in Cycles /\ Tracked(w.cyc) /\ Of(w.cyc, 0) = {} /\ 0 \in TaskIds
           /\ w.cyc.owners[0] \in Peers
           /\ w.cyc.scratchHead \in 1 .. MaxNumber /\ w.subs[1].tail = w.cyc.scratchHead + 1
           /\ \E ch \in Chains : Front(w) = Batch(ch, w.cyc.scratchHead)
<1> DEFINE c == w.cyc
           sh == c.scratchHead
<1>1. c \in Cycles /\ Tracked(c) /\ sh = w.subs[1].tail - 1
  BY DEF Consuming, Fetching, Works
<1>2. 0 \in TaskIds
  BY SkeletonAssumption DEF TaskIds
<1>3. sh \in 0 .. MaxNumber /\ sh \in Int /\ MaxNumber \in Nat
  BY <1>1, SkeletonAssumption DEF Cycles
<1>4. sh - Offset(0) = sh /\ (Offset(0) < sh <=> 0 < sh)
  <2>1. Offset(0) = 0
    BY OffsetFacts
  <2> HIDE DEF sh
  <2> QED BY <1>3, <2>1
<1>5. c.owners[0] /= None /\ 0 < sh /\ Of(c, 0) = {} /\ \E ch \in Chains : c.space[0] = Batch(ch, sh)
  BY <1>1, <1>2, <1>4, Zenon DEF Tracked, Front
<1>6. c.owners[0] \in Peers
  BY <1>1, <1>2, <1>5 DEF Cycles
<1>7. w.subs[1].tail \in Nat
  BY SubTypes DEF Consuming, Works
<1> QED BY <1>1, <1>2, <1>3, <1>5, <1>6, <1>7 DEF Front

\* Junk is discarded and its task is free again.
LEMMA JunkStep ==
    ASSUME NEW w, Consuming(w), ~w.linked, ~w.merged, Front(w) /= <<>>
    PROVE  Consuming([w EXCEPT !.cyc.space[0] = <<>>, !.cyc.owners[0] = None, !.drop = {w.cyc.owners[0]}])
<1> DEFINE c == w.cyc
           sp == [c.space EXCEPT ![0] = <<>>]
           ow == [c.owners EXCEPT ![0] = None]
           d == [c EXCEPT !.space = sp, !.owners = ow]
           x == [w EXCEPT !.cyc = d, !.drop = {c.owners[0]}]
<1>1. w \in Works /\ c \in Cycles /\ Tracked(c) /\ Of(c, 0) = {} /\ 0 \in TaskIds /\ c.owners[0] \in Peers
  BY ZenonT(30), FrontFacts DEF Consuming
<1>2. x = [w EXCEPT !.cyc.space[0] = <<>>, !.cyc.owners[0] = None, !.drop = {w.cyc.owners[0]}]
  <2>1. /\ w = [subs |-> w.subs, db |-> w.db, drop |-> w.drop, linked |-> w.linked, merged |-> w.merged, cyc |-> c]
        /\ c = [linked |-> c.linked, scratchHead |-> c.scratchHead, owners |-> c.owners, space |-> c.space,
                reqs |-> c.reqs, idles |-> c.idles, late |-> c.late, filled |-> c.filled]
    BY Zenon, <1>1 DEF Works, Cycles
  <2> QED BY <2>1, ZenonT(40)
<1>3. /\ sp \in [TaskIds -> Seq(Headers)] /\ sp[0] = <<>> /\ \A k \in TaskIds : k /= 0 => sp[k] = c.space[k]
      /\ ow \in [TaskIds -> Peers \cup {None}] /\ ow[0] = None /\ \A k \in TaskIds : k /= 0 => ow[k] = c.owners[k]
  BY <1>1 DEF Cycles
<1> HIDE DEF sp, ow
<1>4. /\ d \in Cycles /\ d.space = sp /\ d.owners = ow /\ d.scratchHead = c.scratchHead /\ d.reqs = c.reqs
      /\ d.linked = c.linked
  BY ZenonT(30), <1>1, <1>3 DEF Cycles
<1> HIDE DEF d
<1>5. \A k : Of(d, k) = Of(c, k)
  BY <1>4 DEF Of
<1>6. Tracked(d)
  <2>1. ASSUME NEW k \in TaskIds
        PROVE  \/ d.owners[k] = None /\ Of(d, k) = {} /\ d.space[k] = <<>>
               \/ /\ d.owners[k] /= None /\ Offset(k) < d.scratchHead
                  /\ \/ Of(d, k) = {} /\ \E ch \in Chains : d.space[k] = Batch(ch, d.scratchHead - Offset(k))
                     \/ Of(d, k) = {[peer |-> d.owners[k], head |-> d.scratchHead - Offset(k)]} /\ d.space[k] = <<>>
    <3>1. CASE k = 0
      BY <1>1, <1>3, <1>4, <1>5, <3>1
    <3>2. CASE k /= 0
      <4>1. d.owners[k] = c.owners[k] /\ d.space[k] = c.space[k] /\ d.scratchHead = c.scratchHead /\ Of(d, k) = Of(c, k)
        BY SMTT(30), Z3T(30), <1>3, <1>4, <1>5, <3>2
      <4> QED BY <1>1, <4>1, Zenon DEF Tracked
    <3> QED BY <3>1, <3>2
  <2>2. \A r \in d.reqs : \E k \in TaskIds : r.head = d.scratchHead - Offset(k)
    BY <1>1, <1>4 DEF Tracked
  <2> QED BY ZenonT(40), <2>1, <2>2 DEF Tracked
<1>7. /\ x \in Works /\ x.subs = w.subs /\ x.db = w.db /\ x.linked = w.linked /\ x.merged = w.merged /\ x.cyc = d
  BY ZenonT(30), <1>1, <1>4 DEF Works
<1> HIDE DEF x
<1>8. Consuming(x)
  BY <1>4, <1>6, <1>7 DEF Consuming, Fetching
<1> QED BY <1>2, <1>8

\* The chunk joins the local chain: one subchain is left.
LEMMA JoinStep ==
    ASSUME NEW w, Consuming(w), ~w.linked, ~w.merged, NEW ch, NEW head, NEW used, Continues(w, ch, head, used)
    PROVE  Consuming([Swapped(Pushed(w, Batch(ch, head), used)) EXCEPT !.linked = TRUE])
<1> DEFINE p == Pushed(w, Batch(ch, head), used)
           clean == Len(p.subs) = 2 /\ p.subs[2].head = p.subs[2].tail /\ p.subs[2].head < p.subs[1].tail
           e == IF clean THEN [p.db EXCEPT ![p.subs[2].head] = None] ELSE p.db
           q == [Swapped(p) EXCEPT !.linked = TRUE]
<1>0. ExtendedDown(p, w, ch, head, used)
  BY PushedFacts
<1> HIDE DEF p
<1>1. p \in Works /\ p.subs /= <<>> /\ Stored(p.db) /\ p.cyc = w.cyc /\ Segment(p.subs[1], p.db)
  BY Zenon, <1>0 DEF ExtendedDown
<1>2. Swapped(p) = [p EXCEPT !.subs = <<p.subs[1]>>, !.db = e]
  BY Zenon DEF Swapped
<1>3. p.subs \in Seq(Subchains) /\ p.subs[1] \in Subchains /\ Len(p.subs) \in Nat
  BY SMTT(30), Z3T(30), <1>1 DEF Works
<1>4. Stored(e) /\ Segment(p.subs[1], e)
  <2>1. CASE clean
    <3> DEFINE m == p.subs[2].head
    <3>1. p.subs[2] \in Subchains
      BY <1>3, <2>1
    <3>2. m \in 1 .. MaxNumber /\ m \in Nat /\ p.subs[1].tail \in Nat /\ p.subs[1].head \in Nat /\ m < p.subs[1].tail
      BY <1>3, <2>1, <3>1, SubTypes
    <3>3. e = [p.db EXCEPT ![m] = None]
      BY <2>1
    <3> HIDE DEF m, e
    <3>4. /\ p.db \in [1 .. MaxNumber -> Headers \cup {None}]
          /\ \A n \in 1 .. MaxNumber : p.db[n] /= None => Number(p.db[n]) = n
      BY <1>1 DEF Stored
    <3>5. /\ e \in [1 .. MaxNumber -> Headers \cup {None}] /\ e[m] = None
          /\ \A n \in 1 .. MaxNumber : n /= m => e[n] = p.db[n]
      BY ZenonT(30), <3>2, <3>3, <3>4
    <3>6. Stored(e)
      BY <3>4, <3>5 DEF Stored
    <3>7. \A n \in p.subs[1].tail .. p.subs[1].head : n \in 1 .. MaxNumber /\ n /= m
      <4>1. p.subs[1].tail \in 1 .. MaxNumber /\ p.subs[1].head \in 1 .. MaxNumber /\ MaxNumber \in Nat
        BY <1>3, SubTypes, SkeletonAssumption
      <4> QED BY <3>2, <4>1
    <3>8. \A n \in p.subs[1].tail .. p.subs[1].head : e[n] = p.db[n]
      BY <3>5, <3>7
    <3>9. Segment(p.subs[1], e)
      BY Zenon, <1>1, <1>3, <3>8, SameSegment
    <3> QED BY Zenon, <3>6, <3>9
  <2>2. CASE ~clean
    BY <1>1, <2>2
  <2> QED BY ZenonT(30), <2>1, <2>2
<1> HIDE DEF e
<1>5. e \in [1 .. MaxNumber -> Headers \cup {None}]
  BY <1>4 DEF Stored
<1>6. <<p.subs[1]>> \in Seq(Subchains)
  BY <1>3
<1>7. q \in Works /\ q.subs = <<p.subs[1]>> /\ q.db = e /\ q.linked /\ q.cyc = p.cyc
  <2>1. q = [p EXCEPT !.subs = <<p.subs[1]>>, !.db = e, !.linked = TRUE]
    BY <1>1, <1>2 DEF Works
  <2> HIDE DEF q
  <2> QED BY ZenonT(30), <1>1, <1>5, <1>6, <2>1 DEF Works
<1> HIDE DEF q
<1>8. Sound(q.subs, q.db)
  BY <1>4, <1>7 DEF Sound
<1>9. q.subs /= <<>> /\ ~q.cyc.linked /\ Stored(q.db)
  BY SMTT(30), Z3T(30), <1>1, <1>4, <1>7 DEF Consuming
<1>10. Consuming(q)
  BY <1>7, <1>8, <1>9 DEF Consuming, Fetching
<1> QED BY <1>10 DEF q, p

\* The whole chunk continues the first subchain, and the window moves on.
LEMMA ShiftStep ==
    ASSUME NEW w, Consuming(w), ~w.linked, ~w.merged, Front(w) /= <<>>, Genesis \in local,
           NEW ch, Continues(w, ch, w.cyc.scratchHead, Len(Front(w))), Front(w) = Batch(ch, w.cyc.scratchHead),
           Joins(Front(w)) = {}
    PROVE  Overlapping(Shifted(Pushed(w, Front(w), Len(Front(w))), Len(Front(w))))
<1> DEFINE c == w.cyc
           head == c.scratchHead
           used == Len(Front(w))
           p == Pushed(w, Front(w), used)
           sp == [k \in TaskIds |-> IF k = Tasks - 1 THEN <<>> ELSE c.space[k + 1]]
           ow == [k \in TaskIds |-> IF k = Tasks - 1 THEN None ELSE c.owners[k + 1]]
           d == [c EXCEPT !.space = sp, !.owners = ow, !.scratchHead = head - used]
           x == Shifted(p, used)
<1> HIDE DEF c, head, used, p, sp, ow, d, x
<1>1. c \in Cycles /\ Tracked(c) /\ Of(c, 0) = {} /\ head \in 1 .. MaxNumber /\ w.subs[1].tail = head + 1
  BY ZenonT(30), FrontFacts DEF c, head
<1>2. ch \in Chains /\ Front(w) = Batch(ch, head) /\ used \in 1 .. Len(Front(w))
  BY DEF Continues, used, head, c
<1>3. head \in Nat /\ head <= MaxNumber /\ MaxNumber \in Nat /\ requestHeaders \in Nat
  BY <1>1, SkeletonAssumption
<1>4. used = requestHeaders /\ requestHeaders < head
  <2>1. used = (IF requestHeaders <= head THEN requestHeaders ELSE head) /\ used \in DOMAIN Front(w)
    BY SMTT(30), Z3T(30), <1>1, <1>2, BatchFacts DEF used
  <2>2. Parent(Front(w)[used]) = HeaderAt(head - used, ch)
    BY <1>1, <1>2, BatchFacts
  <2>3. Parent(Front(w)[used]) \notin local
    BY ZenonT(40), <2>1 DEF Joins
  <2>4. head - used /= 0
    BY SMTT(30), Z3T(30), <1>2, <2>2, <2>3, HeaderFacts
  <2> QED BY SMTT(30), Z3T(30), <1>3, <2>1, <2>4
<1>5. /\ p \in Works /\ p.subs /= <<>> /\ Stored(p.db) /\ Len(p.subs) = Len(w.subs)
      /\ p.drop = w.drop /\ p.linked = w.linked /\ p.merged = w.merged /\ p.cyc = c
      /\ p.subs[1].tail = w.subs[1].tail - used /\ Segment(p.subs[1], p.db)
      /\ \A i \in 2 .. Len(p.subs) : p.subs[i] = w.subs[i]
      /\ \A n \in 1 .. p.subs[1].tail - 1 : p.db[n] = db[n]
  <2>1. ExtendedDown(p, w, ch, head, used)
    BY PushedFacts DEF p, used, head, c
  <2> QED BY Zenon, <2>1 DEF ExtendedDown, c
<1>6. \A k \in TaskIds : k /= Tasks - 1 => k + 1 \in TaskIds
  BY SkeletonAssumption DEF TaskIds
<1>7. sp \in [TaskIds -> Seq(Headers)] /\ ow \in [TaskIds -> Peers \cup {None}]
  <2>1. \A k \in TaskIds : k /= Tasks - 1 => c.space[k + 1] \in Seq(Headers) /\ c.owners[k + 1] \in Peers \cup {None}
    BY <1>1, <1>6 DEF Cycles
  <2>2. \A k \in TaskIds : /\ (IF k = Tasks - 1 THEN <<>> ELSE c.space[k + 1]) \in Seq(Headers)
                           /\ (IF k = Tasks - 1 THEN None ELSE c.owners[k + 1]) \in Peers \cup {None}
    BY <2>1
  <2> QED BY <2>2 DEF sp, ow
<1>8. head - used \in 0 .. MaxNumber
  BY <1>3, <1>4
<1>9. /\ d \in Cycles /\ d.space = sp /\ d.owners = ow /\ d.scratchHead = head - used /\ d.reqs = c.reqs
      /\ d.linked = c.linked
  BY ZenonT(30), <1>1, <1>7, <1>8 DEF Cycles, d
<1>10. Tracked(d)
  BY <1>1, <1>4, <1>9, TrackedShift DEF sp, ow, head
<1>11. x = [p EXCEPT !.cyc = d]
  <2>1. x = [p EXCEPT !.cyc.space = sp, !.cyc.owners = ow, !.cyc.scratchHead = head - used]
    BY <1>5, Zenon DEF Shifted, x, sp, ow, head
  <2>2. /\ p = [subs |-> p.subs, db |-> p.db, drop |-> p.drop, linked |-> p.linked, merged |-> p.merged, cyc |-> p.cyc]
        /\ c = [linked |-> c.linked, scratchHead |-> c.scratchHead, owners |-> c.owners, space |-> c.space,
                reqs |-> c.reqs, idles |-> c.idles, late |-> c.late, filled |-> c.filled]
    BY Zenon, <1>1, <1>5 DEF Works, Cycles
  <2> QED BY <1>5, <2>1, <2>2, Zenon DEF d
<1>12. /\ x \in Works /\ x.subs = p.subs /\ x.db = p.db /\ x.linked = p.linked /\ x.merged = p.merged /\ x.cyc = d
  BY ZenonT(30), <1>5, <1>9, <1>11 DEF Works
<1>13. p.subs[1].tail - 1 = d.scratchHead
  BY <1>1, <1>3, <1>4, <1>5, <1>9
<1>14. Fetching(x)
  BY Zenon, <1>5, <1>10, <1>12, <1>13 DEF Fetching
<1>15. \A n \in 1 .. w.subs[1].tail - 1 : w.db[n] = db[n]
  BY ZenonT(40) DEF Consuming, Fetching
<1>16. ASSUME NEW i \in 2 .. Len(x.subs)
       PROVE  Segment(x.subs[i], db)
  <2> DEFINE s == w.subs[i]
  <2>a. w.subs \in Seq(Subchains) /\ Sound(w.subs, w.db)
    BY Zenon DEF Consuming, Works
  <2>1. w.subs \in Seq(Subchains) /\ Len(w.subs) \in Nat /\ Sound(w.subs, w.db)
    BY <2>a
  <2>0. i \in 2 .. Len(w.subs)
    BY Zenon, <1>5, <1>12
  <2>2. x.subs[i] = s /\ i \in 1 .. Len(w.subs) /\ 1 \in 1 .. Len(w.subs) /\ 1 < i
    <3>1. x.subs[i] = s
      BY Zenon, <1>5, <1>12
    <3> QED BY <2>0, <2>1, <3>1
  <2>3. s \in Subchains /\ Segment(s, w.db) /\ s.head < w.subs[1].tail
    BY ZenonT(30), <2>1, <2>2, SubTypes, Descends DEF Sound
  <2> HIDE DEF s
  <2>4. s.head \in Nat /\ s.tail \in Nat /\ s.tail >= 1
    <3>1. s.head \in Nat /\ s.tail \in Nat /\ s.tail \in 1 .. MaxNumber
      BY Zenon, <2>3, SubTypes
    <3> QED BY <3>1, SkeletonAssumption
  <2>5. \A n \in s.tail .. s.head : n \in 1 .. w.subs[1].tail - 1
    BY SMTT(30), Z3T(30), <1>1, <1>3, <2>3, <2>4
  <2>6. \A n \in s.tail .. s.head : db[n] = w.db[n]
    BY <1>15, <2>5
  <2> QED BY <2>2, <2>3, <2>6, SameSegment
<1>17. ASSUME NEW i \in 3 .. Len(x.subs)
       PROVE  x.subs[i].head < x.subs[i - 1].tail
  <2>1. Len(w.subs) \in Nat /\ Sound(w.subs, w.db)
    BY SMTT(30), Z3T(30) DEF Consuming, Works
  <2>2. i \in 2 .. Len(x.subs) /\ i - 1 \in 2 .. Len(x.subs)
    <3>1. Len(x.subs) \in Nat
      BY Zenon, <1>5, <1>12, <2>1
    <3> QED BY <3>1
  <2>3. i \in 2 .. Len(w.subs) /\ x.subs[i] = w.subs[i] /\ x.subs[i - 1] = w.subs[i - 1]
    BY Zenon, <1>5, <1>12, <2>2
  <2> QED BY <2>1, <2>3 DEF Sound
<1>18. x.subs /= <<>> /\ Stored(x.db) /\ ~x.linked /\ ~x.cyc.linked /\ Segment(x.subs[1], x.db)
  BY ZenonT(40), <1>5, <1>9, <1>12 DEF Consuming, c
<1>19. Overlapping(x)
  BY <1>12, <1>14, <1>16, <1>17, <1>18 DEF Overlapping
<1> QED BY <1>19 DEF x, p, used

\* One chunk.
LEMMA ConsumeStep ==
    ASSUME NEW w, Consuming(w), Genesis \in local
    PROVE  \A x \in Consume(w) : Consuming(x)
<1> DEFINE chunk == Front(w)
           joins == Joins(chunk)
<1>1. CASE chunk = <<>> \/ w.linked \/ w.merged
  <2>1. Consume(w) = {w}
    BY <1>1, Zenon DEF Consume, Front
  <2> QED BY <2>1
<1>2. CASE ~(chunk = <<>> \/ w.linked \/ w.merged)
  <2>1. PICK ch \in Chains : chunk = Batch(ch, w.cyc.scratchHead)
    BY <1>2, FrontFacts
  <2>2. w.cyc.scratchHead \in 1 .. MaxNumber /\ w.subs[1].tail = w.cyc.scratchHead + 1
    BY <1>2, FrontFacts
  <2>3. Len(chunk) \in Nat /\ Len(chunk) >= 1 /\ DOMAIN chunk = 1 .. Len(chunk)
    BY SMTT(30), Z3T(30), <2>1, <2>2, BatchFacts
  <2>4. CASE w.subs[1].next /= chunk[1]
    <3>1. Consume(w) = {[w EXCEPT !.cyc.space[0] = <<>>, !.cyc.owners[0] = None, !.drop = {w.cyc.owners[0]}]}
      BY <1>2, <2>4, Zenon DEF Consume, Front
    <3> QED BY Zenon, <1>2, <3>1, JunkStep
  <2>5. CASE w.subs[1].next = chunk[1] /\ joins /= {}
    <3>1. Consume(w) = {[Swapped(p) EXCEPT !.linked = TRUE] : p \in {Pushed(w, chunk, Min(joins))}}
      BY <1>2, <2>5, Zenon DEF Consume, Front
    <3>2. joins \in SUBSET (1 .. Len(chunk)) /\ joins \in SUBSET Nat
      BY <2>3 DEF Joins
    <3>3. Min(joins) \in 1 .. Len(chunk)
      BY <2>5, <3>2, MinNat
    <3>4. Continues(w, ch, w.cyc.scratchHead, Min(joins))
      BY <2>1, <2>2, <2>5, <3>3 DEF Continues
    <3>5. Consuming([Swapped(Pushed(w, chunk, Min(joins))) EXCEPT !.linked = TRUE])
      BY <1>2, <2>1, <3>4, JoinStep
    <3> QED BY ZenonT(30), <3>1, <3>5
  <2>6. CASE w.subs[1].next = chunk[1] /\ joins = {}
    <3>1. Consume(w) = Overlapped(Shifted(Pushed(w, chunk, Len(chunk)), Len(chunk)))
      BY <1>2, <2>6, Zenon DEF Consume, Front
    <3>2. Len(chunk) \in 1 .. Len(chunk)
      BY <2>3
    <3>3. Continues(w, ch, w.cyc.scratchHead, Len(chunk))
      BY <2>1, <2>2, <2>6, <3>2 DEF Continues
    <3>4. Overlapping(Shifted(Pushed(w, chunk, Len(chunk)), Len(chunk)))
      BY ZenonT(30), <1>2, <2>1, <2>6, <3>3, ShiftStep
    <3> QED BY <3>1, <3>4, OverlappedFacts, Separated
  <2> QED BY <2>4, <2>5, <2>6
<1> QED BY <1>1, <1>2

\* The loop over the chunks.
LEMMA ConsumedFacts ==
    ASSUME NEW w, Consuming(w), Genesis \in local
    PROVE  \A x \in Consumed(w) : Consuming(x)
<1> DEFINE S == {x \in Works : Consuming(x)}
           F == [x \in S |-> Consume(x)]
           G(g) == [k \in 0 .. Tasks |-> IF k = 0 THEN {w} ELSE UNION {Consume(x) : x \in g[k - 1]}]
           run == CHOOSE g : g = G(g)
<1>1. Tasks \in Nat /\ w \in S
  BY SkeletonAssumption DEF Consuming
<1>2. \A x \in S : Consume(x) \in SUBSET S
  BY ConsumeStep DEF Consuming
<1>3. Consumed(w) = run[Tasks]
  BY DEF Consumed
<1> HIDE DEF S
<1>4. F \in [S -> SUBSET S] /\ {w} \in SUBSET S /\ \A x \in S : F[x] = Consume(x)
  BY <1>1, <1>2
<1> HIDE DEF F
<1>5. PICK g \in [0 .. Tasks -> SUBSET S] : IsRun(g, Tasks, {w}, F)
  BY Zenon, <1>1, <1>4, RunExists
<1>6. g = G(g)
  <2>1. ASSUME NEW k \in 0 .. Tasks
        PROVE  g[k] = IF k = 0 THEN {w} ELSE UNION {Consume(x) : x \in g[k - 1]}
    <3>1. CASE k = 0
      BY <1>5, <3>1 DEF IsRun
    <3>2. CASE k /= 0
      <4>1. k \in 1 .. Tasks /\ k - 1 \in 0 .. Tasks
        BY <1>1, <3>2
      <4>2. g[k] = UNION {F[x] : x \in g[k - 1]} /\ g[k - 1] \in SUBSET S
        BY <1>5, <4>1 DEF IsRun
      <4>3. UNION {F[x] : x \in g[k - 1]} = UNION {Consume(x) : x \in g[k - 1]}
        BY <1>4, <4>2
      <4> QED BY Zenon, <3>2, <4>2, <4>3
    <3> QED BY <3>1, <3>2
  <2> QED BY <2>1
<1>7. run = G(run)
  BY Zenon, <1>6
<1> HIDE DEF run
<1>8. run[0] = {w} /\ \A k \in 1 .. Tasks : run[k] = UNION {Consume(x) : x \in run[k - 1]}
  <2>1. \A k \in 0 .. Tasks : run[k] = IF k = 0 THEN {w} ELSE UNION {Consume(x) : x \in run[k - 1]}
    BY Zenon, <1>7
  <2>2. 0 \in 0 .. Tasks /\ \A k \in 1 .. Tasks : k \in 0 .. Tasks /\ k /= 0
    BY <1>1
  <2> QED BY Zenon, <2>1, <2>2
<1> HIDE DEF G
<1> DEFINE Ok(k) == \A x \in run[k] : Consuming(x)
           Bad == {k \in 0 .. Tasks : ~Ok(k)}
<1>9. ASSUME Bad # {} PROVE FALSE
  <2>1. Bad \in SUBSET Nat
    BY <1>1
  <2>2. PICK k \in Bad : \A l \in Bad : k <= l
    BY ZenonT(30), <1>9, <2>1, LeastNat
  <2>3. Ok(0)
    BY <1>8
  <2>4. k /= 0 /\ k \in 1 .. Tasks /\ k - 1 \in 0 .. Tasks /\ k - 1 \notin Bad
    BY <1>1, <2>2, <2>3
  <2>5. Ok(k - 1)
    BY <2>4
  <2>6. ASSUME NEW x \in run[k]
        PROVE  Consuming(x)
    <3>1. PICK y \in run[k - 1] : x \in Consume(y)
      BY <1>8, <2>4
    <3> QED BY <2>5, <3>1, ConsumeStep
  <2> QED BY <2>2, <2>6
<1>10. Ok(Tasks)
  BY <1>1, <1>9
<1> QED BY <1>3, <1>10

----
(***************************************************************************)
(* Requests and tasks.                                                     *)
(***************************************************************************)
LEMMA TaskFacts ==
    ASSUME NEW c \in Cycles, NEW k \in TaskIds
    PROVE  /\ c.scratchHead \in Nat /\ c.scratchHead <= MaxNumber /\ k \in Nat /\ Offset(k) \in Nat
           /\ \A j \in TaskIds : c.scratchHead - Offset(j) = c.scratchHead - Offset(k) => j = k
           /\ (c.scratchHead - (c.scratchHead - Offset(k))) \div requestHeaders = k
           /\ Offset(k) < c.scratchHead => c.scratchHead - Offset(k) \in 1 .. MaxNumber
<1> DEFINE sh == c.scratchHead
<1>1. sh \in Nat /\ sh <= MaxNumber /\ MaxNumber \in Nat
  BY SkeletonAssumption DEF Cycles
<1>2. \A j \in TaskIds : j \in Nat
  BY SkeletonAssumption DEF TaskIds
<1>3. \A j \in TaskIds : Offset(j) \in Nat
  BY <1>2, OffsetFacts
<1> HIDE DEF sh
<1>4. sh - (sh - Offset(k)) = Offset(k)
  BY <1>1, <1>3
<1>5. \A j \in TaskIds : sh - Offset(j) = sh - Offset(k) => Offset(j) = Offset(k)
  BY <1>1, <1>3
<1>6. \A j \in TaskIds : Offset(j) = Offset(k) => j = k
  BY <1>2, OffsetFacts
<1>7. Offset(k) \div requestHeaders = k
  BY <1>2, OffsetFacts
<1>8. Offset(k) < sh => sh - Offset(k) \in 1 .. MaxNumber
  BY <1>1, <1>3
<1> QED BY <1>1, <1>2, <1>3, <1>4, <1>5, <1>6, <1>7, <1>8 DEF sh

\* assignTasks gives free tasks out, each to one peer.
LEMMA AssignedFacts ==
    ASSUME NEW c \in Cycles, NEW x \in Assigned(c)
    PROVE  /\ x \in Cycles /\ x.linked = c.linked /\ x.scratchHead = c.scratchHead /\ x.filled = c.filled
           /\ c.linked => x = c
           /\ Tracked(c) => Tracked(x)
<1>1. CASE c.linked
  <2>1. Assigned(c) = {c}
    BY <1>1, Zenon DEF Assigned
  <2> QED BY <2>1
<1>2. CASE ~c.linked
  <2> DEFINE n == Min({Cardinality(FreeTasks(c)), Cardinality(c.idles)})
             given == {k \in FreeTasks(c) : Cardinality({j \in FreeTasks(c) : j < k}) < n}
             sh == c.scratchHead
  <2>1. PICK f \in Injection(given, c.idles) :
           x = [c EXCEPT !.owners = [k \in TaskIds |-> IF k \in given THEN f[k] ELSE c.owners[k]],
                         !.reqs = c.reqs \cup {[peer |-> f[k], head |-> sh - k * requestHeaders] : k \in given},
                         !.idles = c.idles \ Range(f)]
    BY <1>2, ZenonT(40) DEF Assigned
  <2>2. /\ f \in [given -> c.idles] /\ given \subseteq TaskIds
        /\ \A k \in given : c.owners[k] = None /\ Offset(k) < sh
    BY DEF Injection, FreeTasks, Offset
  <2> DEFINE fresh == {[peer |-> f[k], head |-> sh - Offset(k)] : k \in given}
             ow == [k \in TaskIds |-> IF k \in given THEN f[k] ELSE c.owners[k]]
             id == c.idles \ Range(f)
  <2>3. x = [c EXCEPT !.owners = ow, !.reqs = c.reqs \cup fresh, !.idles = id]
    BY <2>1, Zenon DEF Offset
  <2> HIDE DEF given, n
  <2>4. c.idles \subseteq Peers /\ c.owners \in [TaskIds -> Peers \cup {None}] /\ c.reqs \subseteq Requests
    BY DEF Cycles
  <2>5. \A k \in given : f[k] \in Peers
    BY <2>2, <2>4
  <2>6. ow \in [TaskIds -> Peers \cup {None}] /\ \A k \in TaskIds : ow[k] = IF k \in given THEN f[k] ELSE c.owners[k]
    BY <2>4, <2>5
  <2>7. \A k \in given : sh - Offset(k) \in 1 .. MaxNumber
    BY <2>2, TaskFacts
  <2>8. fresh \subseteq Requests
    BY <2>5, <2>7 DEF Requests
  <2>9. id \subseteq Peers
    BY <2>4
  <2> HIDE DEF fresh, ow, id
  <2>10. /\ x \in Cycles /\ x.linked = c.linked /\ x.scratchHead = sh /\ x.filled = c.filled
         /\ x.owners = ow /\ x.space = c.space /\ x.reqs = c.reqs \cup fresh
    BY ZenonT(30), <2>3, <2>4, <2>6, <2>8, <2>9 DEF Cycles
  <2>11. ASSUME Tracked(c) PROVE Tracked(x)
    <3>1. ASSUME NEW r \in x.reqs
          PROVE  \E k \in TaskIds : r.head = sh - Offset(k)
      <4>1. CASE r \in c.reqs
        BY Zenon, <2>11, <4>1 DEF Tracked
      <4>2. CASE r \in fresh
        <5>1. PICK k \in given : r = [peer |-> f[k], head |-> sh - Offset(k)]
          BY Zenon, <4>2 DEF fresh
        <5>2. k \in TaskIds /\ r.head = sh - Offset(k)
          BY Zenon, <2>2, <5>1
        <5> QED BY Zenon, <5>2
      <4> QED BY Zenon, <2>10, <4>1, <4>2
    <3>2. ASSUME NEW k \in TaskIds
          PROVE  \/ x.owners[k] = None /\ Of(x, k) = {} /\ x.space[k] = <<>>
                 \/ /\ x.owners[k] /= None /\ Offset(k) < sh
                    /\ \/ Of(x, k) = {} /\ \E ch \in Chains : x.space[k] = Batch(ch, sh - Offset(k))
                       \/ Of(x, k) = {[peer |-> x.owners[k], head |-> sh - Offset(k)]} /\ x.space[k] = <<>>
      <4>1. Of(x, k) = Of(c, k) \cup {r \in fresh : r.head = sh - Offset(k)}
        BY <2>10 DEF Of
      <4>2. \A j \in TaskIds : sh - Offset(j) = sh - Offset(k) => j = k
        BY Zenon, TaskFacts
      <4>3. CASE k \in given
        <5>1. {r \in fresh : r.head = sh - Offset(k)} = {[peer |-> f[k], head |-> sh - Offset(k)]}
          <6> DEFINE q == [peer |-> f[k], head |-> sh - Offset(k)]
          <6>1. q \in fresh /\ q.head = sh - Offset(k)
            BY Zenon, <4>3 DEF fresh
          <6>2. ASSUME NEW r \in fresh, r.head = sh - Offset(k) PROVE r = q
            <7>1. PICK j \in given : r = [peer |-> f[j], head |-> sh - Offset(j)]
              BY Zenon DEF fresh
            <7>2. j \in TaskIds /\ r.head = sh - Offset(j)
              BY Zenon, <2>2, <7>1
            <7>3. j = k
              BY Zenon, <4>2, <6>2, <7>2
            <7> QED BY Zenon, <7>1, <7>3
          <6> HIDE DEF q
          <6>3. {r \in fresh : r.head = sh - Offset(k)} = {q}
            BY Zenon, <6>1, <6>2
          <6> QED BY Zenon, <6>3 DEF q
        <5>2. Of(c, k) = {} /\ c.space[k] = <<>>
          BY Zenon, <2>2, <2>11, <4>3 DEF Tracked
        <5>3. x.owners[k] = f[k] /\ f[k] /= None
          BY Zenon, <2>5, <2>6, <2>10, <4>3, SkeletonAssumption DEF None
        <5> QED BY Zenon, <2>2, <2>10, <4>1, <4>3, <5>1, <5>2, <5>3
      <4>4. CASE k \notin given
        <5>1. {r \in fresh : r.head = sh - Offset(k)} = {}
          <6>1. ASSUME NEW r \in fresh, r.head = sh - Offset(k) PROVE FALSE
            <7>1. PICK j \in given : r = [peer |-> f[j], head |-> sh - Offset(j)]
              BY Zenon DEF fresh
            <7>2. j \in TaskIds /\ r.head = sh - Offset(j)
              BY Zenon, <2>2, <7>1
            <7> QED BY Zenon, <4>2, <4>4, <6>1, <7>1, <7>2
          <6> QED BY Zenon, <6>1
        <5>2. x.owners[k] = c.owners[k] /\ x.space[k] = c.space[k] /\ Of(x, k) = Of(c, k)
          BY ZenonT(40), <2>6, <2>10, <4>1, <4>4, <5>1
        <5> QED BY Zenon, <2>11, <5>2 DEF Tracked
      <4> QED BY Zenon, <4>3, <4>4
    <3> QED BY Zenon, <2>10, <3>1, <3>2 DEF Tracked
  <2> QED BY <1>2, <2>10, <2>11
<1> QED BY <1>1, <1>2

\* What the tracked tasks say of a request.
LEMMA RequestFacts ==
    ASSUME NEW c \in Cycles, Tracked(c), NEW r \in c.reqs
    PROVE  \E k \in TaskIds : /\ r.head = c.scratchHead - Offset(k) /\ (c.scratchHead - r.head) \div requestHeaders = k
                              /\ Of(c, k) = {r} /\ c.space[k] = <<>> /\ c.owners[k] /= None
                              /\ Offset(k) < c.scratchHead
                              /\ \A q \in c.reqs : (c.scratchHead - q.head) \div requestHeaders = k => q = r
<1>1. PICK k \in TaskIds : r.head = c.scratchHead - Offset(k)
  BY DEF Tracked
<1>2. (c.scratchHead - r.head) \div requestHeaders = k
  BY <1>1, TaskFacts
<1>3. r \in Of(c, k)
  BY ZenonT(40), <1>1 DEF Of
<1>4. /\ Of(c, k) = {[peer |-> c.owners[k], head |-> c.scratchHead - Offset(k)]} /\ c.space[k] = <<>>
      /\ c.owners[k] /= None /\ Offset(k) < c.scratchHead
  BY <1>3 DEF Tracked
<1>5. Of(c, k) = {r}
  BY <1>3, <1>4
<1>6. ASSUME NEW q \in c.reqs, (c.scratchHead - q.head) \div requestHeaders = k
      PROVE  q = r
  <2>1. PICK j \in TaskIds : q.head = c.scratchHead - Offset(j)
    BY DEF Tracked
  <2>2. j = k
    BY Zenon, <1>6, <2>1, TaskFacts
  <2>3. q \in Of(c, k)
    BY Zenon, <2>1, <2>2 DEF Of
  <2> QED BY Zenon, <1>5, <2>3
<1> QED BY ZenonT(40), <1>1, <1>2, <1>4, <1>5, <1>6

\* Requests are reverted: their tasks are free again.
LEMMA FreedFacts ==
    ASSUME NEW c \in Cycles, Tracked(c), NEW own \in SUBSET c.reqs,
           NEW d \in Cycles, d.reqs = c.reqs \ own, d.scratchHead = c.scratchHead, d.space = c.space,
           \A k \in TaskIds : d.owners[k] = IF \E r \in own : (c.scratchHead - r.head) \div requestHeaders = k
                                            THEN None ELSE c.owners[k]
    PROVE  Tracked(d)
<1>1. ASSUME NEW k \in TaskIds
      PROVE  \/ d.owners[k] = None /\ Of(d, k) = {} /\ d.space[k] = <<>>
             \/ /\ d.owners[k] /= None /\ Offset(k) < d.scratchHead
                /\ \/ Of(d, k) = {} /\ \E ch \in Chains : d.space[k] = Batch(ch, d.scratchHead - Offset(k))
                   \/ Of(d, k) = {[peer |-> d.owners[k], head |-> d.scratchHead - Offset(k)]} /\ d.space[k] = <<>>
  <2>1. Of(d, k) = Of(c, k) \ own
    BY Zenon DEF Of
  <2>2. CASE \E r \in own : (c.scratchHead - r.head) \div requestHeaders = k
    <3>1. PICK r \in own : (c.scratchHead - r.head) \div requestHeaders = k
      BY <2>2
    <3>2. Of(c, k) = {r} /\ c.space[k] = <<>>
      BY <3>1, RequestFacts
    <3>3. d.owners[k] = None
      BY <2>2
    <3>4. Of(d, k) = {}
      BY Zenon, <2>1, <3>1, <3>2
    <3> QED BY Zenon, <3>2, <3>3, <3>4
  <2>3. CASE ~\E r \in own : (c.scratchHead - r.head) \div requestHeaders = k
    <3>1. d.owners[k] = c.owners[k]
      BY <2>3
    <3>2. ASSUME NEW r \in Of(c, k), r \in own PROVE FALSE
      <4>1. r.head = c.scratchHead - Offset(k)
        BY DEF Of
      <4>2. (c.scratchHead - r.head) \div requestHeaders = k
        BY <4>1, TaskFacts
      <4> QED BY <2>3, <3>2, <4>2
    <3>3. Of(d, k) = Of(c, k)
      BY ZenonT(40), <2>1, <3>2
    <3> QED BY ZenonT(30), <3>1, <3>3 DEF Tracked
  <2> QED BY Zenon, <2>2, <2>3
<1>2. \A r \in d.reqs : \E k \in TaskIds : r.head = d.scratchHead - Offset(k)
  BY DEF Tracked
<1> QED BY Zenon, <1>1, <1>2 DEF Tracked

LEMMA RevertedFacts ==
    ASSUME NEW c \in Cycles, Tracked(c), NEW r \in c.reqs
    PROVE  /\ Reverted(c, r) \in Cycles /\ Reverted(c, r).linked = c.linked /\ Reverted(c, r).filled = c.filled
           /\ Reverted(c, r).scratchHead = c.scratchHead /\ Tracked(Reverted(c, r))
<1> DEFINE k == (c.scratchHead - r.head) \div requestHeaders
           ow == [c.owners EXCEPT ![k] = None]
           d == Reverted(c, r)
<1>1. k \in TaskIds
  BY RequestFacts
<1> HIDE DEF k
<1>2. ow \in [TaskIds -> Peers \cup {None}] /\ \A j \in TaskIds : ow[j] = IF k = j THEN None ELSE c.owners[j]
  BY <1>1 DEF Cycles
<1>3. d = [c EXCEPT !.reqs = c.reqs \ {r}, !.owners = ow]
  <2>1. c = [linked |-> c.linked, scratchHead |-> c.scratchHead, owners |-> c.owners, space |-> c.space,
             reqs |-> c.reqs, idles |-> c.idles, late |-> c.late, filled |-> c.filled]
    BY DEF Cycles
  <2> QED BY <2>1, Zenon DEF Reverted, k
<1> HIDE DEF ow, d
<1>4. /\ d \in Cycles /\ d.linked = c.linked /\ d.filled = c.filled /\ d.scratchHead = c.scratchHead
      /\ d.space = c.space /\ d.owners = ow /\ d.reqs = c.reqs \ {r}
  BY ZenonT(30), <1>2, <1>3 DEF Cycles
<1>5. \A j \in TaskIds : d.owners[j] = IF \E q \in {r} : (c.scratchHead - q.head) \div requestHeaders = j
                                       THEN None ELSE c.owners[j]
  BY <1>2, <1>4 DEF k
<1>6. Tracked(d)
  <2>1. {r} \in SUBSET c.reqs
    BY Zenon
  <2> QED BY ZenonT(30), <1>4, <1>5, <2>1, FreedFacts
<1> QED BY SMTT(30), Z3T(30), <1>4, <1>6 DEF d

\* Peers come and go.
LEMMA IdleFacts ==
    ASSUME NEW c \in Cycles, NEW d \in Cycles, d.reqs = c.reqs, d.scratchHead = c.scratchHead, d.space = c.space,
           d.owners = c.owners
    PROVE  Tracked(c) => Tracked(d)
<1>1. \A k : Of(d, k) = Of(c, k)
  BY DEF Of
<1> QED BY Zenon, <1>1 DEF Tracked

\* The headers of a reply enter the scratch space.
LEMMA DeliveredFacts ==
    ASSUME TypeInv, subs /= <<>>, Sound(subs, db), ~cyc.linked, cyc.scratchHead = subs[1].tail - 1, Tracked(cyc),
           NEW r \in cyc.reqs, NEW ch \in Chains
    PROVE  Consuming(Delivered(r, ch))
<1> DEFINE k == (cyc.scratchHead - r.head) \div requestHeaders
           sp == [cyc.space EXCEPT ![k] = Batch(ch, r.head)]
           d == [cyc EXCEPT !.reqs = cyc.reqs \ {r}, !.idles = cyc.idles \cup {r.peer}, !.space = sp]
           w == Delivered(r, ch)
<1>1. cyc \in Cycles /\ r \in Requests
  BY ZenonT(30) DEF TypeInv, Cycles
<1>2. /\ k \in TaskIds /\ r.head = cyc.scratchHead - Offset(k) /\ Of(cyc, k) = {r} /\ cyc.owners[k] /= None
      /\ Offset(k) < cyc.scratchHead /\ \A q \in cyc.reqs : (cyc.scratchHead - q.head) \div requestHeaders = k => q = r
  BY ZenonT(30), <1>1, RequestFacts
<1> HIDE DEF k
<1>3. Batch(ch, r.head) \in Seq(Headers)
  BY Zenon, <1>1, BatchFacts DEF Requests
<1>4. /\ sp \in [TaskIds -> Seq(Headers)] /\ sp[k] = Batch(ch, r.head)
      /\ \A j \in TaskIds : j /= k => sp[j] = cyc.space[j]
  BY <1>1, <1>2, <1>3 DEF Cycles
<1>5. w.cyc = d
  <2>1. cyc = [linked |-> cyc.linked, scratchHead |-> cyc.scratchHead, owners |-> cyc.owners, space |-> cyc.space,
             reqs |-> cyc.reqs, idles |-> cyc.idles, late |-> cyc.late, filled |-> cyc.filled]
    BY Zenon, <1>1 DEF Cycles
  <2>2. w.cyc = [cyc EXCEPT !.reqs = cyc.reqs \ {r}, !.idles = cyc.idles \cup {r.peer}, !.space[k] = Batch(ch, r.head)]
    BY Zenon DEF Delivered, k
  <2> QED BY <2>1, <2>2, Zenon
<1> HIDE DEF sp
<1>6. /\ d \in Cycles /\ d.linked = cyc.linked /\ d.scratchHead = cyc.scratchHead /\ d.reqs = cyc.reqs \ {r}
      /\ d.owners = cyc.owners /\ d.space = sp
  BY ZenonT(30), <1>1, <1>4 DEF Cycles, Requests
<1> HIDE DEF d
<1>7. ASSUME NEW j \in TaskIds
      PROVE  \/ d.owners[j] = None /\ Of(d, j) = {} /\ d.space[j] = <<>>
             \/ /\ d.owners[j] /= None /\ Offset(j) < d.scratchHead
                /\ \/ Of(d, j) = {} /\ \E c \in Chains : d.space[j] = Batch(c, d.scratchHead - Offset(j))
                   \/ Of(d, j) = {[peer |-> d.owners[j], head |-> d.scratchHead - Offset(j)]} /\ d.space[j] = <<>>
  <2>1. Of(d, j) = Of(cyc, j) \ {r}
    BY ZenonT(40), <1>6 DEF Of
  <2>2. CASE j = k
    BY SMTT(30), Z3T(30), <1>2, <1>4, <1>6, <2>1, <2>2
  <2>3. CASE j /= k
    <3>1. r \notin Of(cyc, j)
      BY ZenonT(40), <1>1, <1>2, <2>3, TaskFacts DEF Of
    <3>2. Of(d, j) = Of(cyc, j) /\ d.space[j] = cyc.space[j] /\ d.owners[j] = cyc.owners[j]
      BY SMTT(30), Z3T(30), <1>4, <1>6, <2>1, <2>3, <3>1
    <3> QED BY ZenonT(30), <1>6, <3>2 DEF Tracked
  <2> QED BY Zenon, <2>2, <2>3
<1>8. Tracked(d)
  BY Zenon, <1>6, <1>7 DEF Tracked
<1>9. w = [subs |-> subs, db |-> db, drop |-> {}, linked |-> FALSE, merged |-> FALSE, cyc |-> d]
  BY <1>5, Zenon DEF Delivered
<1> HIDE DEF w
<1>10. w \in Works /\ w.subs = subs /\ w.db = db /\ ~w.linked /\ ~w.merged
  <2>1. subs \in Seq(Subchains) /\ db \in [1 .. MaxNumber -> Headers \cup {None}] /\ d \in Cycles
    BY Zenon, <1>6 DEF TypeInv, Stored
  <2>2. [subs |-> subs, db |-> db, drop |-> {}, linked |-> FALSE, merged |-> FALSE, cyc |-> d] \in Works
    BY SMTT(30), Z3T(30), <2>1 DEF Works
  <2> QED BY Zenon, <1>9, <2>2
<1>11. Fetching(w)
  BY Zenon, <1>5, <1>6, <1>8, <1>10 DEF Fetching
<1>12. Stored(w.db) /\ ~w.cyc.linked
  BY ZenonT(40), <1>5, <1>6, <1>10 DEF TypeInv
<1>13. Consuming(w)
  BY <1>10, <1>11, <1>12 DEF Consuming
<1> QED BY SMTT(30), Z3T(30), <1>13 DEF w
====
