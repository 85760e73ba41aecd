--------------------------- MODULE P2PServerProofs ---------------------------
(***************************************************************************)
(* Proofs about P2PServer, for any number of nodes, accept slots and       *)
(* callers and for any limits.                                             *)
(***************************************************************************)
EXTENDS P2PServer, FiniteSetTheorems, TLAPS

\* What SMT leaves open is tried with Zenon, and once more with Z3.
USE SMT, Zenon, Z3T(30)

(***************************************************************************)
(* What the dial loop maintains, as a predicate of the values: an event    *)
(* changes them and the head of the loop launches, and parts of it have to *)
(* hold in between.                                                        *)
(***************************************************************************)
DialTypes(st, tk, pe, count, hist) ==
    /\ st \subseteq Nodes
    /\ tk \in [Nodes -> Stages]
    /\ pe \subseteq Nodes
    /\ count \in Nat
    /\ hist \subseteq Nodes

\* The pool is exact, and the dials under way leave no more than the limit.
DialSum(tk, count) == count + Cardinality(Undecided(tk)) <= 2 * maxDialPeers

Exact(st, pool, tk, pe, hist) == pool = {n \in st : checkDial(n, tk, pe, hist)}

\* The loop reads candidates only with an empty pool and a free slot.
ReadOK(pool, tk, count, rd) == rd => pool = {} /\ freeDialSlots(tk, count) > 0

\* Sets of nodes have cardinalities, and the tasks that may still become
\* peers are among the active ones.
LEMMA NodeSets ==
    ASSUME NEW S \in SUBSET Nodes
    PROVE  IsFiniteSet(S) /\ Cardinality(S) \in Nat
BY DialAssumption, FS_Subset, FS_CardinalityType

LEMMA UndecidedDialing ==
    ASSUME NEW tk
    PROVE  /\ Undecided(tk) \in SUBSET Nodes
           /\ Dialing(tk) \in SUBSET Nodes
           /\ Cardinality(Undecided(tk)) \in Nat
           /\ Cardinality(Dialing(tk)) \in Nat
           /\ Cardinality(Undecided(tk)) <= Cardinality(Dialing(tk))
<1>1. Undecided(tk) \in SUBSET Nodes /\ Dialing(tk) \in SUBSET Nodes
  BY DEF Undecided, Dialing
<1>2. Undecided(tk) \in SUBSET Dialing(tk)
  BY DEF Undecided, Dialing
<1>3. Cardinality(Undecided(tk)) <= Cardinality(Dialing(tk))
  BY <1>1, <1>2, NodeSets, FS_Subset
<1> QED BY <1>1, <1>3, NodeSets

\* The number of free slots is an integer and leaves room below the limit.
LEMMA FreeSlots ==
    ASSUME NEW tk, NEW count \in Nat
    PROVE  /\ freeDialSlots(tk, count) \in Int
           /\ freeDialSlots(tk, count) <= 2 * (maxDialPeers - count) - Cardinality(Dialing(tk))
BY DialAssumption, UndecidedDialing DEF freeDialSlots

\* Launching a set of idle nodes adds exactly them to the active tasks.
LEMMA StartDialing ==
    ASSUME NEW tk \in [Nodes -> Stages], NEW S \in SUBSET Nodes, \A n \in S : tk[n] = "none"
    PROVE  /\ startDial(S, tk) \in [Nodes -> Stages]
           /\ Dialing(startDial(S, tk)) = Dialing(tk) \cup S
           /\ Undecided(startDial(S, tk)) = Undecided(tk) \cup S
           /\ Cardinality(Dialing(startDial(S, tk))) = Cardinality(Dialing(tk)) + Cardinality(S)
<1>1. startDial(S, tk) \in [Nodes -> Stages]
  BY DEF startDial, Stages
<1>2. Dialing(startDial(S, tk)) = Dialing(tk) \cup S
  BY DEF startDial, Dialing
<1>3. Undecided(startDial(S, tk)) = Undecided(tk) \cup S
  BY DEF startDial, Undecided
<1>4. Dialing(tk) \cap S = {}
  BY DEF Dialing
<1>5. Cardinality(Dialing(tk) \cup S) = Cardinality(Dialing(tk)) + Cardinality(S)
  <2>1. IsFiniteSet(Dialing(tk)) /\ IsFiniteSet(S)
    BY UndecidedDialing, NodeSets
  <2>2. Cardinality(Dialing(tk)) \in Nat /\ Cardinality(S) \in Nat
    BY UndecidedDialing, NodeSets
  <2>3. Cardinality(Dialing(tk) \cup S)
          = Cardinality(Dialing(tk)) + Cardinality(S) - Cardinality(Dialing(tk) \cap S)
    BY <2>1, FS_Union
  <2>4. Cardinality(Dialing(tk) \cap S) = 0
    BY <1>4, FS_EmptySet
  <2> QED BY <2>2, <2>3, <2>4
<1> QED BY <1>1, <1>2, <1>3, <1>5

\* The head of the loop: whatever static tasks it picks, the pool stays exact,
\* the sum stays below the limit, and candidates are read only afterwards.
LEMMA LaunchKeeps ==
    ASSUME NEW st, NEW pool, NEW tk, NEW pe, NEW count, NEW hist,
           DialTypes(st, tk, pe, count, hist),
           Exact(st, pool, tk, pe, hist),
           DialSum(tk, count),
           Launch(pool, tk, count, hist)
    PROVE  /\ task' \in [Nodes -> Stages]
           /\ history' \subseteq Nodes
           /\ reading' \in BOOLEAN
           /\ Exact(st, staticPool', task', pe, history')
           /\ DialSum(task', count)
           /\ ReadOK(staticPool', task', count, reading')
<1> DEFINE slots == freeDialSlots(tk, count)
<1>1. PICK S \in startStaticDials(slots, pool) :
        /\ staticPool' = pool \ S
        /\ task' = startDial(S, tk)
        /\ history' = hist \cup S
        /\ reading' = (slots > Cardinality(S))
  BY DEF Launch
<1>2. pool \in SUBSET Nodes /\ \A n \in pool : tk[n] = "none"
  BY DEF Exact, DialTypes, checkDial
<1>3. slots \in Int
  BY FreeSlots DEF DialTypes
<1>4. /\ S \in SUBSET pool
      /\ S # {} => Cardinality(S) <= slots
      /\ slots > Cardinality(S) => S = pool
  <2>1. CASE slots <= 0
    <3>1. S = {} BY <1>1, <2>1 DEF startStaticDials
    <3> QED BY <3>1, <2>1, <1>3, FS_EmptySet
  <2>2. CASE slots > 0 /\ Cardinality(pool) <= slots
    BY <1>1, <2>2, <1>3 DEF startStaticDials
  <2>3. CASE slots > 0 /\ ~(Cardinality(pool) <= slots)
    BY <1>1, <2>3, <1>3 DEF startStaticDials
  <2> QED BY <2>1, <2>2, <2>3, <1>3
<1>5. S \in SUBSET Nodes /\ \A n \in S : tk[n] = "none"
  BY <1>2, <1>4
<1>6. /\ task' \in [Nodes -> Stages]
      /\ Undecided(task') = Undecided(tk) \cup S
      /\ Cardinality(Dialing(task')) = Cardinality(Dialing(tk)) + Cardinality(S)
  BY <1>1, <1>5, StartDialing DEF DialTypes
<1>7. history' \subseteq Nodes /\ reading' \in BOOLEAN
  BY <1>1, <1>5 DEF DialTypes
<1>8. Exact(st, staticPool', task', pe, history')
  BY <1>1, <1>4 DEF Exact, checkDial, startDial, DialTypes
<1>9. DialSum(task', count)
  <2>1. CASE S = {}
    <3>1. Undecided(task') = Undecided(tk) BY <1>6, <2>1
    <3> QED BY <3>1 DEF DialSum
  <2>2. CASE S # {}
    <3>1. Cardinality(Dialing(tk)) + Cardinality(S) <= 2 * (maxDialPeers - count)
      BY <2>2, <1>3, <1>4, <1>5, FreeSlots, UndecidedDialing, NodeSets, DialAssumption DEF DialTypes
    <3>2. Cardinality(Undecided(task')) <= Cardinality(Dialing(task'))
      BY UndecidedDialing
    <3>3. Cardinality(Undecided(task')) \in Nat
      BY UndecidedDialing
    <3>4. Cardinality(Undecided(task')) <= 2 * (maxDialPeers - count)
      <4>1. Cardinality(Dialing(task')) \in Nat
        BY UndecidedDialing
      <4>2. maxDialPeers \in Nat /\ count \in Nat
        BY DialAssumption DEF DialTypes
      <4> QED BY <3>1, <3>2, <3>3, <4>1, <4>2, <1>6
    <3> QED BY <3>3, <3>4, DialAssumption DEF DialSum, DialTypes
  <2> QED BY <2>1, <2>2
<1>10. ReadOK(staticPool', task', count, reading')
  <2>1. freeDialSlots(task', count) = slots - Cardinality(S)
    BY <1>6, <1>5, NodeSets, UndecidedDialing, DialAssumption DEF freeDialSlots, DialTypes
  <2>2. ASSUME reading' PROVE staticPool' = {} /\ slots - Cardinality(S) > 0
    <3>1. slots > Cardinality(S) BY Zenon, <1>1, <2>2
    <3>2. S = pool BY <3>1, <1>4
    <3>3. Cardinality(S) \in Nat BY <1>5, NodeSets
    <3> QED BY <3>1, <3>2, <3>3, <1>1, <1>3
  <2> QED BY <2>1, <2>2 DEF ReadOK
<1> QED BY <1>6, <1>7, <1>8, <1>9, <1>10

-----------------------------------------------------------------------------

\* The dial loop's part of the inductive invariant.
DialInv ==
    /\ DialTypes(static, task, connected, dialPeers, history)
    /\ reading \in BOOLEAN
    /\ dialLoop \in BOOLEAN
    /\ DialSum(task, dialPeers)
    /\ dialLoop => /\ Exact(static, staticPool, task, connected, history)
                   /\ ReadOK(staticPool, task, dialPeers, reading)

\* The run loop's part: once it spins down it no longer tells the dial loop,
\* whose count is then only an upper bound.
PeerInv ==
    /\ phase \in [Nodes -> Phases]
    /\ inbound \in SUBSET Nodes
    /\ loop \in Loops
    /\ slotNode \in [Slots -> Nodes]
    /\ dialLoop <=> loop \notin {"stop", "done"}
    /\ DialerAgrees
    /\ Cardinality(peers \ inbound) <= dialPeers

\* A peer whose Add event is being sent has not started.
SendInv ==
    sending # None => /\ sending.event \in Events
                      /\ sending.event[1] = "add" => phase[sending.event[2]] = "adding"

IInv == DialInv /\ PeerInv

LEMMA InitIInv ==
    ASSUME Init
    PROVE  IInv
<1> USE DEF Init, DialInit
<1>1. Undecided(task) = {} /\ Dialing(task) = {}
  BY DEF Undecided, Dialing
<1>2. Cardinality({}) = 0
  BY FS_EmptySet
<1>3. DialTypes(static, task, connected, dialPeers, history)
  BY DEF DialTypes, Stages
<1>4. DialSum(task, dialPeers)
  BY <1>1, <1>2, DialAssumption DEF DialSum
<1>5. Exact(static, staticPool, task, connected, history)
  BY DEF Exact
<1>6. ReadOK(staticPool, task, dialPeers, reading)
  <2>1. freeDialSlots(task, 0)
          = (IF 2 * (maxDialPeers - 0) > maxActiveDials THEN maxActiveDials
             ELSE 2 * (maxDialPeers - 0)) - 0
    BY <1>1, <1>2 DEF freeDialSlots
  <2>2. maxDialPeers > 0 => freeDialSlots(task, 0) > 0
    BY <2>1, DialAssumption
  <2>3. reading => maxDialPeers > 0
    BY Zenon
  <2> QED BY <2>2, <2>3 DEF ReadOK
<1>7. peers = {} /\ inbound = {}
  BY DEF peers
<1>8. peers \ inbound = {}
  BY <1>7
<1>9. DialerAgrees /\ Cardinality(peers \ inbound) <= dialPeers
  BY <1>2, <1>7, <1>8 DEF DialerAgrees
<1> QED BY <1>3, <1>4, <1>5, <1>6, <1>9, DialAssumption DEF IInv, DialInv, PeerInv, Phases, Loops

\* A step that leaves the dial loop alone.
LEMMA DialStays ==
    ASSUME DialInv, UNCHANGED dialVars
    PROVE  DialInv'
BY DEF DialInv, dialVars

\* A task that is under way ends, or gets further.
LEMMA TaskMoves ==
    ASSUME DialInv, NEW n \in Nodes, NEW s \in {"enc", "proto", "done"},
           task[n] \in {"dial", "enc", "proto"},
           task' = [task EXCEPT ![n] = s],
           UNCHANGED <<static, staticPool, connected, dialPeers, history, reading, dialLoop>>
    PROVE  DialInv'
<1>1. task' \in [Nodes -> Stages]
  BY DEF DialInv, DialTypes, Stages
<1>2. Dialing(task') = Dialing(task)
  BY DEF Dialing, DialInv, DialTypes
<1>3. Undecided(task') \in SUBSET Undecided(task)
  BY DEF Undecided, DialInv, DialTypes
<1>4. Cardinality(Undecided(task')) <= Cardinality(Undecided(task))
  BY Zenon, <1>3, UndecidedDialing, NodeSets, FS_Subset
<1>5. DialSum(task', dialPeers)
  <2>1. Cardinality(Undecided(task')) \in Nat /\ Cardinality(Undecided(task)) \in Nat
    BY UndecidedDialing
  <2> QED BY <1>4, <2>1, DialAssumption DEF DialSum, DialInv, DialTypes
<1>6. freeDialSlots(task', dialPeers) = freeDialSlots(task, dialPeers)
  BY <1>2 DEF freeDialSlots
<1>7. \A m \in Nodes : task'[m] = "none" <=> task[m] = "none"
  BY DEF DialInv, DialTypes
<1>8. Exact(static, staticPool, task, connected, history)
        => Exact(static, staticPool, task', connected, history)
  BY <1>7 DEF Exact, checkDial, DialInv, DialTypes
<1>9. ReadOK(staticPool, task, dialPeers, reading) => ReadOK(staticPool, task', dialPeers, reading)
  BY <1>6 DEF ReadOK
<1>10. DialTypes(static, task', connected, dialPeers, history)
  BY <1>1 DEF DialTypes, DialInv
<1> QED BY <1>5, <1>8, <1>9, <1>10 DEF DialInv

\* The events of the dial loop.  Each prepares the head of the loop: the pool
\* it hands over is exact for the values the event leaves.
LEMMA LaunchGives ==
    ASSUME NEW st, NEW pool, NEW tk, NEW pe, NEW count, NEW hist,
           DialTypes(st, tk, pe, count, hist), Exact(st, pool, tk, pe, hist), DialSum(tk, count),
           Launch(pool, tk, count, hist),
           static' = st, connected' = pe, dialPeers' = count,
           dialLoop, dialLoop' = dialLoop
    PROVE  DialInv'
<1>1. /\ task' \in [Nodes -> Stages]
      /\ history' \subseteq Nodes
      /\ reading' \in BOOLEAN
      /\ Exact(st, staticPool', task', pe, history')
      /\ DialSum(task', count)
      /\ ReadOK(staticPool', task', count, reading')
  BY LaunchKeeps
<1>2. DialTypes(static', task', connected', dialPeers', history')
  BY <1>1 DEF DialTypes
<1> QED BY <1>1, <1>2 DEF DialInv

LEMMA NodeReadKeeps ==
    ASSUME DialInv, NEW n \in Nodes, NodeRead(n)
    PROVE  DialInv'
<1> DEFINE tk == startDial({n}, task)
<1>1. /\ dialLoop /\ reading
      /\ checkDial(n, task, connected, history)
      /\ Launch(staticPool, tk, dialPeers, history \cup {n})
      /\ UNCHANGED <<static, connected, dialPeers, dialLoop>>
  BY DEF NodeRead
<1>2. task \in [Nodes -> Stages] /\ dialPeers \in Nat
  BY DEF DialInv, DialTypes
<1>3. \A m \in {n} : task[m] = "none"
  BY <1>1 DEF checkDial
<1>4. /\ tk \in [Nodes -> Stages]
      /\ Cardinality(Dialing(tk)) = Cardinality(Dialing(task)) + 1
  <2>1. Cardinality({n}) = 1 BY FS_Singleton
  <2> QED BY <1>2, <1>3, <2>1, StartDialing
<1>5. DialTypes(static, tk, connected, dialPeers, history \cup {n})
  BY <1>4 DEF DialTypes, DialInv
<1>6. staticPool = {} /\ freeDialSlots(task, dialPeers) > 0
  BY <1>1 DEF DialInv, ReadOK
<1>7. Exact(static, staticPool, tk, connected, history \cup {n})
  BY <1>1, <1>2, <1>6 DEF Exact, checkDial, startDial, DialInv, DialTypes
<1>8. DialSum(tk, dialPeers)
  <2>1. /\ freeDialSlots(task, dialPeers) \in Int
        /\ freeDialSlots(task, dialPeers) <= 2 * (maxDialPeers - dialPeers) - Cardinality(Dialing(task))
    BY <1>2, FreeSlots
  <2>2. /\ Cardinality(Dialing(task)) \in Nat
        /\ Cardinality(Undecided(tk)) \in Nat
        /\ Cardinality(Undecided(tk)) <= Cardinality(Dialing(tk))
    BY UndecidedDialing
  <2> QED BY <1>2, <1>4, <1>6, <2>1, <2>2, DialAssumption DEF DialSum
<1> HIDE DEF tk
<1> QED BY <1>1, <1>5, <1>7, <1>8, LaunchGives

\* A task handed over is not undecided, so the sum does not change.
LEMMA TaskDoneKeeps ==
    ASSUME DialInv, NEW n \in Nodes, TaskDone(n)
    PROVE  DialInv'
<1> DEFINE tk == [task EXCEPT ![n] = "none"]
           pool == updateStaticPool({n}, staticPool, tk, connected, history)
<1>1. /\ dialLoop /\ task[n] = "done"
      /\ Launch(pool, tk, dialPeers, history)
      /\ UNCHANGED <<static, connected, dialPeers, dialLoop>>
  BY DEF TaskDone
<1>2. DialTypes(static, tk, connected, dialPeers, history)
  BY DEF DialTypes, DialInv, Stages
<1>3. Undecided(tk) = Undecided(task)
  BY <1>1 DEF Undecided, DialInv, DialTypes
<1>4. DialSum(tk, dialPeers)
  BY <1>3 DEF DialSum, DialInv
<1>5. Exact(static, pool, tk, connected, history)
  BY <1>1 DEF Exact, updateStaticPool, checkDial, DialInv, DialTypes
<1> HIDE DEF tk, pool
<1> QED BY <1>1, <1>2, <1>4, <1>5, LaunchGives

LEMMA AddStaticKeeps ==
    ASSUME DialInv, NEW n \in Nodes, AddStatic(n)
    PROVE  DialInv'
<1> DEFINE pool == IF checkDial(n, task, connected, history)
                   THEN staticPool \cup {n} ELSE staticPool
<1>1. /\ dialLoop
      /\ static' = static \cup {n}
      /\ Launch(pool, task, dialPeers, history)
      /\ UNCHANGED <<connected, dialPeers, dialLoop>>
  BY DEF AddStatic
<1>2. DialTypes(static \cup {n}, task, connected, dialPeers, history)
  BY DEF DialTypes, DialInv
<1>3. Exact(static \cup {n}, pool, task, connected, history)
  BY <1>1 DEF Exact, DialInv, DialTypes
<1> HIDE DEF pool
<1> QED BY <1>1, <1>2, <1>3, LaunchGives DEF DialInv

LEMMA RemoveStaticKeeps ==
    ASSUME DialInv, NEW n \in Nodes, RemoveStatic(n)
    PROVE  DialInv'
<1>1. /\ dialLoop
      /\ static' = static \ {n}
      /\ Launch(staticPool \ {n}, task, dialPeers, history)
      /\ UNCHANGED <<connected, dialPeers, dialLoop>>
  BY DEF RemoveStatic
<1>2. DialTypes(static \ {n}, task, connected, dialPeers, history)
  BY DEF DialTypes, DialInv
<1>3. Exact(static \ {n}, staticPool \ {n}, task, connected, history)
  BY <1>1 DEF Exact, DialInv, DialTypes
<1> QED BY <1>1, <1>2, <1>3, LaunchGives DEF DialInv

LEMMA ExpireHistoryKeeps ==
    ASSUME DialInv, NEW E \in SUBSET history, ExpireHistory(E)
    PROVE  DialInv'
<1> DEFINE pool == updateStaticPool(E, staticPool, task, connected, history \ E)
<1>1. /\ dialLoop
      /\ Launch(pool, task, dialPeers, history \ E)
      /\ UNCHANGED <<static, connected, dialPeers, dialLoop>>
  BY DEF ExpireHistory
<1>2. DialTypes(static, task, connected, dialPeers, history \ E)
  BY DEF DialTypes, DialInv
<1>3. Exact(static, pool, task, connected, history \ E)
  BY <1>1 DEF Exact, updateStaticPool, checkDial, DialInv, DialTypes
<1> HIDE DEF pool
<1> QED BY <1>1, <1>2, <1>3, LaunchGives DEF DialInv

\* A dialed peer is counted when its task stops being undecided.
LEMMA PeerDialedKeeps ==
    ASSUME DialInv, NEW n \in Nodes, task[n] = "proto",
           PeerAdded(n, TRUE, [task EXCEPT ![n] = "done"])
    PROVE  DialInv' /\ dialPeers' = dialPeers + 1 /\ connected' = connected \cup {n} /\ dialLoop'
<1> DEFINE tk == [task EXCEPT ![n] = "done"]
           count == dialPeers + 1
           pe == connected \cup {n}
<1>1. /\ dialLoop
      /\ dialPeers' = count
      /\ connected' = pe
      /\ Launch(staticPool \ {n}, tk, count, history)
      /\ UNCHANGED <<static, dialLoop>>
  BY DEF PeerAdded
<1>2. DialTypes(static, tk, pe, count, history)
  BY DEF DialTypes, DialInv, Stages
<1>3. Undecided(tk) = Undecided(task) \ {n} /\ n \in Undecided(task)
  BY DEF Undecided, DialInv, DialTypes
<1>4. DialSum(tk, count)
  <2>1. IsFiniteSet(Undecided(task)) /\ Cardinality(Undecided(task)) \in Nat
    BY UndecidedDialing, NodeSets
  <2>2. Cardinality(Undecided(tk)) = Cardinality(Undecided(task)) - 1
    BY Zenon, <1>3, <2>1, FS_RemoveElement
  <2> QED BY <2>1, <2>2, DialAssumption DEF DialSum, DialInv, DialTypes
<1>5. Exact(static, staticPool \ {n}, tk, pe, history)
  BY <1>1 DEF Exact, checkDial, DialInv, DialTypes
<1>6. DialInv'
  <2> HIDE DEF tk, count, pe
  <2> QED BY <1>1, <1>2, <1>4, <1>5, LaunchGives
<1> QED BY <1>1, <1>6

LEMMA PeerAcceptedKeeps ==
    ASSUME DialInv, NEW n \in Nodes, PeerAdded(n, FALSE, task)
    PROVE  DialInv' /\ dialPeers' = dialPeers /\ connected' = connected \cup {n} /\ dialLoop'
<1>1. /\ dialLoop
      /\ dialPeers' = dialPeers
      /\ connected' = connected \cup {n}
      /\ Launch(staticPool \ {n}, task, dialPeers, history)
      /\ UNCHANGED <<static, dialLoop>>
  BY DEF PeerAdded
<1>2. DialTypes(static, task, connected \cup {n}, dialPeers, history)
  BY DEF DialTypes, DialInv
<1>3. Exact(static, staticPool \ {n}, task, connected \cup {n}, history)
  BY <1>1 DEF Exact, checkDial, DialInv, DialTypes
<1>4. DialInv'
  BY <1>1, <1>2, <1>3, LaunchGives DEF DialInv
<1> QED BY <1>1, <1>4

LEMMA PeerRemovedKeeps ==
    ASSUME DialInv, NEW n \in Nodes, NEW dialed \in BOOLEAN, dialed => dialPeers >= 1,
           PeerRemoved(n, dialed)
    PROVE  /\ DialInv'
           /\ dialPeers' = IF dialed THEN dialPeers - 1 ELSE dialPeers
           /\ connected' = connected \ {n}
           /\ dialLoop'
<1> DEFINE count == IF dialed THEN dialPeers - 1 ELSE dialPeers
           pe == connected \ {n}
           pool == updateStaticPool({n}, staticPool, task, pe, history)
<1>1. /\ dialLoop
      /\ dialPeers' = count
      /\ connected' = pe
      /\ Launch(pool, task, count, history)
      /\ UNCHANGED <<static, dialLoop>>
  BY DEF PeerRemoved
<1>2. count \in Nat /\ count <= dialPeers
  BY DEF DialInv, DialTypes
<1>3. DialTypes(static, task, pe, count, history)
  BY <1>2 DEF DialTypes, DialInv
<1>4. DialSum(task, count)
  BY <1>2, UndecidedDialing, DialAssumption DEF DialSum, DialInv, DialTypes
<1>5. Exact(static, pool, task, pe, history)
  BY <1>1 DEF Exact, updateStaticPool, checkDial, DialInv, DialTypes
<1>6. DialInv'
  <2> HIDE DEF count, pe, pool
  <2> QED BY <1>1, <1>3, <1>4, <1>5, LaunchGives
<1> QED BY <1>1, <1>6

\* After the loop only the tasks are awaited.
LEMMA TaskAwaitedKeeps ==
    ASSUME DialInv, NEW n \in Nodes, TaskAwaited(n)
    PROVE  DialInv'
<1>1. /\ ~dialLoop /\ task[n] = "done"
      /\ task' = [task EXCEPT ![n] = "none"]
      /\ UNCHANGED <<static, staticPool, connected, dialPeers, history, reading, dialLoop>>
  BY DEF TaskAwaited
<1>2. DialTypes(static', task', connected', dialPeers', history')
  BY <1>1 DEF DialTypes, DialInv, Stages
<1>3. Undecided(task') = Undecided(task)
  BY <1>1 DEF Undecided, DialInv, DialTypes
<1>4. DialSum(task', dialPeers')
  BY <1>1, <1>3 DEF DialSum, DialInv
<1> QED BY <1>1, <1>2, <1>4 DEF DialInv

-----------------------------------------------------------------------------

\* A step that keeps the peer set, its directions and the counts.
LEMMA PeersStay ==
    ASSUME PeerInv,
           phase' \in [Nodes -> Phases],
           \A n \in Nodes : phase'[n] = "none" <=> phase[n] = "none",
           loop' \in Loops, Serving' => Serving, dialLoop' <=> loop' \notin {"stop", "done"},
           slotNode' \in [Slots -> Nodes],
           UNCHANGED <<inbound, inboundCount, connected, dialPeers>>
    PROVE  PeerInv'
<1>1. peers' = peers
  BY DEF peers
<1> QED BY <1>1 DEF PeerInv, DialerAgrees

\* The peer set grows by a dialed peer, or by an accepted one.
LEMMA DialedJoins ==
    ASSUME PeerInv, loop = "select", NEW n \in Nodes \ peers,
           phase' = [phase EXCEPT ![n] = "adding"],
           dialPeers \in Nat, dialPeers' = dialPeers + 1, connected' = connected \cup {n},
           dialLoop', UNCHANGED <<loop, inbound, inboundCount, slotNode>>
    PROVE  PeerInv'
<1>1. peers' = peers \cup {n} /\ phase' \in [Nodes -> Phases]
  BY DEF peers, PeerInv, Phases
<1>2. Serving /\ Serving'
  BY DEF Serving
<1>3. /\ connected = peers /\ inbound \subseteq peers
      /\ dialPeers = Cardinality(peers \ inbound) /\ inboundCount = Cardinality(inbound)
  BY <1>2 DEF PeerInv, DialerAgrees
<1>4. peers' \ inbound' = (peers \ inbound) \cup {n} /\ n \notin peers \ inbound
  BY <1>1, <1>3
<1>5. IsFiniteSet(peers \ inbound)
  BY NodeSets DEF peers
<1>6. Cardinality(peers' \ inbound') = Cardinality(peers \ inbound) + 1
  BY <1>4, <1>5, FS_AddElement
<1>7. DialerAgrees' /\ Cardinality(peers' \ inbound') <= dialPeers'
  BY <1>1, <1>3, <1>6 DEF DialerAgrees
<1> QED BY <1>1, <1>7 DEF PeerInv

LEMMA AcceptedJoins ==
    ASSUME PeerInv, loop = "select", NEW n \in Nodes \ peers,
           phase' = [phase EXCEPT ![n] = "adding"],
           inbound' = inbound \cup {n}, inboundCount' = inboundCount + 1,
           dialPeers \in Nat, dialPeers' = dialPeers, connected' = connected \cup {n},
           dialLoop', UNCHANGED loop, slotNode' \in [Slots -> Nodes]
    PROVE  PeerInv'
<1>1. peers' = peers \cup {n} /\ phase' \in [Nodes -> Phases]
  BY DEF peers, PeerInv, Phases
<1>2. Serving /\ Serving'
  BY DEF Serving
<1>3. /\ connected = peers /\ inbound \subseteq peers
      /\ dialPeers = Cardinality(peers \ inbound) /\ inboundCount = Cardinality(inbound)
  BY <1>2 DEF PeerInv, DialerAgrees
<1>4. peers' \ inbound' = peers \ inbound /\ n \notin inbound
  BY <1>1, <1>3
<1>5. IsFiniteSet(inbound)
  BY NodeSets DEF PeerInv
<1>6. Cardinality(inbound') = Cardinality(inbound) + 1
  BY Zenon, <1>4, <1>5, FS_AddElement
<1>7. DialerAgrees' /\ Cardinality(peers' \ inbound') <= dialPeers'
  <2>1. inboundCount' = Cardinality(inbound')
    BY <1>3, <1>6
  <2>2. dialPeers' = Cardinality(peers' \ inbound')
    BY <1>3, <1>4
  <2>3. connected' = peers' /\ inbound' \subseteq peers'
    BY <1>1, <1>3
  <2> QED BY <2>1, <2>2, <2>3 DEF DialerAgrees
<1>8. inbound' \in SUBSET Nodes
  BY DEF PeerInv
<1> QED BY <1>1, <1>7, <1>8 DEF PeerInv

\* A peer leaves while the loop serves, and while it spins down.
LEMMA PeerLeaves ==
    ASSUME PeerInv, loop = "select", NEW n \in peers,
           phase' = [phase EXCEPT ![n] = "none"],
           inbound' = inbound \ {n},
           inboundCount' = IF n \in inbound THEN inboundCount - 1 ELSE inboundCount,
           dialPeers \in Nat,
           dialPeers' = IF n \notin inbound THEN dialPeers - 1 ELSE dialPeers,
           connected' = connected \ {n}, dialLoop', UNCHANGED <<loop, slotNode>>
    PROVE  PeerInv'
<1>1. peers' = peers \ {n} /\ phase' \in [Nodes -> Phases] /\ n \in Nodes
  BY DEF peers, PeerInv, Phases
<1>2. Serving /\ Serving'
  BY DEF Serving
<1>3. /\ connected = peers /\ inbound \subseteq peers
      /\ dialPeers = Cardinality(peers \ inbound) /\ inboundCount = Cardinality(inbound)
  BY <1>2 DEF PeerInv, DialerAgrees
<1>4. peers' \ inbound' = (peers \ inbound) \ {n}
  BY <1>1
<1>5. IsFiniteSet(inbound) /\ IsFiniteSet(peers \ inbound)
  BY NodeSets DEF PeerInv, peers
<1>6. /\ Cardinality(inbound') = IF n \in inbound THEN Cardinality(inbound) - 1 ELSE Cardinality(inbound)
      /\ Cardinality(peers' \ inbound') = IF n \in peers \ inbound THEN Cardinality(peers \ inbound) - 1
                                          ELSE Cardinality(peers \ inbound)
  BY ZenonT(40), <1>4, <1>5, FS_RemoveElement
<1>7. /\ Cardinality(inbound') = inboundCount'
      /\ Cardinality(peers' \ inbound') = dialPeers'
  BY <1>3, <1>6
<1>8. connected' = peers' /\ inbound' \subseteq peers'
  BY <1>1, <1>3
<1>9. DialerAgrees' /\ Cardinality(peers' \ inbound') <= dialPeers'
  <2>1. Cardinality(peers' \ inbound') \in Nat
    BY <1>1, <1>5, NodeSets DEF peers
  <2> QED BY <1>7, <1>8, <2>1 DEF DialerAgrees
<1>10. inbound' \in SUBSET Nodes
  BY DEF PeerInv
<1> QED BY <1>1, <1>9, <1>10 DEF PeerInv

LEMMA PeerDrains ==
    ASSUME PeerInv, loop = "drain", NEW n \in peers,
           phase' = [phase EXCEPT ![n] = "none"],
           inbound' = inbound \ {n}, dialPeers \in Nat,
           UNCHANGED <<loop, dialPeers, dialLoop, slotNode>>
    PROVE  PeerInv'
<1>1. peers' = peers \ {n} /\ phase' \in [Nodes -> Phases]
  BY DEF peers, PeerInv, Phases
<1>2. peers' \ inbound' \in SUBSET (peers \ inbound)
  BY <1>1
<1>3. IsFiniteSet(peers \ inbound) /\ IsFiniteSet(peers' \ inbound')
  BY NodeSets, <1>1 DEF peers
<1>4. Cardinality(peers' \ inbound') <= Cardinality(peers \ inbound)
  BY <1>2, <1>3, FS_Subset
<1>5. Cardinality(peers' \ inbound') <= dialPeers'
  BY <1>3, <1>4, FS_CardinalityType DEF PeerInv
<1>6. ~Serving'
  BY DEF Serving
<1> QED BY <1>1, <1>5, <1>6 DEF PeerInv, DialerAgrees

\* The peers are the nodes with a phase, and a served loop has its dial loop.
LEMMA DialStepKeeps ==
    ASSUME IInv, DialStep
    PROVE  IInv'
<1>1. UNCHANGED serverVars
  BY DEF DialStep
<1>2. DialInv' /\ UNCHANGED <<connected, dialPeers, dialLoop>>
  <2>1. CASE \E n \in Nodes : NodeRead(n)
    BY <2>1, NodeReadKeeps DEF IInv, NodeRead
  <2>2. CASE \E n \in Nodes : TaskDone(n)
    BY <2>2, TaskDoneKeeps DEF IInv, TaskDone
  <2>3. CASE \E n \in Static : AddStatic(n)
    BY <2>3, AddStaticKeeps, ServerAssumption DEF IInv, AddStatic
  <2>4. CASE \E E \in SUBSET history : ExpireHistory(E)
    BY <2>4, ExpireHistoryKeeps DEF IInv, ExpireHistory
  <2>5. CASE \E n \in Nodes : DialFails(n)
    BY Zenon, <2>5, TaskMoves DEF IInv, DialFails
  <2>6. CASE \E n \in Nodes : TaskAwaited(n)
    BY ZenonT(40), <2>6, TaskAwaitedKeeps DEF IInv, TaskAwaited
  <2> QED BY <2>1, <2>2, <2>3, <2>4, <2>5, <2>6 DEF DialStep
<1>3. PeerInv'
  BY <1>1, <1>2, PeersStay DEF IInv, PeerInv, serverVars, Serving
<1> QED BY <1>2, <1>3 DEF IInv

\* The steps of SetupConn and the two checkpoints.
LEMMA SetupKeeps ==
    ASSUME IInv,
           \/ \E n \in Nodes : DialConnects(n) \/ PostHandshakeDialed(n) \/ AddPeerDialed(n)
           \/ \E i \in Slots : Accept(i) \/ AddPeerAccepted(i)
           \/ \E i \in Slots, n \in Nodes : PostHandshakeAccepted(i, n)
           \/ \E c \in Nodes \cup Slots : SetupFails(c)
    PROVE  IInv'
<1>1. ASSUME NEW n \in Nodes, DialConnects(n) PROVE IInv'
  <2>1. DialInv' BY ZenonT(40), <1>1, TaskMoves DEF IInv, DialConnects
  <2>2. PeerInv' BY <1>1, PeersStay DEF IInv, PeerInv, DialConnects, serverVars, Serving
  <2> QED BY <2>1, <2>2 DEF IInv
<1>2. ASSUME NEW n \in Nodes, PostHandshakeDialed(n) PROVE IInv'
  <2>1. DialInv' BY ZenonT(40), <1>2, TaskMoves DEF IInv, PostHandshakeDialed
  <2>2. PeerInv' BY <1>2, PeersStay DEF IInv, PeerInv, PostHandshakeDialed, Serving
  <2> QED BY <2>1, <2>2 DEF IInv
<1>3. ASSUME NEW n \in Nodes, AddPeerDialed(n) PROVE IInv'
  <2>1. CASE addPeerChecks(n, FALSE, n \in flagged)
    <3>1. DialInv' /\ dialPeers' = dialPeers + 1 /\ connected' = connected \cup {n} /\ dialLoop'
      BY Zenon, <1>3, <2>1, PeerDialedKeeps DEF IInv, AddPeerDialed
    <3>2. n \in Nodes \ peers
      BY <2>1 DEF addPeerChecks, postHandshakeChecks
    <3>3. PeerInv'
      BY <1>3, <2>1, <3>1, <3>2, DialedJoins DEF IInv, DialInv, DialTypes, AddPeerDialed
    <3> QED BY <3>1, <3>3 DEF IInv
  <2>2. CASE ~addPeerChecks(n, FALSE, n \in flagged)
    <3>1. DialInv' BY ZenonT(40), <1>3, <2>2, TaskMoves DEF IInv, AddPeerDialed
    <3>2. PeerInv' BY <1>3, <2>2, PeersStay DEF IInv, PeerInv, AddPeerDialed, Serving
    <3> QED BY <3>1, <3>2 DEF IInv
  <2> QED BY Zenon, <2>1, <2>2
<1>4. ASSUME NEW i \in Slots, Accept(i) PROVE IInv'
  <2>1. DialInv' BY ZenonT(40), <1>4, DialStays DEF IInv, Accept
  <2>2. PeerInv' BY Zenon, <1>4, PeersStay DEF IInv, PeerInv, Accept, Serving, dialVars
  <2> QED BY <2>1, <2>2 DEF IInv
<1>5. ASSUME NEW i \in Slots, AddPeerAccepted(i) PROVE IInv'
  <2> DEFINE n == slotNode[i]
  <2>1. n \in Nodes /\ slotNode' \in [Slots -> Nodes]
    BY <1>5, DialAssumption DEF IInv, PeerInv, AddPeerAccepted
  <2>2. CASE addPeerChecks(n, TRUE, i \in flagged)
    <3>1. DialInv' /\ dialPeers' = dialPeers /\ connected' = connected \cup {n} /\ dialLoop'
      BY Zenon, <1>5, <2>1, <2>2, PeerAcceptedKeeps DEF IInv, AddPeerAccepted
    <3>2. n \in Nodes \ peers
      BY Zenon, <2>1, <2>2 DEF addPeerChecks, postHandshakeChecks
    <3>3. PeerInv'
      BY Zenon, <1>5, <2>1, <2>2, <3>1, <3>2, AcceptedJoins DEF IInv, DialInv, DialTypes, AddPeerAccepted
    <3> QED BY <3>1, <3>3 DEF IInv
  <2>3. CASE ~addPeerChecks(n, TRUE, i \in flagged)
    <3>1. DialInv' BY ZenonT(40), <1>5, <2>3, DialStays DEF IInv, AddPeerAccepted
    <3>2. PeerInv' BY <1>5, <2>1, <2>3, PeersStay DEF IInv, PeerInv, AddPeerAccepted, Serving, dialVars
    <3> QED BY <3>1, <3>2 DEF IInv
  <2> QED BY Zenon, <2>2, <2>3
<1>6. ASSUME NEW i \in Slots, NEW n \in Nodes, PostHandshakeAccepted(i, n) PROVE IInv'
  <2>1. DialInv' BY <1>6, DialStays DEF IInv, PostHandshakeAccepted
  <2>2. PeerInv' BY Zenon, <1>6, PeersStay DEF IInv, PeerInv, PostHandshakeAccepted, Serving, dialVars
  <2> QED BY <2>1, <2>2 DEF IInv
<1>7. ASSUME NEW c \in Nodes \cup Slots, SetupFails(c) PROVE IInv'
  <2>1. DialInv'
    <3>1. CASE c \in Nodes /\ task[c] \in {"enc", "proto"} /\ task' = [task EXCEPT ![c] = "done"]
      BY Zenon, <1>7, <3>1, TaskMoves DEF IInv, SetupFails
    <3>2. CASE UNCHANGED task
      BY <1>7, <3>2, DialStays DEF IInv, SetupFails, dialVars
    <3> QED BY <1>7, <3>1, <3>2 DEF SetupFails
  <2>2. slotNode' \in [Slots -> Nodes]
    BY ZenonT(40), <1>7, DialAssumption DEF IInv, PeerInv, SetupFails
  <2>3. PeerInv' BY <1>7, <2>2, PeersStay DEF IInv, PeerInv, SetupFails, Serving
  <2> QED BY <2>1, <2>3 DEF IInv
<1> QED BY <1>1, <1>2, <1>3, <1>4, <1>5, <1>6, <1>7

\* The other events of the run loop.
LEMMA RunLoopKeeps ==
    ASSUME IInv,
           \/ \E n \in Nodes : DelPeer(n) \/ Disconnected(n) \/ DrainPeer(n)
           \/ \E n \in Trusted : AddTrusted(n) \/ RemoveTrusted(n)
           \/ \E r \in Callers, n \in Removable : RemovePeer(r, n)
           \/ LoopQuits \/ StopDialer \/ LoopDone
    PROVE  IInv'
<1>1. ASSUME NEW n \in Nodes, DelPeer(n) PROVE IInv'
  <2>1. n \in peers
    BY <1>1 DEF DelPeer, peers
  <2>2. n \notin inbound => dialPeers >= 1
    <3>1. dialPeers = Cardinality(peers \ inbound) /\ dialPeers \in Nat
      BY <1>1 DEF IInv, PeerInv, DialerAgrees, Serving, DelPeer, DialInv, DialTypes
    <3>2. IsFiniteSet(peers \ inbound)
      BY NodeSets DEF peers
    <3> QED BY SMTT(30), Z3T(30), <2>1, <3>1, <3>2, FS_EmptySet
  <2>3. PeerRemoved(n, n \notin inbound)
    BY <1>1 DEF DelPeer
  <2>4. /\ DialInv'
        /\ dialPeers' = IF n \notin inbound THEN dialPeers - 1 ELSE dialPeers
        /\ connected' = connected \ {n}
        /\ dialLoop'
    <3> DEFINE d == n \notin inbound
    <3>1. d \in BOOLEAN /\ (d => dialPeers >= 1) /\ PeerRemoved(n, d)
      BY <2>2, <2>3
    <3> HIDE DEF d
    <3>2. /\ DialInv'
          /\ dialPeers' = IF d THEN dialPeers - 1 ELSE dialPeers
          /\ connected' = connected \ {n}
          /\ dialLoop'
      BY <3>1, PeerRemovedKeeps DEF IInv
    <3> QED BY <3>2 DEF d
  <2>5. PeerInv'
    BY Zenon, <1>1, <2>1, <2>4, PeerLeaves DEF IInv, DelPeer, DialInv, DialTypes
  <2> QED BY <2>4, <2>5 DEF IInv
<1>2. ASSUME NEW n \in Nodes, Disconnected(n) PROVE IInv'
  <2>1. DialInv' BY <1>2, DialStays DEF IInv, Disconnected
  <2>2. /\ phase' \in [Nodes -> Phases]
        /\ \A m \in Nodes : phase'[m] = "none" <=> phase[m] = "none"
    BY <1>2 DEF IInv, PeerInv, Disconnected, Phases
  <2>3. loop' \in Loops /\ (Serving' => Serving) /\ loop' \notin {"stop", "done"} /\ dialLoop'
    BY <1>2 DEF IInv, PeerInv, Disconnected, Serving, Loops, dialVars
  <2>4. slotNode' = slotNode /\ UNCHANGED <<inbound, inboundCount, connected, dialPeers>>
    BY <1>2 DEF Disconnected, dialVars
  <2>5. PeerInv' BY <2>2, <2>3, <2>4, PeersStay DEF IInv, PeerInv
  <2> QED BY <2>1, <2>5 DEF IInv
<1>3. ASSUME NEW n \in Nodes, DrainPeer(n) PROVE IInv'
  <2>1. DialInv' BY <1>3, DialStays DEF IInv, DrainPeer
  <2>2. n \in peers BY <1>3 DEF DrainPeer, peers
  <2>3. PeerInv'
    BY Zenon, <1>3, <2>2, PeerDrains DEF IInv, DialInv, DialTypes, DrainPeer, dialVars
  <2> QED BY <2>1, <2>3 DEF IInv
<1>4. ASSUME NEW n \in Nodes, AddTrusted(n) \/ RemoveTrusted(n) PROVE IInv'
  <2>1. DialInv' BY ZenonT(40), <1>4, DialStays DEF IInv, AddTrusted, RemoveTrusted
  <2>2. PeerInv' BY <1>4, PeersStay DEF IInv, PeerInv, AddTrusted, RemoveTrusted, Serving, dialVars
  <2> QED BY <2>1, <2>2 DEF IInv
<1>5. ASSUME NEW r \in Callers, NEW n \in Nodes, RemovePeer(r, n) PROVE IInv'
  <2>1. DialInv' BY ZenonT(40), <1>5, RemoveStaticKeeps DEF IInv, RemovePeer
  <2>2. /\ UNCHANGED <<connected, dialPeers, dialLoop>>
        /\ loop = "select" /\ loop' \in {"select", "disconnect"}
        /\ UNCHANGED <<phase, inbound, inboundCount, slotNode>>
    BY <1>5 DEF RemovePeer, RemoveStatic
  <2>3. PeerInv' BY <2>2, PeersStay DEF IInv, PeerInv, Serving, Loops
  <2> QED BY <2>1, <2>3 DEF IInv
<1>6. ASSUME LoopQuits PROVE IInv'
  <2>1. DialInv' BY ZenonT(40), <1>6, DialStays DEF IInv, LoopQuits
  <2>2. PeerInv' BY <1>6, PeersStay DEF IInv, PeerInv, LoopQuits, Serving, Loops, dialVars
  <2> QED BY <2>1, <2>2 DEF IInv
<1>7. ASSUME StopDialer PROVE IInv'
  <2>1. DialInv'
    BY ZenonT(30), <1>7 DEF IInv, DialInv, StopDialer, CtxDone
  <2>2. PeerInv' BY <1>7, PeersStay DEF IInv, PeerInv, StopDialer, CtxDone, Serving, Loops
  <2> QED BY <2>1, <2>2 DEF IInv
<1>8. ASSUME LoopDone PROVE IInv'
  <2>1. DialInv' BY ZenonT(40), <1>8, DialStays DEF IInv, LoopDone
  <2>2. PeerInv' BY <1>8, PeersStay DEF IInv, PeerInv, LoopDone, Serving, Loops, dialVars
  <2> QED BY <2>1, <2>2 DEF IInv
<1> QED BY <1>1, <1>2, <1>3, <1>4, <1>5, <1>6, <1>7, <1>8, ServerAssumption

\* The peers' goroutines, the feed, the callers and Stop.
LEMMA SendOverKeeps ==
    ASSUME PeerInv, NEW e \in Events, NEW left, SendOver(e, left),
           e[1] = "add" => phase[e[2]] = "adding"
    PROVE  /\ phase' \in [Nodes -> Phases]
           /\ \A n \in Nodes : phase'[n] = "none" <=> phase[n] = "none"
           /\ SendInv'
<1>1. e[2] \in Nodes /\ phase \in [Nodes -> Phases]
  BY Zenon DEF Events, PeerInv
<1>2. CASE left = {} /\ e[1] = "add"
  <2>1. phase' = [phase EXCEPT ![e[2]] = "running"] /\ sending' = None
    BY <1>2 DEF SendOver
  <2> QED BY <1>1, <1>2, <2>1 DEF Phases, SendInv
<1>3. CASE ~(left = {} /\ e[1] = "add")
  <2>1. phase' = phase /\ (sending' = None \/ sending' = [event |-> e, left |-> left])
    BY <1>3 DEF SendOver
  <2> QED BY <1>1, <2>1 DEF SendInv
<1> QED BY Zenon, <1>2, <1>3

LEMMA PeerStepKeeps ==
    ASSUME IInv, SendInv,
           \/ \E n \in Nodes : PeerEnds(n)
           \/ \E e \in Events : Send(e)
           \/ \E r \in Callers : Deliver(r) \/ Receive(r)
           \/ Stop
    PROVE  IInv' /\ SendInv'
<1> DEFINE Rest == UNCHANGED <<loop, inbound, inboundCount, slotNode, dialVars>>
<1>1. Rest
  BY Zenon DEF PeerEnds, Send, Deliver, Receive, Stop
<1>2. /\ phase' \in [Nodes -> Phases]
      /\ \A n \in Nodes : phase'[n] = "none" <=> phase[n] = "none"
      /\ SendInv'
  <2>1. ASSUME NEW n \in Nodes, PeerEnds(n)
        PROVE  /\ phase' \in [Nodes -> Phases]
               /\ \A m \in Nodes : phase'[m] = "none" <=> phase[m] = "none"
               /\ SendInv'
    BY Zenon, <2>1 DEF PeerEnds, IInv, PeerInv, Phases, SendInv, Events
  <2>2. ASSUME NEW e \in Events, Send(e)
        PROVE  /\ phase' \in [Nodes -> Phases]
               /\ \A m \in Nodes : phase'[m] = "none" <=> phase[m] = "none"
               /\ SendInv'
    BY <2>2, SendOverKeeps DEF Send, IInv
  <2>3. ASSUME NEW r \in Callers, Deliver(r)
        PROVE  /\ phase' \in [Nodes -> Phases]
               /\ \A m \in Nodes : phase'[m] = "none" <=> phase[m] = "none"
               /\ SendInv'
    BY <2>3, SendOverKeeps DEF Deliver, IInv, SendInv
  <2>4. ASSUME NEW r \in Callers, Receive(r)
        PROVE  /\ phase' \in [Nodes -> Phases]
               /\ \A m \in Nodes : phase'[m] = "none" <=> phase[m] = "none"
               /\ SendInv'
    <3>1. CASE UNCHANGED <<sending, phase>>
      BY Zenon, <3>1 DEF IInv, PeerInv, SendInv
    <3>2. CASE sending # None /\ SendOver(sending.event, sending.left \ {r})
      BY Zenon, <3>2, SendOverKeeps DEF IInv, SendInv
    <3> QED BY Zenon, <2>4, <3>1, <3>2 DEF Receive
  <2>5. ASSUME Stop
        PROVE  /\ phase' \in [Nodes -> Phases]
               /\ \A m \in Nodes : phase'[m] = "none" <=> phase[m] = "none"
               /\ SendInv'
    BY Zenon, <2>5 DEF Stop, IInv, PeerInv, SendInv
  <2> QED BY ZenonT(40), <2>1, <2>2, <2>3, <2>4, <2>5
<1>3. DialInv'
  BY Zenon, <1>1, DialStays DEF IInv
<1>4. PeerInv'
  BY <1>1, <1>2, PeersStay DEF IInv, PeerInv, Serving, dialVars
<1> QED BY <1>2, <1>3, <1>4 DEF IInv

\* No other step starts a peer or sends an event.
LEMMA SendStays ==
    ASSUME IInv, SendInv,
           \/ DialStep
           \/ \E n \in Nodes : \/ DialConnects(n) \/ PostHandshakeDialed(n) \/ AddPeerDialed(n)
                               \/ DelPeer(n) \/ Disconnected(n) \/ DrainPeer(n)
           \/ \E i \in Slots : Accept(i) \/ AddPeerAccepted(i)
           \/ \E i \in Slots, n \in Nodes : PostHandshakeAccepted(i, n)
           \/ \E c \in Nodes \cup Slots : SetupFails(c)
           \/ \E n \in Trusted : AddTrusted(n) \/ RemoveTrusted(n)
           \/ \E r \in Callers, n \in Removable : RemovePeer(r, n)
           \/ LoopQuits \/ StopDialer \/ LoopDone
    PROVE  SendInv'
<1>1. sending' = sending
  BY Zenon DEF DialStep, serverVars, DialConnects, PostHandshakeDialed, AddPeerDialed, DelPeer,
         Disconnected, DrainPeer, Accept, AddPeerAccepted, PostHandshakeAccepted, SetupFails,
         AddTrusted, RemoveTrusted, RemovePeer, LoopQuits, StopDialer, LoopDone
<1>2. \A n \in Nodes : phase[n] = "adding" => phase'[n] = "adding"
  <2> USE DEF IInv, PeerInv
  <2>1. CASE UNCHANGED phase
    BY <2>1
  <2>2. CASE \E n \in Nodes : AddPeerDialed(n)
    BY Zenon, <2>2 DEF AddPeerDialed
  <2>3. CASE \E i \in Slots : AddPeerAccepted(i)
    BY Zenon, <2>3 DEF AddPeerAccepted
  <2>4. CASE \E n \in Nodes : DelPeer(n) \/ Disconnected(n) \/ DrainPeer(n)
    BY <2>4 DEF DelPeer, Disconnected, DrainPeer
  <2> QED
    BY ZenonT(40), <2>1, <2>2, <2>3, <2>4
    DEF DialStep, serverVars, DialConnects, PostHandshakeDialed, Accept, PostHandshakeAccepted,
        SetupFails, AddTrusted, RemoveTrusted, RemovePeer, LoopQuits, StopDialer, LoopDone
<1> QED BY Zenon, <1>1, <1>2 DEF SendInv, Events

\* The invariant is inductive.
THEOREM Invariance == Spec => [](IInv /\ SendInv)
<1>1. Init => IInv /\ SendInv
  BY ZenonT(40), InitIInv DEF SendInv, Init
<1>2. IInv /\ SendInv /\ [Next]_vars => (IInv /\ SendInv)'
  <2> SUFFICES ASSUME IInv, SendInv, [Next]_vars PROVE (IInv /\ SendInv)'
    OBVIOUS
  <2>1. CASE DialStep
    BY <2>1, DialStepKeeps, SendStays
  <2>2. CASE \E n \in Nodes : DialConnects(n) \/ PostHandshakeDialed(n) \/ AddPeerDialed(n)
    BY <2>2, SetupKeeps, SendStays
  <2>3. CASE \E i \in Slots : Accept(i) \/ AddPeerAccepted(i)
    BY <2>3, SetupKeeps, SendStays
  <2>4. CASE \E i \in Slots, n \in Nodes : PostHandshakeAccepted(i, n)
    BY <2>4, SetupKeeps, SendStays
  <2>5. CASE \E c \in Nodes \cup Slots : SetupFails(c)
    BY <2>5, SetupKeeps, SendStays
  <2>6. CASE \E n \in Nodes : DelPeer(n) \/ Disconnected(n) \/ DrainPeer(n)
    BY <2>6, RunLoopKeeps, SendStays
  <2>7. CASE \E n \in Trusted : AddTrusted(n) \/ RemoveTrusted(n)
    BY <2>7, RunLoopKeeps, SendStays
  <2>8. CASE \E r \in Callers, n \in Removable : RemovePeer(r, n)
    BY <2>8, RunLoopKeeps, SendStays
  <2>9. CASE LoopQuits \/ StopDialer \/ LoopDone
    BY <2>9, RunLoopKeeps, SendStays
  <2>10. CASE \/ \E n \in Nodes : PeerEnds(n)
              \/ \E e \in Events : Send(e)
              \/ \E r \in Callers : Deliver(r) \/ Receive(r)
              \/ Stop
    BY <2>10, PeerStepKeeps
  <2>11. CASE UNCHANGED vars
    BY Zenon, <2>11 DEF vars, dialVars, serverVars, IInv, DialInv, PeerInv, SendInv, DialerAgrees,
                 Serving, peers
  <2> QED BY <2>1, <2>2, <2>3, <2>4, <2>5, <2>6, <2>7, <2>8, <2>9, <2>10, <2>11 DEF Next
<1> QED BY <1>1, <1>2, PTL DEF Spec

\* The dial loop's peers and its count of dialed peers, and the run loop's
\* count of inbound ones, are those of the peer set, no static node is
\* forgotten and none is launched too early, and candidates from discovery come
\* after the static nodes, for every number of nodes and every limit.
\* (p2p/server.go run, p2p/dial.go loop)
THEOREM DialerCorrect == Spec => []DialerSound
<1>1. IInv => DialerAgrees
  BY DEF IInv, PeerInv
<1>2. IInv => PoolExact /\ StaticFirst
  BY DEF IInv, DialInv, PoolExact, StaticFirst, Exact, ReadOK
<1>3. IInv => DialerSound
  BY <1>1, <1>2 DEF DialerSound
<1> QED BY <1>3, Invariance, PTL

\* Dialed peers and undecided dials stay within twice the limit.
\* (p2p/dial.go freeDialSlots)
THEOREM DialLimit == Spec => []DialedBounded
<1>1. ASSUME IInv PROVE DialedBounded
  <2>1. /\ Cardinality(peers \ inbound) <= dialPeers
        /\ dialPeers + Cardinality(Undecided(task)) <= 2 * maxDialPeers
        /\ dialPeers \in Nat
    BY <1>1 DEF IInv, PeerInv, DialInv, DialSum, DialTypes
  <2>2. Cardinality(peers \ inbound) \in Nat
    BY NodeSets DEF peers
  <2>3. Cardinality(Undecided(task)) \in Nat
    BY Zenon, UndecidedDialing
  <2> QED BY <2>1, <2>2, <2>3, DialAssumption DEF DialedBounded
<1> QED BY <1>1, Invariance, PTL

-----------------------------------------------------------------------------

\* The limits, with what makes them inductive: the flag of a pending
\* connection shows that its node was trusted once, and goes when it ends.
LimitInv ==
    /\ slot \in [Slots -> {"free", "enc", "proto"}]
    /\ trusted \subseteq wasTrusted
    /\ \A n \in Nodes : n \in flagged => n \in wasTrusted
    /\ \A i \in Slots : i \in flagged => slot[i] = "proto" /\ slotNode[i] \in wasTrusted
    /\ LimitsHold

\* Fewer peers and more nodes that were trusted keep the limits.
LEMMA LimitsShrink ==
    ASSUME LimitInv, peers' \subseteq peers, inbound' \subseteq inbound, inbound \in SUBSET Nodes,
           wasTrusted \subseteq wasTrusted'
    PROVE  LimitsHold'
<1>1. /\ peers' \ wasTrusted' \in SUBSET (peers \ wasTrusted)
      /\ inbound' \ wasTrusted' \in SUBSET (inbound \ wasTrusted)
  OBVIOUS
<1>2. /\ IsFiniteSet(peers \ wasTrusted) /\ IsFiniteSet(inbound \ wasTrusted)
      /\ Cardinality(peers \ wasTrusted) \in Nat /\ Cardinality(inbound \ wasTrusted) \in Nat
  BY Zenon, NodeSets DEF peers
<1>3. /\ IsFiniteSet(peers' \ wasTrusted') /\ IsFiniteSet(inbound' \ wasTrusted')
      /\ Cardinality(peers' \ wasTrusted') <= Cardinality(peers \ wasTrusted)
      /\ Cardinality(inbound' \ wasTrusted') <= Cardinality(inbound \ wasTrusted)
  BY <1>1, <1>2, FS_Subset
<1>4. Cardinality(peers' \ wasTrusted') \in Nat /\ Cardinality(inbound' \ wasTrusted') \in Nat
  BY <1>3, FS_CardinalityType
<1> QED BY <1>2, <1>3, <1>4, DialAssumption, ServerAssumption DEF LimitInv, LimitsHold, maxInboundConns

\* A peer is let in: a node that was never trusted only below the limits.
LEMMA LimitsGrow ==
    ASSUME IInv, LimitInv, loop = "select", NEW n \in Nodes \ peers, NEW isInbound \in BOOLEAN,
           n \in wasTrusted \/ postHandshakeChecks(n, isInbound, FALSE),
           phase' = [phase EXCEPT ![n] = "adding"],
           inbound' = IF isInbound THEN inbound \cup {n} ELSE inbound,
           UNCHANGED wasTrusted
    PROVE  LimitsHold'
<1>1. /\ phase \in [Nodes -> Phases] /\ inbound \in SUBSET Nodes
      /\ inboundCount = Cardinality(inbound)
  BY DEF IInv, PeerInv, DialerAgrees, Serving
<1>2. peers' = peers \cup {n}
  BY <1>1 DEF peers
<1>3. CASE n \in wasTrusted
  <2>1. peers' \ wasTrusted' = peers \ wasTrusted /\ inbound' \ wasTrusted' = inbound \ wasTrusted
    BY <1>2, <1>3
  <2> QED BY Zenon, <2>1 DEF LimitInv, LimitsHold, maxInboundConns
<1>4. CASE n \notin wasTrusted
  <2>1. Cardinality(peers) < MaxPeers /\ (isInbound => inboundCount < maxInboundConns)
    BY <1>4 DEF postHandshakeChecks
  <2>2. /\ IsFiniteSet(peers) /\ Cardinality(peers) \in Nat
        /\ IsFiniteSet(inbound) /\ Cardinality(inbound) \in Nat
    BY <1>1, NodeSets DEF peers
  <2>3. IsFiniteSet(peers') /\ Cardinality(peers') = Cardinality(peers) + 1
    BY <1>2, <2>2, FS_AddElement
  <2>4. IsFiniteSet(peers' \ wasTrusted') /\ Cardinality(peers' \ wasTrusted') <= Cardinality(peers')
    BY <2>3, FS_Subset
  <2>5. Cardinality(peers' \ wasTrusted') \in Nat
    BY ZenonT(40), <2>4, FS_CardinalityType
  <2>6. Cardinality(peers' \ wasTrusted') <= MaxPeers
    BY <2>1, <2>2, <2>3, <2>4, <2>5, ServerAssumption
  <2>7. Cardinality(inbound' \ wasTrusted') <= maxInboundConns
    <3>1. CASE ~isInbound
      BY <3>1 DEF LimitInv, LimitsHold
    <3>2. CASE isInbound
      <4>1. /\ IsFiniteSet(inbound')
            /\ Cardinality(inbound') = IF n \in inbound THEN Cardinality(inbound)
                                       ELSE Cardinality(inbound) + 1
        BY <3>2, <2>2, FS_AddElement
      <4>2. IsFiniteSet(inbound' \ wasTrusted')
              /\ Cardinality(inbound' \ wasTrusted') <= Cardinality(inbound')
        BY <4>1, FS_Subset
      <4>3. Cardinality(inbound' \ wasTrusted') \in Nat
        BY <4>2, FS_CardinalityType
      <4>4. maxInboundConns \in Int
        BY SMTT(30), Z3T(30), DialAssumption, ServerAssumption DEF maxInboundConns
      <4> QED BY <1>1, <2>1, <2>2, <3>2, <4>1, <4>2, <4>3, <4>4
    <3> QED BY SMTT(30), Z3T(30), <3>1, <3>2
  <2> QED BY <2>6, <2>7 DEF LimitsHold, maxInboundConns
<1> QED BY <1>3, <1>4

LEMMA LimitStep ==
    ASSUME IInv, SendInv, LimitInv, [Next]_vars
    PROVE  LimitInv'
<1>1. inbound \in SUBSET Nodes /\ phase \in [Nodes -> Phases]
  BY ZenonT(40) DEF IInv, PeerInv
<1>2. ASSUME NEW n \in Nodes, AddPeerDialed(n) PROVE LimitInv'
  <2>1. UNCHANGED <<inbound, trusted, wasTrusted, slot, slotNode>> /\ flagged' \subseteq flagged
    BY <1>2 DEF AddPeerDialed
  <2>2. LimitsHold'
    <3>1. CASE addPeerChecks(n, FALSE, n \in flagged)
      <4>1. n \notin peers /\ loop = "select" /\ phase' = [phase EXCEPT ![n] = "adding"]
        BY Zenon, <1>2, <3>1 DEF AddPeerDialed, addPeerChecks, postHandshakeChecks
      <4>2. n \in wasTrusted \/ postHandshakeChecks(n, FALSE, FALSE)
        BY <3>1 DEF addPeerChecks, postHandshakeChecks, LimitInv
      <4> QED BY Zenon, <2>1, <4>1, <4>2, LimitsGrow
    <3>2. CASE ~addPeerChecks(n, FALSE, n \in flagged)
      BY <1>1, <1>2, <2>1, <3>2, LimitsShrink DEF AddPeerDialed, peers
    <3> QED BY Zenon, <3>1, <3>2
  <2> QED BY <2>1, <2>2 DEF LimitInv
<1>3. ASSUME NEW i \in Slots, AddPeerAccepted(i) PROVE LimitInv'
  <2> DEFINE n == slotNode[i]
  <2>1. /\ UNCHANGED <<trusted, wasTrusted>> /\ flagged' = flagged \ {i}
        /\ slotNode' = [slotNode EXCEPT ![i] = self] /\ slot' = [slot EXCEPT ![i] = "free"]
    BY <1>3 DEF AddPeerAccepted
  <2>2. n \in Nodes /\ slotNode \in [Slots -> Nodes]
    BY DEF IInv, PeerInv
  <2>3. LimitsHold'
    <3>1. CASE addPeerChecks(n, TRUE, i \in flagged)
      <4>1. /\ n \notin peers /\ loop = "select" /\ phase' = [phase EXCEPT ![n] = "adding"]
            /\ inbound' = inbound \cup {n}
        BY Zenon, <1>3, <3>1 DEF AddPeerAccepted, addPeerChecks, postHandshakeChecks
      <4>2. n \in wasTrusted \/ postHandshakeChecks(n, TRUE, FALSE)
        BY Zenon, <3>1 DEF addPeerChecks, postHandshakeChecks, LimitInv
      <4> QED BY Zenon, <2>1, <2>2, <4>1, <4>2, LimitsGrow
    <3>2. CASE ~addPeerChecks(n, TRUE, i \in flagged)
      BY ZenonT(40), <1>1, <1>3, <2>1, <3>2, LimitsShrink DEF AddPeerAccepted, peers
    <3> QED BY Zenon, <3>1, <3>2
  <2> QED BY <2>1, <2>2, <2>3, ServerAssumption DEF LimitInv
<1>4. ASSUME peers' \subseteq peers, inbound' \subseteq inbound,
             UNCHANGED <<trusted, wasTrusted, flagged, slot, slotNode>>
      PROVE  LimitInv'
  BY <1>1, <1>4, LimitsShrink DEF LimitInv
<1>5. CASE DialStep
  BY <1>4, <1>5 DEF DialStep, serverVars, peers
<1>6. ASSUME NEW n \in Nodes, DialConnects(n) \/ DelPeer(n) \/ Disconnected(n) \/ PeerEnds(n) \/ DrainPeer(n)
      PROVE  LimitInv'
  BY <1>1, <1>4, <1>6 DEF DialConnects, DelPeer, Disconnected, PeerEnds, DrainPeer, serverVars, peers
<1>7. ASSUME NEW n \in Nodes, PostHandshakeDialed(n) PROVE LimitInv'
  <2>1. LimitsHold'
    BY <1>1, <1>7, LimitsShrink DEF PostHandshakeDialed, peers
  <2> QED BY ZenonT(30), <1>7, <2>1, ServerAssumption DEF PostHandshakeDialed, LimitInv
<1>8. ASSUME NEW i \in Slots, NEW n \in Nodes, PostHandshakeAccepted(i, n) PROVE LimitInv'
  <2>1. LimitsHold'
    BY <1>1, <1>8, LimitsShrink DEF PostHandshakeAccepted, peers
  <2>2. slotNode \in [Slots -> Nodes]
    BY DEF IInv, PeerInv
  <2>3. CASE postHandshakeChecks(n, TRUE, n \in trusted)
    <3>1. /\ slot[i] = "enc" /\ slot' = [slot EXCEPT ![i] = "proto"]
          /\ slotNode' = [slotNode EXCEPT ![i] = n]
          /\ flagged' = IF n \in trusted THEN flagged \cup {i} ELSE flagged
          /\ UNCHANGED <<trusted, wasTrusted>>
      BY <1>8, <2>3 DEF PostHandshakeAccepted
    <3>2. i \notin flagged /\ i \notin Nodes
      BY <3>1, ServerAssumption DEF LimitInv
    <3>3. \A j \in Slots : j \in flagged' => slot'[j] = "proto" /\ slotNode'[j] \in wasTrusted'
      BY <2>2, <3>1, <3>2 DEF LimitInv
    <3>4. \A m \in Nodes : m \in flagged' => m \in wasTrusted'
      BY <3>1, <3>2 DEF LimitInv
    <3>5. slot' \in [Slots -> {"free", "enc", "proto"}]
      BY <3>1 DEF LimitInv
    <3> QED BY Zenon, <2>1, <3>1, <3>3, <3>4, <3>5 DEF LimitInv
  <2>4. CASE ~postHandshakeChecks(n, TRUE, n \in trusted)
    BY <1>8, <2>1, <2>2, <2>4 DEF PostHandshakeAccepted, LimitInv
  <2> QED BY ZenonT(30), <2>3, <2>4
<1>9. ASSUME NEW c \in Nodes \cup Slots, SetupFails(c) PROVE LimitInv'
  <2>1. LimitsHold'
    BY <1>1, <1>9, LimitsShrink DEF SetupFails, peers
  <2>2. slotNode \in [Slots -> Nodes]
    BY Zenon DEF IInv, PeerInv
  <2> QED BY <1>9, <2>1, <2>2 DEF SetupFails, LimitInv
<1>10. ASSUME NEW n \in Trusted, AddTrusted(n) \/ RemoveTrusted(n) PROVE LimitInv'
  <2>1. wasTrusted \subseteq wasTrusted' /\ UNCHANGED <<phase, inbound, flagged, slot, slotNode>>
    BY <1>10 DEF AddTrusted, RemoveTrusted
  <2>2. LimitsHold'
    BY <1>1, <2>1, LimitsShrink DEF peers
  <2> QED BY <1>10, <2>1, <2>2 DEF AddTrusted, RemoveTrusted, LimitInv
<1>11. ASSUME NEW i \in Slots, Accept(i) PROVE LimitInv'
  <2>1. LimitsHold'
    BY Zenon, <1>1, <1>11, LimitsShrink DEF Accept, peers
  <2> QED BY <1>11, <2>1 DEF Accept, LimitInv
<1>12. ASSUME NEW r \in Callers, NEW n \in Removable, RemovePeer(r, n) PROVE LimitInv'
  BY ZenonT(40), <1>4, <1>12 DEF RemovePeer, peers
<1>13. CASE LoopQuits \/ StopDialer \/ LoopDone \/ Stop
  BY <1>4, <1>13 DEF LoopQuits, StopDialer, LoopDone, Stop, peers
<1>14. CASE (\E e \in Events : Send(e)) \/ \E r \in Callers : Deliver(r) \/ Receive(r)
  <2>1. \A n \in Nodes : phase'[n] = "none" <=> phase[n] = "none"
    <3>1. ASSUME NEW e \in Events, Send(e) PROVE \A n \in Nodes : phase'[n] = "none" <=> phase[n] = "none"
      BY Zenon, <3>1, SendOverKeeps DEF Send, IInv
    <3>2. ASSUME NEW r \in Callers, Deliver(r) PROVE \A n \in Nodes : phase'[n] = "none" <=> phase[n] = "none"
      BY <3>2, SendOverKeeps DEF Deliver, IInv, SendInv
    <3>3. ASSUME NEW r \in Callers, Receive(r) PROVE \A n \in Nodes : phase'[n] = "none" <=> phase[n] = "none"
      BY <3>3, SendOverKeeps DEF Receive, IInv, SendInv
    <3> QED BY ZenonT(30), <1>14, <3>1, <3>2, <3>3
  <2>2. UNCHANGED <<inbound, trusted, wasTrusted, flagged, slot, slotNode>>
    BY Zenon, <1>14 DEF Send, Deliver, Receive
  <2>3. peers' \subseteq peers
    BY <2>1 DEF peers
  <2> QED BY <1>4, <2>2, <2>3
<1>15. CASE UNCHANGED vars
  BY <1>4, <1>15 DEF vars, serverVars, peers
<1> QED BY ZenonT(40), <1>2, <1>3, <1>5, <1>6, <1>7, <1>8, <1>9, <1>10, <1>11, <1>12, <1>13, <1>14, <1>15 DEF Next

\* The limits and what makes them inductive hold in every state.
LEMMA LimitsInvariant == Spec => []LimitInv
<1>1. Init => LimitInv
  <2> SUFFICES ASSUME Init PROVE LimitInv
    OBVIOUS
  <2>1. peers \ wasTrusted = {} /\ inbound \ wasTrusted = {}
    BY DEF Init, peers
  <2>2. LimitsHold
    BY <2>1, FS_EmptySet, DialAssumption, ServerAssumption DEF LimitsHold, maxInboundConns
  <2> QED BY <2>2 DEF Init, LimitInv
<1>2. IInv /\ SendInv /\ LimitInv /\ [Next]_vars => LimitInv'
  BY LimitStep
<1> QED BY <1>1, <1>2, Invariance, PTL DEF Spec

\* Of the nodes that were never trusted, no more than MaxPeers are peers and
\* no more than the inbound limit are inbound ones, although a connection is
\* checked against a peer set that changes before it is added.
\* (p2p/server.go postHandshakeChecks, addPeerChecks)
THEOREM PeerLimits == Spec => []LimitsHold
<1>1. LimitInv => LimitsHold
  BY DEF LimitInv
<1> QED BY <1>1, LimitsInvariant, PTL

\* All limits hold at once, for every set of nodes and every configuration.
\* (p2p/server.go postHandshakeChecks, p2p/dial.go freeDialSlots)
THEOREM LimitsCorrect == Spec => []LimitsSound
<1>1. LimitsHold /\ DialedBounded => LimitsSound
  BY DEF LimitsSound
<1> QED BY <1>1, PeerLimits, DialLimit, PTL
-----------------------------------------------------------------------------

\* The types of the run loop's other fields, of the feed and of the callers.
Calls == [at : {"idle", "op", "wait"}, node : Nodes, ch : {<<>>} \cup {<<e>> : e \in Events}]
FeedInv ==
    /\ running \in BOOLEAN
    /\ leaving \in SUBSET Nodes
    /\ inboundCount \in Nat
    /\ trusted \in SUBSET Nodes
    /\ wasTrusted \in SUBSET Nodes
    /\ staticPool \in SUBSET Nodes
    /\ flagged \in SUBSET (Nodes \cup Slots)
    /\ drops \in [Nodes -> 0 .. MaxDrops]
    /\ sending # None => sending.left \in SUBSET Callers
    /\ subs \in SUBSET Callers
    /\ caller \in [Callers -> Calls]

\* The counter of inbound peers and the pool of static nodes are exact as long
\* as their loops run, and are not touched afterwards.
LEMMA CountAndPool ==
    ASSUME IInv, IInv', FeedInv, [Next]_vars
    PROVE  inboundCount' \in Nat /\ staticPool' \in SUBSET Nodes
<1>1. inboundCount' \in Nat
  <2>1. CASE Serving'
    BY <2>1, NodeSets DEF IInv, PeerInv, DialerAgrees
  <2>2. CASE ~Serving'
    <3>1. inboundCount' = inboundCount
      BY Zenon, <2>2 DEF Next, Serving, DialStep, serverVars, vars, DialConnects, PostHandshakeDialed,
        AddPeerDialed, DelPeer, Disconnected, PeerEnds, DrainPeer, Accept, AddPeerAccepted,
        PostHandshakeAccepted, SetupFails, AddTrusted, RemoveTrusted, RemovePeer, Send, Deliver,
        Receive, Stop, LoopQuits, StopDialer, LoopDone
    <3> QED BY <3>1 DEF FeedInv
  <2> QED BY <2>1, <2>2
<1>2. staticPool' \in SUBSET Nodes
  <2>1. CASE dialLoop'
    BY <2>1 DEF IInv, DialInv, DialTypes, Exact
  <2>2. CASE ~dialLoop'
    <3>1. CASE UNCHANGED staticPool
      BY <3>1 DEF FeedInv
    <3>2. CASE DialStep
      <4>1. ASSUME NEW n \in Nodes, NodeRead(n) \/ TaskDone(n) PROVE dialLoop'
        BY <4>1 DEF NodeRead, TaskDone
      <4>2. ASSUME NEW n \in Static, AddStatic(n) PROVE dialLoop'
        BY <4>2 DEF AddStatic
      <4>3. ASSUME NEW E \in SUBSET history, ExpireHistory(E) PROVE dialLoop'
        BY <4>3 DEF ExpireHistory
      <4>4. ASSUME NEW n \in Nodes, DialFails(n) \/ TaskAwaited(n) PROVE UNCHANGED staticPool
        BY <4>4 DEF DialFails, TaskAwaited
      <4> QED BY ZenonT(40), <2>2, <3>1, <3>2, <4>1, <4>2, <4>3, <4>4 DEF DialStep
    <3>3. ASSUME NEW n \in Nodes, AddPeerDialed(n) \/ DelPeer(n) PROVE dialLoop' \/ UNCHANGED staticPool
      <4>1. ASSUME NEW d, NEW tk, PeerAdded(n, d, tk) \/ PeerRemoved(n, d) PROVE dialLoop'
        BY <4>1 DEF PeerAdded, PeerRemoved
      <4> QED BY ZenonT(40), <3>3, <4>1 DEF AddPeerDialed, DelPeer
    <3>4. ASSUME NEW i \in Slots, AddPeerAccepted(i) PROVE dialLoop' \/ UNCHANGED staticPool
      <4>1. ASSUME NEW n, PeerAdded(n, FALSE, task) PROVE dialLoop'
        BY <4>1 DEF PeerAdded
      <4> QED BY Zenon, <3>4, <4>1 DEF AddPeerAccepted, dialVars
    <3>5. ASSUME NEW r \in Callers, NEW n \in Removable, RemovePeer(r, n) PROVE dialLoop'
      BY SMTT(30), Z3T(30), <3>5 DEF RemovePeer, RemoveStatic
    <3>6. CASE \E c \in Nodes \cup Slots : SetupFails(c)
      BY <3>1, <3>6 DEF SetupFails
    <3> QED
      BY ZenonT(40), <2>2, <3>1, <3>2, <3>3, <3>4, <3>5, <3>6 DEF Next, dialVars, vars, DialConnects,
        PostHandshakeDialed, Disconnected, PeerEnds, DrainPeer, Accept, PostHandshakeAccepted, AddTrusted,
        RemoveTrusted, Send, Deliver, Receive, Stop, LoopQuits, StopDialer, LoopDone, CtxDone
  <2> QED BY <2>1, <2>2
<1> QED BY <1>1, <1>2

\* The peers whose goroutines the run loop waits for, and the trusted nodes.
LEMMA SetTypes ==
    ASSUME IInv, FeedInv, [Next]_vars
    PROVE  /\ running' \in BOOLEAN
           /\ leaving' \in SUBSET Nodes
           /\ trusted' \in SUBSET Nodes
           /\ wasTrusted' \in SUBSET Nodes
           /\ flagged' \in SUBSET (Nodes \cup Slots)
<1> USE DEF FeedInv, serverVars
<1>1. CASE DialStep
  BY Zenon, <1>1 DEF DialStep
<1>2. CASE \E n \in Nodes : DialConnects(n) \/ PostHandshakeDialed(n) \/ AddPeerDialed(n)
  BY Zenon, <1>2 DEF DialConnects, PostHandshakeDialed, AddPeerDialed
<1>3. CASE \E n \in Nodes : DelPeer(n) \/ Disconnected(n) \/ PeerEnds(n) \/ DrainPeer(n)
  BY <1>3 DEF DelPeer, Disconnected, PeerEnds, DrainPeer
<1>4. CASE \E i \in Slots : Accept(i) \/ AddPeerAccepted(i)
  BY ZenonT(30), <1>4 DEF Accept, AddPeerAccepted
<1>5. CASE \E i \in Slots, n \in Nodes : PostHandshakeAccepted(i, n)
  BY ZenonT(30), <1>5 DEF PostHandshakeAccepted
<1>6. CASE \E c \in Nodes \cup Slots : SetupFails(c)
  BY ZenonT(30), <1>6 DEF SetupFails
<1>7. CASE \E n \in Trusted : AddTrusted(n) \/ RemoveTrusted(n)
  BY <1>7, ServerAssumption DEF AddTrusted, RemoveTrusted
<1>8. CASE \E r \in Callers, n \in Removable : RemovePeer(r, n)
  BY Zenon, <1>8, ServerAssumption DEF RemovePeer
<1>9. CASE (\E e \in Events : Send(e)) \/ \E r \in Callers : Deliver(r) \/ Receive(r)
  BY ZenonT(30), <1>9 DEF Send, Deliver, Receive
<1>10. CASE Stop \/ LoopQuits \/ StopDialer \/ LoopDone
  BY Zenon, <1>10 DEF Stop, LoopQuits, StopDialer, LoopDone, peers
<1>11. CASE UNCHANGED vars
  BY ZenonT(30), <1>11 DEF vars
<1> QED BY Zenon, <1>1, <1>2, <1>3, <1>4, <1>5, <1>6, <1>7, <1>8, <1>9, <1>10, <1>11 DEF Next

\* The Drop events to be sent, within the bound.
LEMMA DropTypes ==
    ASSUME FeedInv, [Next]_vars
    PROVE  drops' \in [Nodes -> 0 .. MaxDrops]
<1>1. CASE drops' = drops
  BY <1>1 DEF FeedInv
<1>2. ASSUME NEW n \in Nodes, ToAnnounce(n) PROVE drops' \in [Nodes -> 0 .. MaxDrops]
  BY <1>2, ServerAssumption DEF ToAnnounce, FeedInv
<1>3. ASSUME NEW n \in Nodes, DelPeer(n) \/ DrainPeer(n) PROVE drops' \in [Nodes -> 0 .. MaxDrops]
  BY ZenonT(40), <1>2, <1>3 DEF DelPeer, DrainPeer
<1>4. ASSUME NEW e \in Events, Send(e) PROVE drops' \in [Nodes -> 0 .. MaxDrops]
  <2>1. CASE UNCHANGED drops
    BY <1>1, <2>1
  <2>2. CASE drops[e[2]] > 0 /\ drops' = [drops EXCEPT ![e[2]] = @ - 1]
    <3>1. e[2] \in Nodes
      BY ZenonT(40) DEF Events
    <3>2. drops[e[2]] - 1 \in 0 .. MaxDrops
      BY <2>2, <3>1, ServerAssumption DEF FeedInv
    <3> QED BY Zenon, <2>2, <3>1, <3>2 DEF FeedInv
  <2> QED BY <1>4, <2>1, <2>2 DEF Send
<1> QED
  BY ZenonT(30), <1>1, <1>3, <1>4 DEF Next, DialStep, serverVars, vars, DialConnects, PostHandshakeDialed,
    AddPeerDialed, Disconnected, PeerEnds, Accept, AddPeerAccepted, PostHandshakeAccepted,
    SetupFails, AddTrusted, RemoveTrusted, RemovePeer, Deliver, Receive, Stop, LoopQuits,
    StopDialer, LoopDone

\* The feed and the callers of RemovePeer.
LEMMA CallTypes ==
    ASSUME IInv, SendInv, FeedInv, [Next]_vars
    PROVE  /\ sending' # None => sending'.left \in SUBSET Callers
           /\ subs' \in SUBSET Callers
           /\ caller' \in [Callers -> Calls]
<1> DEFINE Goal == /\ sending' # None => sending'.left \in SUBSET Callers
                   /\ subs' \in SUBSET Callers
                   /\ caller' \in [Callers -> Calls]
<1> USE DEF FeedInv
<1>1. CASE UNCHANGED <<sending, subs, caller>>
  BY <1>1
<1>2. ASSUME NEW e, NEW left \in SUBSET Callers, SendOver(e, left)
      PROVE  sending' # None => sending'.left \in SUBSET Callers
  BY <1>2 DEF SendOver
<1>3. ASSUME NEW r \in Callers, NEW n \in Nodes, RemovePeer(r, n) PROVE Goal
  <2>1. CASE UNCHANGED <<caller, subs>>
    BY ZenonT(30), <1>3, <2>1 DEF RemovePeer
  <2>2. CASE /\ caller' = [caller EXCEPT ![r] = [at |-> "op", node |-> n, ch |-> <<>>]]
             /\ subs' = subs \cup {r}
    BY Zenon, <1>3, <2>2 DEF RemovePeer, Calls
  <2> QED BY ZenonT(30), <1>3, <2>1, <2>2 DEF RemovePeer
<1>4. ASSUME NEW n \in Nodes, Disconnected(n) PROVE Goal
  <2>1. \A r \in Callers : [caller[r] EXCEPT !.at = "wait"] \in Calls
    BY Zenon DEF Calls
  <2>2. caller' = caller
          \/ caller' = [r \in Callers |-> IF caller[r].at = "op" THEN [caller[r] EXCEPT !.at = "wait"]
                                          ELSE caller[r]]
    BY <1>4 DEF Disconnected
  <2>3. caller' \in [Callers -> Calls]
    BY <2>1, <2>2
  <2> QED BY <1>4, <2>3 DEF Disconnected
<1>5. ASSUME NEW e \in Events, Send(e) PROVE Goal
  BY Zenon, <1>2, <1>5 DEF Send
<1>6. ASSUME NEW r \in Callers, Deliver(r) PROVE Goal
  <2>1. sending # None /\ sending.event \in Events
    BY <1>6 DEF Deliver, SendInv
  <2>2. [caller[r] EXCEPT !.ch = <<sending.event>>] \in Calls
    BY <2>1 DEF Calls
  <2>3. caller' = [caller EXCEPT ![r] = [caller[r] EXCEPT !.ch = <<sending.event>>]]
    BY <1>6 DEF Deliver
  <2>4. caller' \in [Callers -> Calls]
    BY <2>2, <2>3
  <2> QED BY <1>2, <1>6, <2>1, <2>4 DEF Deliver
<1>7. ASSUME NEW r \in Callers, Receive(r) PROVE Goal
  <2>1. CASE caller' = [caller EXCEPT ![r] = Idle] /\ subs' = subs \ {r}
    <3>1. Idle \in Calls
      BY Zenon, DialAssumption DEF Idle, Calls
    <3>2. caller' \in [Callers -> Calls] /\ subs' \in SUBSET Callers
      BY <2>1, <3>1
    <3>3. sending' # None => sending'.left \in SUBSET Callers
      <4>1. CASE UNCHANGED sending
        BY <4>1
      <4>2. CASE sending # None /\ SendOver(sending.event, sending.left \ {r})
        BY <1>2, <4>2
      <4> QED BY <1>7, <4>1, <4>2 DEF Receive
    <3> QED BY <3>2, <3>3
  <2>2. CASE caller' = [caller EXCEPT ![r].ch = <<>>] /\ UNCHANGED <<subs, sending>>
    <3>1. [caller[r] EXCEPT !.ch = <<>>] \in Calls
      BY DEF Calls
    <3>2. caller' \in [Callers -> Calls]
      BY <2>2, <3>1
    <3> QED BY <2>2, <3>2
  <2> QED BY Zenon, <1>7, <2>1, <2>2 DEF Receive
<1> QED
  BY ZenonT(30), <1>1, <1>3, <1>4, <1>5, <1>6, <1>7, ServerAssumption DEF Next, DialStep, serverVars, vars,
    DialConnects, PostHandshakeDialed, AddPeerDialed, DelPeer, PeerEnds, DrainPeer, Accept,
    AddPeerAccepted, PostHandshakeAccepted, SetupFails, AddTrusted, RemoveTrusted, Stop,
    LoopQuits, StopDialer, LoopDone

\* Every field has its type, in particular the counters kept by increments and
\* decrements never go below zero, and an event is only ever delivered to a
\* caller of RemovePeer.
\* (p2p/server.go run, RemovePeer; p2p/dial.go loop; event/feed.go Send)
THEOREM TypesCorrect == Spec => []TypeOK
<1>1. Init => FeedInv
  <2> SUFFICES ASSUME Init PROVE FeedInv
    OBVIOUS
  <2>1. self \in Nodes /\ MaxDrops \in Nat
    BY DialAssumption, ServerAssumption
  <2>2. drops \in [Nodes -> 0 .. MaxDrops] /\ inboundCount \in Nat
    BY <2>1 DEF Init
  <2>3. caller \in [Callers -> Calls]
    BY Zenon, <2>1 DEF Init, Idle, Calls
  <2> QED BY Zenon, <2>2, <2>3 DEF Init, DialInit, FeedInv
<1>2. IInv /\ SendInv /\ IInv' /\ FeedInv /\ [Next]_vars => FeedInv'
  <2> SUFFICES ASSUME IInv, SendInv, IInv', FeedInv, [Next]_vars PROVE FeedInv'
    OBVIOUS
  <2> QED BY Zenon, CountAndPool, SetTypes, DropTypes, CallTypes DEF FeedInv
<1>3. IInv /\ SendInv /\ FeedInv /\ LimitInv => TypeOK
  <2> SUFFICES ASSUME IInv, SendInv, FeedInv, LimitInv PROVE TypeOK
    OBVIOUS
  <2>1. \A r \in Callers : /\ caller[r].at \in {"idle", "op", "wait"}
                           /\ caller[r].node \in Nodes
                           /\ caller[r].ch = <<>> \/ Head(caller[r].ch) \in Events
    BY DEF FeedInv, Calls
  <2> QED BY Zenon, <2>1 DEF TypeOK, IInv, DialInv, DialTypes, PeerInv, SendInv, FeedInv, LimitInv
<1> QED BY <1>1, <1>2, <1>3, Invariance, LimitsInvariant, PTL DEF Spec
=============================================================================
