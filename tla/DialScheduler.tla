---------------------------- MODULE DialScheduler ----------------------------
(***************************************************************************)
(* The dial scheduler of p2p/dial.go: the loop goroutine that owns the     *)
(* static nodes, the pool of static tasks ready to be dialed, the active   *)
(* dial tasks, the connected peers it was told of and the dial history.    *)
(*                                                                         *)
(* Every operator below is one event of the loop's select together with    *)
(* the head of the next iteration, which launches static dials into the    *)
(* free slots and decides whether candidates from discovery are read.  The *)
(* loop blocks nowhere else, so the two are one step.  The events that     *)
(* come from the server's run loop are taken in a step of that loop; the   *)
(* module P2PServer puts the two together.                                 *)
(*                                                                         *)
(* A node stands for its identifier: endpoints, their resolution with its  *)
(* backoff and the network restriction list are left out, as are the       *)
(* connection flags that only tell a static dial from a dynamic one.       *)
(***************************************************************************)
EXTENDS Integers, FiniteSets

CONSTANTS
    Nodes,              \* node identifiers, the local node's included
    self,               \* the local node
    maxDialPeers,       \* dialConfig.maxDialPeers
    maxActiveDials      \* dialConfig.maxActiveDials, after withDefaults

ASSUME DialAssumption ==
    /\ IsFiniteSet(Nodes)
    /\ self \in Nodes
    /\ maxDialPeers \in Nat
    /\ maxActiveDials \in Nat \ {0}

VARIABLES
    static,             \* d.static: the nodes to keep connected
    staticPool,         \* d.staticPool: the static tasks that may be launched
    task,               \* d.dialing: how far the task of a node has come
    connected,          \* d.peers
    dialPeers,          \* d.dialPeers
    history,            \* d.history: recently dialed nodes
    reading,            \* nodesCh is open in the select the loop waits in
    dialLoop            \* the loop runs; the context is not cancelled

dialVars == <<static, staticPool, task, connected, dialPeers, history, reading, dialLoop>>

\* A task connects ("dial"), runs the two handshakes ("enc" until the first
\* checkpoint, "proto" until the second) and waits to hand itself to doneCh.
Stages == {"none", "dial", "enc", "proto", "done"}

Dialing(tk) == {n \in Nodes : tk[n] # "none"}

-----------------------------------------------------------------------------

freeDialSlots(tk, count) ==
    LET twice == 2 * (maxDialPeers - count)
    IN  (IF twice > maxActiveDials THEN maxActiveDials ELSE twice) - Cardinality(Dialing(tk))

checkDial(n, tk, peers, hist) ==
    /\ n # self
    /\ tk[n] = "none"
    /\ n \notin peers
    /\ n \notin hist

\* updateStaticPool for every node of ids.
updateStaticPool(ids, pool, tk, peers, hist) ==
    pool \cup {n \in ids : n \in static /\ checkDial(n, tk, peers, hist)}

startDial(S, tk) == [n \in Nodes |-> IF n \in S THEN "dial" ELSE tk[n]]

\* One task more than there are slots.
startStaticDials_OneMore(n, pool) ==
    IF n < 0 THEN {{}}
    ELSE IF Cardinality(pool) <= n + 1 THEN {pool}
    ELSE {S \in SUBSET pool : Cardinality(S) = n + 1}

\* The sets of static tasks startStaticDials may launch into n free slots: it
\* picks tasks of the pool at random until the slots or the pool run out.
startStaticDials(n, pool) ==
    IF n <= 0 THEN {{}}
    ELSE IF Cardinality(pool) <= n THEN {pool}
    ELSE {S \in SUBSET pool : Cardinality(S) = n}

\* The head of the loop, with the pool, tasks, count and history as the event
\* before it left them.
Launch(pool, tk, count, hist) ==
    \E slots \in {freeDialSlots(tk, count)} : \E S \in startStaticDials(slots, pool) :
      /\ staticPool' = pool \ S
      /\ task' = startDial(S, tk)
      /\ history' = hist \cup S
      /\ reading' = (slots > Cardinality(S))

-----------------------------------------------------------------------------

DialInit ==
    /\ static = {}
    /\ staticPool = {}
    /\ task = [n \in Nodes |-> "none"]
    /\ connected = {}
    /\ dialPeers = 0
    /\ history = {}
    /\ reading = (maxDialPeers > 0)
    /\ dialLoop = TRUE

\* case node := <-nodesCh.  A node that fails the check changes nothing.
NodeRead(n) ==
    /\ dialLoop
    /\ reading
    /\ checkDial(n, task, connected, history)
    /\ Launch(staticPool, startDial({n}, task), dialPeers, history \cup {n})
    /\ UNCHANGED <<static, connected, dialPeers, dialLoop>>

\* case task := <-d.doneCh.
TaskDone(n) ==
    /\ dialLoop
    /\ task[n] = "done"
    /\ LET tk == [task EXCEPT ![n] = "none"]
       IN  Launch(updateStaticPool({n}, staticPool, tk, connected, history),
                  tk, dialPeers, history)
    /\ UNCHANGED <<static, connected, dialPeers, dialLoop>>

\* case c := <-d.addPeerCh, sent by the run loop with tk, the tasks as the
\* run loop's step leaves them.
PeerAdded(n, dialed, tk) ==
    /\ dialLoop
    /\ dialPeers' = IF dialed THEN dialPeers + 1 ELSE dialPeers
    /\ connected' = connected \cup {n}
    /\ Launch(staticPool \ {n}, tk, dialPeers', history)
    /\ UNCHANGED <<static, dialLoop>>

\* A removed peer that is not counted down.
PeerRemoved_NoCount(n, dialed) ==
    /\ dialLoop
    /\ UNCHANGED dialPeers
    /\ connected' = connected \ {n}
    /\ Launch(updateStaticPool({n}, staticPool, task, connected', history),
              task, dialPeers, history)
    /\ UNCHANGED <<static, dialLoop>>

\* A removed peer that is counted down although it was accepted.
PeerRemoved_Always(n, dialed) ==
    /\ dialLoop
    /\ dialPeers' = dialPeers - 1
    /\ connected' = connected \ {n}
    /\ Launch(updateStaticPool({n}, staticPool, task, connected', history),
              task, dialPeers', history)
    /\ UNCHANGED <<static, dialLoop>>

\* case c := <-d.remPeerCh.
PeerRemoved(n, dialed) ==
    /\ dialLoop
    /\ dialPeers' = IF dialed THEN dialPeers - 1 ELSE dialPeers
    /\ connected' = connected \ {n}
    /\ Launch(updateStaticPool({n}, staticPool, task, connected', history),
              task, dialPeers', history)
    /\ UNCHANGED <<static, dialLoop>>

\* A new static node that waits for the next event to be launched.
AddStatic_NoLaunch(n) ==
    /\ dialLoop
    /\ n \notin static
    /\ static' = static \cup {n}
    /\ staticPool' = IF checkDial(n, task, connected, history)
                     THEN staticPool \cup {n} ELSE staticPool
    /\ UNCHANGED <<task, connected, dialPeers, history, reading, dialLoop>>

\* case node := <-d.addStaticCh.  A node that is static already changes nothing.
AddStatic(n) ==
    /\ dialLoop
    /\ n \notin static
    /\ static' = static \cup {n}
    /\ LET pool == IF checkDial(n, task, connected, history)
                   THEN staticPool \cup {n} ELSE staticPool
       IN  Launch(pool, task, dialPeers, history)
    /\ UNCHANGED <<connected, dialPeers, dialLoop>>

\* case node := <-d.remStaticCh.
RemoveStatic(n) ==
    /\ dialLoop
    /\ static' = static \ {n}
    /\ Launch(staticPool \ {n}, task, dialPeers, history)
    /\ UNCHANGED <<connected, dialPeers, dialLoop>>

\* The timer's event without updateStaticPool.
ExpireHistory_NoUpdate(E) ==
    /\ dialLoop
    /\ E # {}
    /\ E \subseteq history
    /\ Launch(staticPool, task, dialPeers, history \ E)
    /\ UNCHANGED <<static, connected, dialPeers, dialLoop>>

\* case <-d.historyTimer.C().  Which entries are due is left open.
ExpireHistory(E) ==
    /\ dialLoop
    /\ E # {}
    /\ E \subseteq history
    /\ Launch(updateStaticPool(E, staticPool, task, connected, history \ E),
              task, dialPeers, history \ E)
    /\ UNCHANGED <<static, connected, dialPeers, dialLoop>>

-----------------------------------------------------------------------------

\* dialTask.run: resolving fails, or dialing does (twice for a static node
\* that could be resolved); or the connection is made and handed to SetupConn.
DialFails(n) ==
    /\ task[n] = "dial"
    /\ task' = [task EXCEPT ![n] = "done"]
    /\ UNCHANGED <<static, staticPool, connected, dialPeers, history, reading, dialLoop>>

\* case <-d.ctx.Done(), and the tasks awaited after the loop.
CtxDone ==
    /\ dialLoop
    /\ dialLoop' = FALSE
    /\ UNCHANGED <<static, staticPool, task, connected, dialPeers, history, reading>>

TaskAwaited(n) ==
    /\ ~dialLoop
    /\ task[n] = "done"
    /\ task' = [task EXCEPT ![n] = "none"]
    /\ UNCHANGED <<static, staticPool, connected, dialPeers, history, reading, dialLoop>>

=============================================================================
