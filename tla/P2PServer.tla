------------------------------ MODULE P2PServer ------------------------------
(***************************************************************************)
(* The peer-to-peer server of p2p/server.go with the dial scheduler it     *)
(* drives (module DialScheduler), the goroutines of its peers (p2p/peer.go *)
(* and runPeer) and the feed of peer events (event/feed.go) that           *)
(* RemovePeer listens to.                                                  *)
(*                                                                         *)
(* Processes: the run loop, the dial loop, one task per dialed node, one   *)
(* SetupConn per accept slot, one runPeer per peer, the callers of         *)
(* RemovePeer, and Stop.  The run loop hands peers to the dial loop over   *)
(* unbuffered channels that the dial loop always comes back to read, so    *)
(* such a hand-over is one step of both.                                   *)
(*                                                                         *)
(* The contents of the handshakes, capabilities (a peer may be found       *)
(* useless), messages and pings are left out: a handshake or a running     *)
(* connection may fail at any time.  So is the trusted flag of a connected *)
(* peer, which is only reported.                                           *)
(***************************************************************************)
EXTENDS DialScheduler, Sequences

CONSTANTS
    MaxPeers,           \* Config.MaxPeers
    Slots,              \* the tokens of listenLoop
    Callers,            \* the goroutines that call RemovePeer
    Removable,          \* the nodes given to RemovePeer
    Static,             \* the nodes given to AddPeer
    Trusted,            \* the nodes given to AddTrustedPeer
    MaxDrops,           \* bound: goroutines of one node that wait to send Drop
    None                \* no send in progress

ASSUME ServerAssumption ==
    /\ MaxPeers \in Nat
    /\ maxDialPeers <= MaxPeers
    /\ Static \subseteq Nodes
    /\ Trusted \subseteq Nodes
    /\ Removable \subseteq Nodes
    /\ MaxDrops \in Nat \ {0}
    /\ Nodes \cap Slots = {}

VARIABLES
    running,            \* srv.running; srv.quit is closed when it is cleared
    loop,               \* where the run loop is
    leaving,            \* the peers the run loop still has to Disconnect
    phase,              \* peers: what the goroutine of a node's peer does
    inbound,            \* the peers whose connection is inbound
    inboundCount,       \* the run loop's inboundCount
    trusted,            \* the run loop's trusted set
    slot,               \* listenLoop: how far SetupConn of a slot has come
    slotNode,           \* the node of a slot that passed the first checkpoint
    flagged,            \* the pending connections with the trusted flag
    drops,              \* goroutines that left the peer set, to send Drop
    sending,            \* peerFeed: the Send that holds the lock
    subs,               \* peerFeed: the subscribed callers
    caller,             \* RemovePeer: where a caller is
    wasTrusted          \* history: nodes that have been trusted

serverVars == <<running, loop, leaving, phase, inbound, inboundCount, trusted, slot,
                slotNode, flagged, drops, sending, subs, caller, wasTrusted>>
vars == <<dialVars, serverVars>>

Loops == {"select", "disconnect", "quit", "drain", "stop", "done"}
Phases == {"none", "adding", "running", "closed"}

peers == {n \in Nodes : phase[n] # "none"}
maxInboundConns == MaxPeers - maxDialPeers

Idle == [at |-> "idle", node |-> self, ch |-> <<>>]

Init ==
    /\ DialInit
    /\ running = TRUE
    /\ loop = "select"
    /\ leaving = {}
    /\ phase = [n \in Nodes |-> "none"]
    /\ inbound = {}
    /\ inboundCount = 0
    /\ trusted = {}
    /\ slot = [i \in Slots |-> "free"]
    /\ slotNode = [i \in Slots |-> self]
    /\ flagged = {}
    /\ drops = [n \in Nodes |-> 0]
    /\ sending = None
    /\ subs = {}
    /\ caller = [r \in Callers |-> Idle]
    /\ wasTrusted = {}

-----------------------------------------------------------------------------
(* The dial loop's own events and the dial tasks. *)

DialStep ==
    /\ UNCHANGED serverVars
    /\ \/ \E n \in Nodes : NodeRead(n)
       \/ \E n \in Nodes : TaskDone(n)
       \/ \E n \in Static : AddStatic(n)
       \/ \E E \in SUBSET history : ExpireHistory(E)
       \/ \E n \in Nodes : DialFails(n)
       \/ \E n \in Nodes : TaskAwaited(n)

\* The connection of a task stands: SetupConn begins, unless Stop came first.
DialConnects(n) ==
    /\ task[n] = "dial"
    /\ task' = [task EXCEPT ![n] = IF running THEN "enc" ELSE "done"]
    /\ UNCHANGED <<static, staticPool, connected, dialPeers, history, reading, dialLoop>>
    /\ UNCHANGED serverVars

-----------------------------------------------------------------------------
(* SetupConn. *)

\* listenLoop takes a slot and accepts a connection that checkInboundConn lets
\* pass; Stop closes the listener.
Accept(i) ==
    /\ running
    /\ slot[i] = "free"
    /\ slot' = [slot EXCEPT ![i] = "enc"]
    /\ UNCHANGED dialVars
    /\ UNCHANGED <<running, loop, leaving, phase, inbound, inboundCount, trusted,
                   slotNode, flagged, drops, sending, subs, caller, wasTrusted>>

\* A handshake fails, the peer's identity is not the one expected, or the
\* checkpoint finds srv.quit closed.
SetupFails(c) ==
    /\ UNCHANGED <<static, staticPool, connected, dialPeers, history, reading, dialLoop>>
    /\ UNCHANGED <<running, loop, leaving, phase, inbound, inboundCount, trusted,
                   drops, sending, subs, caller, wasTrusted>>
    /\ flagged' = flagged \ {c}
    /\ \/ /\ c \in Nodes
          /\ task[c] \in {"enc", "proto"}
          /\ task' = [task EXCEPT ![c] = "done"]
          /\ UNCHANGED <<slot, slotNode>>
       \/ /\ c \in Slots
          /\ slot[c] \in {"enc", "proto"}
          /\ slot' = [slot EXCEPT ![c] = "free"]
          /\ slotNode' = [slotNode EXCEPT ![c] = self]
          /\ UNCHANGED task

\* The limit looked at one peer too late.
postHandshakeChecks_Late(n, isInbound, isTrusted) ==
    /\ isTrusted \/ Cardinality(peers) <= MaxPeers
    /\ isTrusted \/ ~isInbound \/ inboundCount < maxInboundConns
    /\ n \notin peers
    /\ n # self

\* postHandshakeChecks for a connection of n.
postHandshakeChecks(n, isInbound, isTrusted) ==
    /\ isTrusted \/ Cardinality(peers) < MaxPeers
    /\ isTrusted \/ ~isInbound \/ inboundCount < maxInboundConns
    /\ n \notin peers
    /\ n # self

\* addPeerChecks looks again: the peer set may have changed in between.
addPeerChecks(n, isInbound, isTrusted) == postHandshakeChecks(n, isInbound, isTrusted)

\* The first checkpoint, of a dialed connection and of an accepted one whose
\* handshake showed the node n.
PostHandshakeDialed(n) ==
    /\ loop = "select"
    /\ task[n] = "enc"
    /\ UNCHANGED <<static, staticPool, connected, dialPeers, history, reading, dialLoop>>
    /\ UNCHANGED <<running, loop, leaving, phase, inbound, inboundCount, trusted,
                   slot, slotNode, drops, sending, subs, caller, wasTrusted>>
    /\ IF postHandshakeChecks(n, FALSE, n \in trusted)
       THEN /\ task' = [task EXCEPT ![n] = "proto"]
            /\ flagged' = IF n \in trusted THEN flagged \cup {n} ELSE flagged
       ELSE /\ task' = [task EXCEPT ![n] = "done"]
            /\ UNCHANGED flagged

PostHandshakeAccepted(i, n) ==
    /\ loop = "select"
    /\ slot[i] = "enc"
    /\ UNCHANGED dialVars
    /\ UNCHANGED <<running, loop, leaving, phase, inbound, inboundCount, trusted,
                   drops, sending, subs, caller, wasTrusted>>
    /\ IF postHandshakeChecks(n, TRUE, n \in trusted)
       THEN /\ slot' = [slot EXCEPT ![i] = "proto"]
            /\ slotNode' = [slotNode EXCEPT ![i] = n]
            /\ flagged' = IF n \in trusted THEN flagged \cup {i} ELSE flagged
       ELSE /\ slot' = [slot EXCEPT ![i] = "free"]
            /\ UNCHANGED <<slotNode, flagged>>

\* The second checkpoint: the peer is launched and the dial loop told, or the
\* connection is closed.  Either way SetupConn returns.
AddPeerDialed(n) ==
    /\ loop = "select"
    /\ task[n] = "proto"
    /\ flagged' = flagged \ {n}
    /\ UNCHANGED <<running, loop, leaving, inbound, inboundCount, trusted,
                   slot, slotNode, drops, sending, subs, caller, wasTrusted>>
    /\ IF addPeerChecks(n, FALSE, n \in flagged)
       THEN /\ phase' = [phase EXCEPT ![n] = "adding"]
            /\ PeerAdded(n, TRUE, [task EXCEPT ![n] = "done"])
       ELSE /\ task' = [task EXCEPT ![n] = "done"]
            /\ UNCHANGED <<static, staticPool, connected, dialPeers, history, reading, dialLoop>>
            /\ UNCHANGED phase

AddPeerAccepted(i) ==
    /\ loop = "select"
    /\ slot[i] = "proto"
    /\ slot' = [slot EXCEPT ![i] = "free"]
    /\ slotNode' = [slotNode EXCEPT ![i] = self]
    /\ flagged' = flagged \ {i}
    /\ UNCHANGED <<running, loop, leaving, trusted, drops, sending, subs, caller, wasTrusted>>
    /\ IF addPeerChecks(slotNode[i], TRUE, i \in flagged)
       THEN /\ phase' = [phase EXCEPT ![slotNode[i]] = "adding"]
            /\ inbound' = inbound \cup {slotNode[i]}
            /\ inboundCount' = inboundCount + 1
            /\ PeerAdded(slotNode[i], FALSE, task)
       ELSE /\ UNCHANGED dialVars
            /\ UNCHANGED <<phase, inbound, inboundCount>>

-----------------------------------------------------------------------------
(* The other events of the run loop. *)

AddTrusted(n) ==
    /\ loop = "select"
    /\ n \notin trusted
    /\ trusted' = trusted \cup {n}
    /\ wasTrusted' = wasTrusted \cup {n}
    /\ UNCHANGED dialVars
    /\ UNCHANGED <<running, loop, leaving, phase, inbound, inboundCount, slot,
                   slotNode, flagged, drops, sending, subs, caller>>

RemoveTrusted(n) ==
    /\ loop = "select"
    /\ n \in trusted
    /\ trusted' = trusted \ {n}
    /\ UNCHANGED dialVars
    /\ UNCHANGED <<running, loop, leaving, phase, inbound, inboundCount, slot,
                   slotNode, flagged, drops, sending, subs, caller, wasTrusted>>

\* The goroutine of a peer that left the set has its Drop event to send.
\* Without callers nobody ever listens, and the event is left out.
ToAnnounce(n) ==
    IF Callers = {} THEN UNCHANGED drops
    ELSE drops[n] < MaxDrops /\ drops' = [drops EXCEPT ![n] = @ + 1]

\* case pd := <-srv.delpeer.  The goroutine goes on to send Drop.
DelPeer(n) ==
    /\ loop = "select"
    /\ phase[n] = "closed"
    /\ phase' = [phase EXCEPT ![n] = "none"]
    /\ ToAnnounce(n)
    /\ inbound' = inbound \ {n}
    /\ inboundCount' = IF n \in inbound THEN inboundCount - 1 ELSE inboundCount
    /\ PeerRemoved(n, n \notin inbound)
    /\ UNCHANGED <<running, loop, leaving, trusted, slot, slotNode, flagged,
                   sending, subs, caller, wasTrusted>>

\* The operation RemovePeer runs on the loop, up to the blocking Disconnect.
RemovePeer(r, n) ==
    /\ loop = "select"
    /\ caller[r].at = "idle"
    /\ RemoveStatic(n)
    /\ UNCHANGED <<running, phase, inbound, inboundCount, trusted, slot, slotNode,
                   flagged, drops, sending, wasTrusted>>
    /\ IF n \in peers
       THEN /\ caller' = [caller EXCEPT ![r] = [at |-> "op", node |-> n, ch |-> <<>>]]
            /\ subs' = subs \cup {r}
            /\ loop' = "disconnect"
            /\ leaving' = {n}
       ELSE UNCHANGED <<caller, subs, loop, leaving>>

\* Peer.Disconnect returns: the peer's loop took the reason, or has ended.
Disconnected(n) ==
    /\ loop \in {"disconnect", "quit"}
    /\ n \in leaving
    /\ phase[n] \in {"running", "closed"}
    /\ phase' = [phase EXCEPT ![n] = "closed"]
    /\ leaving' = leaving \ {n}
    /\ UNCHANGED dialVars
    /\ UNCHANGED <<running, inbound, inboundCount, trusted, slot, slotNode, flagged,
                   drops, sending, subs, wasTrusted>>
    /\ IF leaving' # {} THEN UNCHANGED <<loop, caller>>
       ELSE /\ loop' = IF loop = "quit" THEN "drain" ELSE "select"
            /\ caller' = [r \in Callers |->
                            IF caller[r].at = "op" THEN [caller[r] EXCEPT !.at = "wait"]
                            ELSE caller[r]]

-----------------------------------------------------------------------------
(* The goroutines of the peers and the feed of peer events. *)

\* Peer.run ends on its own: a read or write error, the remote side's
\* disconnect, or a protocol's error.
PeerEnds(n) ==
    /\ phase[n] = "running"
    /\ phase' = [phase EXCEPT ![n] = "closed"]
    /\ UNCHANGED dialVars
    /\ UNCHANGED <<running, loop, leaving, inbound, inboundCount, trusted, slot, slotNode,
                   flagged, drops, sending, subs, caller, wasTrusted>>

\* The send of event e is over when no channel is left: the lock is released,
\* and a goroutine that announced its peer enters Peer.run.
SendOver(e, left) ==
    /\ sending' = IF left = {} THEN None ELSE [event |-> e, left |-> left]
    /\ phase' = IF left = {} /\ e[1] = "add" THEN [phase EXCEPT ![e[2]] = "running"] ELSE phase

\* Feed.Send takes the lock and the channels subscribed so far.
Send(e) ==
    /\ sending = None
    /\ \/ /\ e[1] = "add"
          /\ phase[e[2]] = "adding"
          /\ UNCHANGED drops
       \/ /\ e[1] = "drop"
          /\ drops[e[2]] > 0
          /\ drops' = [drops EXCEPT ![e[2]] = @ - 1]
    /\ SendOver(e, subs)
    /\ UNCHANGED dialVars
    /\ UNCHANGED <<running, loop, leaving, inbound, inboundCount, trusted, slot, slotNode,
                   flagged, subs, caller, wasTrusted>>

\* A Send that skips a channel without room.
Deliver_Lossy(r) ==
    /\ sending # None
    /\ r \in sending.left
    /\ caller' = [caller EXCEPT ![r].ch = IF @ = <<>> THEN <<sending.event>> ELSE @]
    /\ SendOver(sending.event, sending.left \ {r})
    /\ UNCHANGED dialVars
    /\ UNCHANGED <<running, loop, leaving, inbound, inboundCount, trusted, slot, slotNode,
                   flagged, drops, subs, wasTrusted>>

\* Feed.Send puts the event into a caller's channel, which has room for one.
Deliver(r) ==
    /\ sending # None
    /\ r \in sending.left
    /\ caller[r].ch = <<>>
    /\ caller' = [caller EXCEPT ![r].ch = <<sending.event>>]
    /\ SendOver(sending.event, sending.left \ {r})
    /\ UNCHANGED dialVars
    /\ UNCHANGED <<running, loop, leaving, inbound, inboundCount, trusted, slot, slotNode,
                   flagged, drops, subs, wasTrusted>>

\* RemovePeer reads its channel; it returns on the Drop of its node, and
\* Unsubscribe takes its channel out of a Send in progress.
Receive(r) ==
    /\ caller[r].at = "wait"
    /\ caller[r].ch # <<>>
    /\ UNCHANGED dialVars
    /\ UNCHANGED <<running, loop, leaving, inbound, inboundCount, trusted, slot, slotNode,
                   flagged, drops, wasTrusted>>
    /\ IF Head(caller[r].ch) = <<"drop", caller[r].node>>
       THEN /\ caller' = [caller EXCEPT ![r] = Idle]
            /\ subs' = subs \ {r}
            /\ IF sending = None THEN UNCHANGED <<sending, phase>>
               ELSE SendOver(sending.event, sending.left \ {r})
       ELSE /\ caller' = [caller EXCEPT ![r].ch = <<>>]
            /\ UNCHANGED <<subs, sending, phase>>

-----------------------------------------------------------------------------
(* Shutdown. *)

Stop ==
    /\ running
    /\ running' = FALSE
    /\ UNCHANGED dialVars
    /\ UNCHANGED <<loop, leaving, phase, inbound, inboundCount, trusted, slot, slotNode,
                   flagged, drops, sending, subs, caller, wasTrusted>>

\* The loop waits for its peers without disconnecting them.
LoopQuits_NoDisconnect ==
    /\ loop = "select"
    /\ ~running
    /\ loop' = "drain"
    /\ UNCHANGED dialVars
    /\ UNCHANGED <<running, leaving, phase, inbound, inboundCount, trusted, slot, slotNode,
                   flagged, drops, sending, subs, caller, wasTrusted>>

\* case <-srv.quit: every peer is to be disconnected.
LoopQuits ==
    /\ loop = "select"
    /\ ~running
    /\ loop' = IF peers = {} THEN "drain" ELSE "quit"
    /\ leaving' = peers
    /\ UNCHANGED dialVars
    /\ UNCHANGED <<running, phase, inbound, inboundCount, trusted, slot, slotNode,
                   flagged, drops, sending, subs, caller, wasTrusted>>

\* p := <-srv.delpeer while the loop spins down: the dial loop is not told.
DrainPeer(n) ==
    /\ loop = "drain"
    /\ phase[n] = "closed"
    /\ phase' = [phase EXCEPT ![n] = "none"]
    /\ ToAnnounce(n)
    /\ inbound' = inbound \ {n}
    /\ UNCHANGED dialVars
    /\ UNCHANGED <<running, loop, leaving, inboundCount, trusted, slot, slotNode,
                   flagged, sending, subs, caller, wasTrusted>>

\* The deferred dialsched.stop() cancels the context and waits for the dial
\* loop, which waits for its tasks.
StopDialer ==
    /\ loop = "drain"
    /\ peers = {}
    /\ loop' = "stop"
    /\ CtxDone
    /\ UNCHANGED <<running, leaving, phase, inbound, inboundCount, trusted, slot, slotNode,
                   flagged, drops, sending, subs, caller, wasTrusted>>

LoopDone ==
    /\ loop = "stop"
    /\ Dialing(task) = {}
    /\ loop' = "done"
    /\ UNCHANGED dialVars
    /\ UNCHANGED <<running, leaving, phase, inbound, inboundCount, trusted, slot, slotNode,
                   flagged, drops, sending, subs, caller, wasTrusted>>

\* Stop returns: the run loop and listenLoop, with its slots, are done.
Stopped == loop = "done" /\ \A i \in Slots : slot[i] = "free"

Events == {"add", "drop"} \X Nodes

Next ==
    \/ DialStep
    \/ \E n \in Nodes :
         \/ DialConnects(n)
         \/ PostHandshakeDialed(n)
         \/ AddPeerDialed(n)
         \/ DelPeer(n)
         \/ Disconnected(n)
         \/ PeerEnds(n)
         \/ DrainPeer(n)
    \/ \E i \in Slots : Accept(i) \/ AddPeerAccepted(i)
    \/ \E i \in Slots, n \in Nodes : PostHandshakeAccepted(i, n)
    \/ \E c \in Nodes \cup Slots : SetupFails(c)
    \/ \E n \in Trusted : AddTrusted(n) \/ RemoveTrusted(n)
    \/ \E r \in Callers, n \in Removable : RemovePeer(r, n)
    \/ \E e \in Events : Send(e)
    \/ \E r \in Callers : Deliver(r) \/ Receive(r)
    \/ Stop
    \/ LoopQuits
    \/ StopDialer
    \/ LoopDone

Spec == Init /\ [][Next]_vars

\* Fairness.  Dials and handshakes have deadlines, the history's timer fires,
\* goroutines that can run are run, and a select whose case stays ready takes
\* it.  Goroutines that wait for the feed's lock, a channel, get it in turn.
\* No peer needs to end, and no call needs to be made.
Fairness ==
    /\ \A n \in Nodes :
         /\ WF_vars((UNCHANGED serverVars /\ DialFails(n)) \/ DialConnects(n))
         /\ WF_vars(SetupFails(n) \/ PostHandshakeDialed(n) \/ AddPeerDialed(n))
         /\ WF_vars(UNCHANGED serverVars /\ (TaskDone(n) \/ TaskAwaited(n)))
         /\ WF_vars(UNCHANGED serverVars
                    /\ \E E \in SUBSET history : n \in E /\ ExpireHistory(E))
         /\ WF_vars(DelPeer(n) \/ DrainPeer(n))
         /\ SF_vars(Send(<<"add", n>>))
         /\ SF_vars(Send(<<"drop", n>>))
    /\ \A i \in Slots :
         WF_vars(SetupFails(i) \/ AddPeerAccepted(i) \/ \E n \in Nodes : PostHandshakeAccepted(i, n))
    /\ \A r \in Callers : WF_vars(Deliver(r) \/ Receive(r))
    /\ WF_vars(LoopQuits \/ StopDialer \/ LoopDone \/ \E n \in Nodes : Disconnected(n))

FairSpec == Spec /\ Fairness

-----------------------------------------------------------------------------

\* Types of what the loops, the peers and the feed keep; in particular neither
\* count of peers goes below zero, and a caller's channel holds events only.
TypeOK ==
    /\ static \subseteq Nodes /\ staticPool \subseteq Nodes
    /\ task \in [Nodes -> Stages]
    /\ connected \subseteq Nodes
    /\ dialPeers \in Nat
    /\ history \subseteq Nodes
    /\ reading \in BOOLEAN /\ dialLoop \in BOOLEAN
    /\ running \in BOOLEAN
    /\ loop \in Loops
    /\ leaving \subseteq Nodes
    /\ phase \in [Nodes -> Phases]
    /\ inbound \subseteq Nodes
    /\ inboundCount \in Nat
    /\ trusted \subseteq Nodes /\ wasTrusted \subseteq Nodes
    /\ slot \in [Slots -> {"free", "enc", "proto"}]
    /\ slotNode \in [Slots -> Nodes]
    /\ flagged \subseteq Nodes \cup Slots
    /\ drops \in [Nodes -> 0..MaxDrops]
    /\ sending = None \/ (sending.event \in Events /\ sending.left \subseteq Callers)
    /\ subs \subseteq Callers
    /\ \A r \in Callers : /\ caller[r].at \in {"idle", "op", "wait"}
                          /\ caller[r].node \in Nodes
                          /\ caller[r].ch = <<>> \/ Head(caller[r].ch) \in Events

\* The run loop has not begun to spin down.
Serving == loop \in {"select", "disconnect", "quit"}

\* While the server runs, the dial loop's picture of the peers is the run
\* loop's: the same nodes, and a count of dialed peers that is exact although
\* it is kept by increments of two goroutines; the run loop's own count of
\* inbound peers is exact too.
DialerAgrees ==
    Serving => /\ connected = peers
               /\ inbound \subseteq peers
               /\ dialPeers = Cardinality(peers \ inbound)
               /\ inboundCount = Cardinality(inbound)

\* A static node is in the pool exactly when it may be dialed: none is
\* forgotten when a task ends, a peer leaves or the history expires, and none
\* is launched while it is connected, being dialed or recently dialed.
PoolExact ==
    dialLoop => staticPool = {n \in static : checkDial(n, task, connected, history)}

\* Candidates from discovery are read only when every static node that may be
\* dialed has been launched.
StaticFirst == dialLoop /\ reading => staticPool = {}

\* Tasks whose connection may still become a peer.
Undecided(tk) == {n \in Nodes : tk[n] \in {"dial", "enc", "proto"}}

\* The dialed peers, with the dials that may still become peers, never exceed
\* twice the limit: two dials are launched for every free place, and a task
\* whose peer is counted no longer counts itself.
DialedBounded == Cardinality(peers \ inbound) + Cardinality(Undecided(task)) <= 2 * maxDialPeers

\* The limits of Config.MaxPeers and maxInboundConns hold for the nodes that
\* were never trusted, whatever passed the first checkpoint at the same time.
LimitsHold ==
    /\ Cardinality(peers \ wasTrusted) <= MaxPeers
    /\ Cardinality(inbound \ wasTrusted) <= maxInboundConns

\* The dial loop's records are those of the run loop, and its pool and its
\* reading of discovery follow from them.
DialerSound == DialerAgrees /\ PoolExact /\ StaticFirst

\* The limits on peers, inbound peers and dials hold at once.
LimitsSound == LimitsHold /\ DialedBounded

\* The run loop waits in Disconnect for a peer that cannot start, because its
\* Add event waits for room in the channel of the caller that waits for the
\* run loop.
Jammed ==
    /\ loop = "disconnect"
    /\ sending # None
    /\ \E n \in leaving : phase[n] = "adding"
    /\ \E r \in sending.left : caller[r].at = "op" /\ caller[r].ch # <<>>

\* Stop returns, unless the run loop is jammed by RemovePeer.
StopCompletes == ~running ~> (Stopped \/ Jammed)

\* RemovePeer returns, with the same exception.
RemoveCompletes == \A r \in Callers : caller[r].at # "idle" ~> (caller[r].at = "idle" \/ Jammed)

\* A static node does not stay unconnected while dialed peers are below the
\* limit: it is dialed again and again.
StaticDialed ==
    \A n \in Static \ {self} :
      []<>(\/ n \notin static
           \/ n \in connected
           \/ task[n] # "none"
           \/ dialPeers >= maxDialPeers
           \/ ~running
           \/ Jammed)

\* RemovePeer returns.
RemoveReturns == \A r \in Callers : caller[r].at # "idle" ~> caller[r].at = "idle"
=============================================================================
