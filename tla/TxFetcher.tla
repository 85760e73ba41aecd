------------------------------ MODULE TxFetcher ------------------------------
(***************************************************************************)
(* The event loop of the transaction fetcher (eth/fetcher/tx_fetcher.go).   *)
(*                                                                         *)
(* Peers announce transaction hashes.  A hash first waits for a broadcast   *)
(* (waitlist), is then queued for retrieval (announced) and finally handed  *)
(* to one idle peer (fetching), with the other announcers as alternates.    *)
(* One goroutine owns all the maps and handles one event at a time, so one  *)
(* handler of its select statement is one action.  The goroutines of the    *)
(* peers feed it through unbuffered channels in any order: the arguments of *)
(* Notify, Enqueue and Drop are therefore unconstrained.                    *)
(*                                                                         *)
(* A Go map from keys to sets is a total function here, {} standing for an  *)
(* absent key.  Time is counted in ticks, as the age of a waiting hash or   *)
(* of a request.  The arrival order of announcements (txSeq) and their type *)
(* and size only decide which of the candidate hashes fit in one request    *)
(* and which peers are disconnected: both are nondeterministic choices.     *)
(***************************************************************************)
EXTENDS Integers, FiniteSets

CONSTANTS
    Peers,              \* peers that announce and deliver transactions
    Hashes,             \* transaction hashes
    Blobs,              \* hashes announced with the blob transaction type
    MaxTxAnnounces,     \* maxTxAnnounces
    MaxTxRetrievals,    \* maxTxRetrievals
    TxArriveTimeout,    \* txArriveTimeout, in ticks
    TxGatherSlack,      \* txGatherSlack, in ticks
    TxFetchTimeout,     \* txFetchTimeout, in ticks
    MaxTriggers,        \* bound: timer firings not yet handled by the loop
    NoPeer,             \* "not fetching"
    NoRequest           \* "no request in flight"

ASSUME FetcherAssumption ==
    /\ Blobs \subseteq Hashes
    /\ MaxTxAnnounces \in Nat \ {0}
    /\ MaxTxRetrievals \in Nat \ {0}
    /\ TxArriveTimeout \in Nat \ {0}
    /\ TxGatherSlack \in Nat \ {0}
    /\ TxFetchTimeout \in Nat \ {0}
    /\ MaxTriggers \in Nat \ {0}
    /\ NoPeer \notin Peers
    /\ NoRequest \notin [hashes : SUBSET Hashes, stolen : SUBSET Hashes, age : Nat]
    /\ IsFiniteSet(Peers)
    /\ IsFiniteSet(Hashes)

VARIABLES
    waitlist,           \* stage 1: hash -> peers that announced it
    waittime,           \* hash -> ticks spent in the waitlist
    waitslots,          \* peer -> its hashes in the waitlist
    announces,          \* stages 2, 3: peer -> hashes it can be asked for
    announced,          \* stage 2: hash -> peers that can be asked for it
    fetching,           \* stage 3: hash -> peer it is being retrieved from
    requests,           \* peer -> its request in flight
    alternates,         \* stage 3: hash -> peers to ask if retrieval fails
    waitTimer,          \* ticks until the wait timer fires
    timeoutTimer,       \* ticks until the timeout timer fires
    waitTriggers,       \* firings of the wait timer not handled yet
    timeoutTriggers,    \* firings of the timeout timer not handled yet
    stopped,            \* the quit channel is closed
    panicked            \* a panic of the loop was hit

waitVars == <<waitlist, waittime, waitslots>>
fetchVars == <<announces, announced, fetching, requests, alternates>>
timerVars == <<waitTimer, timeoutTimer, waitTriggers, timeoutTriggers>>
vars == <<waitVars, fetchVars, timerVars, stopped, panicked>>

NoTimer == -1

Request == [hashes : SUBSET Hashes, stolen : SUBSET Hashes, age : 0 .. TxFetchTimeout]

\* Types of the fetcher's maps, timers and trigger channels.
TypeOK ==
    /\ waitlist \in [Hashes -> SUBSET Peers]
    /\ waittime \in [Hashes -> 0 .. TxArriveTimeout]
    /\ waitslots \in [Peers -> SUBSET Hashes]
    /\ announces \in [Peers -> SUBSET Hashes]
    /\ announced \in [Hashes -> SUBSET Peers]
    /\ fetching \in [Hashes -> Peers \cup {NoPeer}]
    /\ requests \in [Peers -> Request \cup {NoRequest}]
    /\ alternates \in [Hashes -> SUBSET Peers]
    /\ waitTimer \in {NoTimer} \cup 0 .. TxArriveTimeout
    /\ timeoutTimer \in {NoTimer} \cup 0 .. TxFetchTimeout
    /\ waitTriggers \in 0 .. MaxTriggers
    /\ timeoutTriggers \in 0 .. MaxTriggers
    /\ stopped \in BOOLEAN
    /\ panicked \in BOOLEAN

Init ==
    /\ waitlist = [h \in Hashes |-> {}]
    /\ waittime = [h \in Hashes |-> 0]
    /\ waitslots = [p \in Peers |-> {}]
    /\ announces = [p \in Peers |-> {}]
    /\ announced = [h \in Hashes |-> {}]
    /\ fetching = [h \in Hashes |-> NoPeer]
    /\ requests = [p \in Peers |-> NoRequest]
    /\ alternates = [h \in Hashes |-> {}]
    /\ waitTimer = NoTimer
    /\ timeoutTimer = NoTimer
    /\ waitTriggers = 0
    /\ timeoutTriggers = 0
    /\ stopped = FALSE
    /\ panicked = FALSE

-----------------------------------------------------------------------------
(***************************************************************************)
(* Timers                                                                  *)
(***************************************************************************)

Waiting(wl) == {h \in Hashes : wl[h] # {}}

\* The requests the timeout timer is armed for: the ones not timed out yet.
Live(req) == {p \in Peers : req[p] # NoRequest /\ req[p].hashes # {}}

\* How long a timer is armed for, given the ages of what it guards: until the
\* oldest expires.  The loop that looks for the oldest stops early at any item
\* that expires within the slack.
Remaining(timeout, ages) ==
    {r \in 0 .. timeout :
        \/ /\ \A a \in ages : r <= timeout - a
           /\ r = timeout \/ \E a \in ages : r = timeout - a
        \/ r < TxGatherSlack /\ \E a \in ages : a > 0 /\ r = timeout - a}

\* Mutant: the wrong timeout constant.
RescheduleWait_FetchTimeout(wl, wt) ==
    waitTimer' \in Remaining(TxFetchTimeout, {wt[h] : h \in Waiting(wl)})

\* Mutant: the timer restarts from now, not from the oldest hash.
RescheduleWait_FromNow(wl, wt) == waitTimer' = TxArriveTimeout

RescheduleWait(wl, wt) ==
    waitTimer' \in Remaining(TxArriveTimeout, {wt[h] : h \in Waiting(wl)})

\* Mutant: the timer restarts from now, not from the oldest request.
RescheduleTimeout_FromNow(req) == timeoutTimer' = TxFetchTimeout

RescheduleTimeout(req) ==
    timeoutTimer' \in Remaining(TxFetchTimeout, {req[p].age : p \in Live(req)})

-----------------------------------------------------------------------------
(***************************************************************************)
(* scheduleFetches: hand queued hashes to the idle peers among actives.     *)
(* The arguments are the values the maps have when the handler calls it.    *)
(*                                                                         *)
(* An assignment gives the peer each hash is newly requested from.  The     *)
(* loop over the idle peers runs in map order, and each peer takes what the *)
(* earlier ones left of its announcements, up to the number and size        *)
(* limits, at least one if any is left: so a peer stays without work only   *)
(* if all it could be asked for is being fetched.                          *)
(***************************************************************************)
\* Mutant: a busy peer is asked again.
Idle_Busy(anns, req, actives) == {p \in actives : anns[p] # {}}

Idle(anns, req, actives) == {p \in actives : req[p] = NoRequest /\ anns[p] # {}}

Assignments(anns, fet, idle) ==
    {to \in [Hashes -> idle \cup {NoPeer}] :
        /\ \A h \in Hashes : to[h] # NoPeer => fet[h] = NoPeer /\ h \in anns[to[h]]
        /\ \A p \in idle :
              /\ Cardinality({h \in Hashes : to[h] = p}) <= MaxTxRetrievals
              /\ \/ \E h \in Hashes : to[h] = p
                 \/ \A h \in anns[p] : fet[h] # NoPeer \/ to[h] # NoPeer}

ScheduleFetches(anns, anncd, fet, req, alts, actives, panic) ==
    LET idle == Idle(anns, req, actives) IN
    \E to \in Assignments(anns, fet, idle) :
        LET alloc(p) == {h \in Hashes : to[h] = p} IN
        /\ announces' = anns
        /\ fetching' = [h \in Hashes |-> IF to[h] # NoPeer THEN to[h] ELSE fet[h]]
        /\ alternates' = [h \in Hashes |-> IF to[h] # NoPeer THEN anncd[h] ELSE alts[h]]
        /\ announced' = [h \in Hashes |-> IF to[h] # NoPeer THEN {} ELSE anncd[h]]
        /\ requests' = [p \in Peers |->
              IF p \in idle /\ alloc(p) # {}
              THEN [hashes |-> alloc(p), stolen |-> {}, age |-> 0]
              ELSE req[p]]
        /\ panicked' = (panic \/ \E h \in Hashes : to[h] # NoPeer /\ alts[h] # {})

\* scheduleFetches as its callers see the timer: it arms the timeout timer
\* only when it sends the first request.
RescheduleIfIdle(req) ==
    IF (\A p \in Peers : req[p] = NoRequest) /\ (\E p \in Peers : requests'[p] # NoRequest)
    THEN RescheduleTimeout(requests')
    ELSE timeoutTimer' = timeoutTimer

\* Mutant: a nil whitelist selects nobody.
AllPeers_None(anns) == {}

\* The peers a nil whitelist stands for.
AllPeers(anns) == {p \in Peers : anns[p] # {}}

-----------------------------------------------------------------------------
(***************************************************************************)
(* The handlers of loop, in the order of its select statement.              *)
(***************************************************************************)
Running == ~stopped /\ ~panicked

\* How many of n new announcements the loop keeps of a peer that uses `used`
\* of its slots.
Kept(used, n) ==
    IF used >= MaxTxAnnounces THEN 0
    ELSE IF used + n > MaxTxAnnounces THEN used + n - MaxTxAnnounces
    ELSE n

\* Mutant: a queued hash is not recognised and enters the waitlist again.
Queued_Missed(S) == {}

\* The hashes of S that are queued for retrieval already.
Queued(S) == {h \in S : announced[h] # {}}

\* Mutant: only blobs arm the timer.
NeedWaitTimer_BlobOnly(new) == new \cap Blobs # {}

\* Whether hashes that enter the waitlist call for arming its timer.
NeedWaitTimer(new) ==
    (new \cap Blobs # {}) \/ (Waiting(waitlist) = {} /\ new # {})

\* Notify, then case ann := <-f.notify.  S is what passed Notify's racy filter
\* of known and underpriced transactions.
Notify(p, S) ==
    /\ Running
    /\ S # {}
    /\ \E T \in SUBSET S :
        /\ Cardinality(T) = Kept(Cardinality(waitslots[p]) + Cardinality(announces[p]),
                                 Cardinality(S))
        /\ LET downloading == {h \in T : alternates[h] # {}}
               queued == Queued(T) \ downloading
               early == T \ (downloading \cup queued)
               new == early \ Waiting(waitlist)
               anns == [announces EXCEPT ![p] = @ \cup downloading \cup queued]
               anncd == [h \in Hashes |->
                            IF h \in queued THEN announced[h] \cup {p} ELSE announced[h]]
               alts == [h \in Hashes |->
                            IF h \in downloading THEN alternates[h] \cup {p} ELSE alternates[h]]
           IN
           /\ waitlist' = [h \in Hashes |->
                              IF h \in early THEN waitlist[h] \cup {p} ELSE waitlist[h]]
           /\ waitslots' = [waitslots EXCEPT ![p] = @ \cup early]
           /\ waittime' = [h \in Hashes |->
                              IF h \notin new THEN waittime[h]
                              ELSE IF h \in Blobs THEN TxArriveTimeout ELSE 0]
           /\ IF NeedWaitTimer(new)
              THEN RescheduleWait(waitlist', waittime')
              ELSE waitTimer' = waitTimer
           /\ ScheduleFetches(anns, anncd, fetching, requests, alts,
                              IF announces[p] = {} THEN {p} ELSE {}, FALSE)
           /\ RescheduleIfIdle(requests)
    /\ UNCHANGED <<waitTriggers, timeoutTriggers, stopped>>

\* Mutant: the slot is only moved for a peer without announcements.
SlotsOf_NewPeer(p, S) == {h \in S : p \in waitlist[h] /\ announces[p] = {}}

\* The hashes of S that p announced and that still wait.
SlotsOf(p, S) == {h \in S : p \in waitlist[h]}

\* case <-waitTrigger
WaitTrigger ==
    /\ Running
    /\ waitTriggers > 0
    /\ waitTriggers' = waitTriggers - 1
    /\ LET expired == {h \in Waiting(waitlist) :
                          waittime[h] + TxGatherSlack > TxArriveTimeout}
           slots(p) == SlotsOf(p, expired)
           anns == [p \in Peers |-> announces[p] \cup slots(p)]
           anncd == [h \in Hashes |-> IF h \in expired THEN waitlist[h] ELSE announced[h]]
       IN
       /\ waitlist' = [h \in Hashes |-> IF h \in expired THEN {} ELSE waitlist[h]]
       /\ waittime' = [h \in Hashes |-> IF h \in expired THEN 0 ELSE waittime[h]]
       /\ waitslots' = [p \in Peers |-> waitslots[p] \ slots(p)]
       /\ IF Waiting(waitlist') # {}
          THEN RescheduleWait(waitlist', waittime')
          ELSE waitTimer' = waitTimer
       /\ ScheduleFetches(anns, anncd, fetching, requests, alternates,
                          UNION {waitlist[h] : h \in expired},
                          \E h \in expired : announced[h] # {})
       /\ RescheduleIfIdle(requests)
    /\ UNCHANGED <<timeoutTriggers, stopped>>

\* Mutant: stolen hashes are not skipped.
Pending_Stolen(req, p) == IF req[p] = NoRequest THEN {} ELSE req[p].hashes

\* The hashes a request is still responsible for.
Pending(req, p) ==
    IF req[p] = NoRequest THEN {} ELSE req[p].hashes \ req[p].stolen

\* case <-timeoutTrigger
TimeoutTrigger ==
    /\ Running
    /\ timeoutTriggers > 0
    /\ timeoutTriggers' = timeoutTriggers - 1
    /\ LET expired == {p \in Peers : /\ requests[p] # NoRequest
                                     /\ requests[p].age + TxGatherSlack > TxFetchTimeout}
           failed(h) == {p \in expired : h \in Pending(requests, p)}
           anns == [p \in Peers |-> IF p \in expired
                                    THEN announces[p] \ Pending(requests, p)
                                    ELSE announces[p]]
           anncd == [h \in Hashes |->
                       (IF failed(h) # {} /\ alternates[h] # {}
                        THEN alternates[h] ELSE announced[h]) \ failed(h)]
           fet == [h \in Hashes |-> IF failed(h) # {} THEN NoPeer ELSE fetching[h]]
           alts == [h \in Hashes |-> IF failed(h) # {} THEN {} ELSE alternates[h]]
           req == [p \in Peers |-> IF p \in expired
                                   THEN [requests[p] EXCEPT !.hashes = {}]
                                   ELSE requests[p]]
       IN
       /\ ScheduleFetches(anns, anncd, fet, req, alts, AllPeers(anns),
                          \E h \in Hashes : failed(h) # {} /\ announced[h] # {})
       /\ RescheduleTimeout(requests')
    /\ UNCHANGED <<waitVars, waitTimer, waitTriggers, stopped>>

\* Mutant: a hash being fetched is left alone.
Gone_QueuedOnly(D) == {h \in D : announced[h] # {}}

\* The delivered hashes that are queued or being fetched, or are not tracked.
Gone(D) == D \ Waiting(waitlist)

\* Mutant: a broadcast by the requested peer does not steal.
Stolen_OthersOnly(p, D, direct, q) == {h \in Gone(D) : fetching[h] = q /\ q # p}

\* The hashes requested from q that the delivery of D by p makes superfluous:
\* p is someone else, or broadcast them.
Stolen(p, D, direct, q) ==
    {h \in Gone(D) : fetching[h] = q /\ (q # p \/ ~direct)}

\* The requests with the stolen hashes marked.
Robbed(p, D, direct) ==
    [q \in Peers |->
        IF requests[q] = NoRequest THEN NoRequest
        ELSE [requests[q] EXCEPT !.stolen = @ \cup Stolen(p, D, direct, q)]]

\* Enqueue, then case delivery := <-f.cleanup, for a broadcast, or for a reply
\* nobody waits for.
CleanUp(D, req, panic) ==
    LET gone == Gone(D) IN
    /\ announces' = [q \in Peers |-> announces[q] \ gone]
    /\ announced' = [h \in Hashes |-> IF h \in gone THEN {} ELSE announced[h]]
    /\ fetching' = [h \in Hashes |-> IF h \in gone THEN NoPeer ELSE fetching[h]]
    /\ alternates' = [h \in Hashes |-> IF h \in gone THEN {} ELSE alternates[h]]
    /\ requests' = req
    /\ panicked' = panic
    /\ UNCHANGED timeoutTimer

\* The rest of the handler for the reply to p's request: what the reply lacks
\* is queued again.  A hash before the last delivered one (`before`) is not
\* asked of p again; if nothing was delivered, none is.
Reply(p, D, req, panic) ==
    LET gone == Gone(D)
        answered == Pending(req, p)
        missing == answered \ D
    IN
    \E before \in IF req[p].hashes \cap D = {} THEN {missing} ELSE SUBSET missing :
        LET anns == [q \in Peers |-> (announces[q] \ gone) \ (IF q = p THEN before ELSE {})]
            others(h) == (IF h \in gone THEN {} ELSE alternates[h])
                             \ (IF h \in before THEN {p} ELSE {})
            anncd == [h \in Hashes |->
                         IF h \in missing /\ others(h) # {} THEN others(h)
                         ELSE IF h \in gone THEN {} ELSE announced[h]]
            fet == [h \in Hashes |-> IF h \in gone \cup answered THEN NoPeer ELSE fetching[h]]
            alts == [h \in Hashes |-> IF h \in gone \cup answered THEN {} ELSE alternates[h]]
            left == [req EXCEPT ![p] = NoRequest]
        IN
        /\ ScheduleFetches(anns, anncd, fet, left, alts, AllPeers(anns),
              panic \/ \E h \in missing \ gone : others(h) # {} /\ announced[h] # {})
        /\ RescheduleIfIdle(left)

Enqueue(p, D, direct) ==
    /\ Running
    /\ D # {} \/ direct
    /\ waitlist' = [h \in Hashes |-> IF h \in D THEN {} ELSE waitlist[h]]
    /\ waittime' = [h \in Hashes |-> IF h \in D THEN 0 ELSE waittime[h]]
    /\ waitslots' = [q \in Peers |-> waitslots[q] \ (D \cap Waiting(waitlist))]
    /\ LET req == Robbed(p, D, direct)
           panic == \E q \in Peers : requests[q] = NoRequest /\ Stolen(p, D, direct, q) # {}
       IN IF direct /\ requests[p] # NoRequest
          THEN Reply(p, D, req, panic)
          ELSE CleanUp(D, req, panic)
    /\ UNCHANGED <<waitTimer, waitTriggers, timeoutTriggers, stopped>>

\* Drop, then case drop := <-f.drop.  Called when a peer disconnects and when
\* a request could not be sent.
Drop(p) ==
    /\ Running
    /\ waitlist' = [h \in Hashes |-> IF h \in waitslots[p] THEN waitlist[h] \ {p}
                                                           ELSE waitlist[h]]
    /\ waittime' = [h \in Hashes |-> IF waitlist'[h] = {} THEN 0 ELSE waittime[h]]
    /\ waitslots' = [waitslots EXCEPT ![p] = {}]
    /\ IF waitslots[p] # {} /\ Waiting(waitlist') # {}
       THEN RescheduleWait(waitlist', waittime')
       ELSE waitTimer' = waitTimer
    /\ LET failed == Pending(requests, p)
           queued == [h \in Hashes |->
                        IF h \in failed /\ alternates[h] \ {p} # {}
                        THEN alternates[h] \ {p} ELSE announced[h]]
           anns == [announces EXCEPT ![p] = {}]
           anncd == [h \in Hashes |-> IF h \in announces[p] THEN queued[h] \ {p}
                                                            ELSE queued[h]]
           fet == [h \in Hashes |-> IF h \in failed THEN NoPeer ELSE fetching[h]]
           alts == [h \in Hashes |-> IF h \in failed THEN {} ELSE alternates[h]]
           req == [requests EXCEPT ![p] = NoRequest]
       IN IF requests[p] # NoRequest
          THEN /\ ScheduleFetches(anns, anncd, fet, req, alts, AllPeers(anns), FALSE)
               /\ RescheduleTimeout(requests')
          ELSE /\ announces' = anns
               /\ announced' = anncd
               /\ UNCHANGED <<fetching, alternates, requests, timeoutTimer, panicked>>
    /\ UNCHANGED <<waitTriggers, timeoutTriggers, stopped>>

\* Stop closes the quit channel; the loop returns.
Stop ==
    /\ Running
    /\ stopped' = TRUE
    /\ UNCHANGED <<waitVars, fetchVars, timerVars, panicked>>

-----------------------------------------------------------------------------
(***************************************************************************)
(* The clock and the timers it drives                                      *)
(***************************************************************************)

Older(age, timeout) == IF age < timeout THEN age + 1 ELSE age
Sooner(timer) == IF timer > 0 THEN timer - 1 ELSE timer

Tick ==
    /\ Running
    /\ waittime' = [h \in Hashes |->
          IF waitlist[h] = {} THEN waittime[h] ELSE Older(waittime[h], TxArriveTimeout)]
    /\ requests' = [p \in Peers |->
          IF requests[p] = NoRequest THEN NoRequest
          ELSE [requests[p] EXCEPT !.age = Older(@, TxFetchTimeout)]]
    /\ waitTimer' = Sooner(waitTimer)
    /\ timeoutTimer' = Sooner(timeoutTimer)
    /\ UNCHANGED <<waitlist, waitslots, announces, announced, fetching, alternates,
                   waitTriggers, timeoutTriggers, stopped, panicked>>

FireWait ==
    /\ Running
    /\ waitTimer = 0
    /\ waitTriggers < MaxTriggers
    /\ waitTimer' = NoTimer
    /\ waitTriggers' = waitTriggers + 1
    /\ UNCHANGED <<waitVars, fetchVars, timeoutTimer, timeoutTriggers, stopped, panicked>>

FireTimeout ==
    /\ Running
    /\ timeoutTimer = 0
    /\ timeoutTriggers < MaxTriggers
    /\ timeoutTimer' = NoTimer
    /\ timeoutTriggers' = timeoutTriggers + 1
    /\ UNCHANGED <<waitVars, fetchVars, waitTimer, waitTriggers, stopped, panicked>>

Next ==
    \/ \E p \in Peers, S \in SUBSET Hashes : Notify(p, S)
    \/ WaitTrigger
    \/ TimeoutTrigger
    \/ \E p \in Peers, D \in SUBSET Hashes, direct \in BOOLEAN : Enqueue(p, D, direct)
    \/ \E p \in Peers : Drop(p)
    \/ Stop
    \/ Tick
    \/ FireWait
    \/ FireTimeout

Spec == Init /\ [][Next]_vars

\* The clock runs, an expired timer fires, and the loop, whose select chooses
\* among the ready cases at random, handles a trigger that stays pending.  The
\* steps of the loop are named by the trigger they consume, which no other step
\* does, so that TLC need not run a handler to see that it is enabled.
Fairness ==
    /\ WF_vars(Tick)
    /\ WF_vars(FireWait)
    /\ WF_vars(FireTimeout)
    /\ WF_waitTriggers(Running /\ waitTriggers > 0 /\ waitTriggers' = waitTriggers - 1)
    /\ WF_timeoutTriggers(Running /\ timeoutTriggers > 0
                          /\ timeoutTriggers' = timeoutTriggers - 1)

FairSpec == Spec /\ Fairness

-----------------------------------------------------------------------------
(***************************************************************************)
(* Properties                                                              *)
(***************************************************************************)

\* The invariant documented on TxFetcher: a hash is in at most one of the
\* stages waiting, queued and fetching, whatever the order in which
\* announcements, timers, deliveries and disconnections reach the loop.
OneStage ==
    \A h \in Hashes :
        /\ waitlist[h] # {} => announced[h] = {} /\ fetching[h] = NoPeer
        /\ announced[h] # {} => fetching[h] = NoPeer

\* None of the loop's sanity panics ("announce tracker already contains
\* waitlist item", "alternate tracker already contains fetching item", ...) is
\* reachable, and marking a hash as stolen never finds the request missing.
NoPanic == panicked = FALSE

\* A hash is fetched from a peer exactly while that peer's request is
\* responsible for it: stolen, timed-out, answered and dropped hashes are all
\* released, so none is lost in a request and none is retrieved twice at once.
RequestsAgree ==
    \A h \in Hashes, p \in Peers :
        fetching[h] = p <=>
            /\ requests[p] # NoRequest
            /\ h \in requests[p].hashes
            /\ h \notin requests[p].stolen

\* The per-hash and the per-peer view of the waitlist are the same relation.
SlotsAgree ==
    \A h \in Hashes, p \in Peers : h \in waitslots[p] <=> p \in waitlist[h]

\* A hash a peer can be asked for is queued with the peer as an origin or is
\* being fetched with the peer as an alternate, and only fetched hashes have
\* alternates.
AnnouncesAgree ==
    \A h \in Hashes :
        /\ fetching[h] = NoPeer <=> alternates[h] = {}
        /\ fetching[h] # NoPeer => fetching[h] \in alternates[h] /\ h \in announces[fetching[h]]
        /\ \A p \in Peers : h \in announces[p] =>
               p \in (IF fetching[h] = NoPeer THEN announced[h] ELSE alternates[h])

\* The loop's maps are one consistent record: every hash is in one
\* stage, the per-peer and per-hash views agree in each stage, requests
\* and the fetching map name each other, and no handler meets a state
\* it panics on.
BookkeepingOK ==
    TypeOK /\ OneStage /\ NoPanic /\ RequestsAgree /\ SlotsAgree /\ AnnouncesAgree

\* A timer is never lost: while a hash waits the wait timer is armed or its
\* firing is on its way to the loop, and likewise while a request is in flight
\* for the timeout timer (rescheduleTimeout's comment explains why it must be
\* armed for timed-out requests too).
TimersArmed ==
    /\ Waiting(waitlist) # {} => waitTimer # NoTimer \/ waitTriggers > 0
    /\ (\E p \in Peers : requests[p] # NoRequest) =>
           timeoutTimer # NoTimer \/ timeoutTriggers > 0

\* No stall: Notify schedules only for a peer without announcements and a
\* broadcast schedules nothing, so an idle peer may have a hash to fetch; but
\* then some request is in flight, whose end schedules again.
NoStall ==
    \A p \in Peers, h \in Hashes :
        (h \in announces[p] /\ fetching[h] = NoPeer /\ requests[p] = NoRequest)
            => \E q \in Peers : requests[q] # NoRequest

\* A peer has one request at a time: only the peer's own reply makes room for
\* another one.  Until then the request in flight is never replaced, it only
\* ends, times out or has more of its hashes stolen.
RequestKept ==
    [][\A p \in Peers :
         (requests[p] # NoRequest /\ requests'[p] # NoRequest) =>
             \/ /\ requests'[p].hashes \in {requests[p].hashes, {}}
                /\ requests[p].stolen \subseteq requests'[p].stolen
             \/ \E D \in SUBSET Hashes : Enqueue(p, D, TRUE)]_vars

\* A hash does not wait for a broadcast for ever: the wait timer, rescheduled
\* by other announcements and disconnections, still expires for it.
WaitEnds ==
    \A h \in Hashes : waitlist[h] # {} ~> (waitlist[h] = {} \/ stopped)

\* A request older than the timeout is retired, by its reply, a disconnection
\* or the timeout handler, even if other requests come and go and rearm the
\* timer they share.
OverdueEnds ==
    \A p \in Peers :
        (p \in Live(requests) /\ requests[p].age = TxFetchTimeout)
            ~> (p \notin Live(requests) \/ requests[p].age < TxFetchTimeout \/ stopped)

\* "A peer was dropped, remove all traces of it": after the drop handler no
\* map of the fetcher mentions the peer.
DropForgets ==
    [][\A p \in Peers : Drop(p) =>
         /\ waitslots'[p] = {} /\ announces'[p] = {} /\ requests'[p] = NoRequest
         /\ \A h \in Hashes : p \notin waitlist'[h] \cup announced'[h] \cup alternates'[h]]_vars

\* "maxTxAnnounces is the maximum number of unique transactions a peer can
\* announce in a short time": an announcement never takes a peer beyond it.
AnnounceCap ==
    [][\A p \in Peers, S \in SUBSET Hashes : Notify(p, S) =>
         LET used == Cardinality(waitslots[p]) + Cardinality(announces[p])
             use == Cardinality(waitslots'[p]) + Cardinality(announces'[p])
         IN use > used => use <= MaxTxAnnounces]_vars
=============================================================================
