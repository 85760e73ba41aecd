-------------------------- MODULE TxFetcherProofs --------------------------
(***************************************************************************)
(* Proofs about TxFetcher, for any number of peers and hashes and for any   *)
(* limits and timeouts.                                                    *)
(***************************************************************************)
EXTENDS TxFetcher, TLAPS

\* What SMT leaves open is tried with Zenon, and once more with Z3.
USE SMT, Zenon, Z3T(30)

(***************************************************************************)
(* The invariant of the maps that scheduleFetches works on, as a predicate  *)
(* of their values: a handler changes the maps and then schedules, and the  *)
(* predicate has to hold in between as well.                               *)
(***************************************************************************)
MapTypes(anns, anncd, fet, req, alts) ==
    /\ anns \in [Peers -> SUBSET Hashes]
    /\ anncd \in [Hashes -> SUBSET Peers]
    /\ fet \in [Hashes -> Peers \cup {NoPeer}]
    /\ req \in [Peers -> Request \cup {NoRequest}]
    /\ alts \in [Hashes -> SUBSET Peers]

MapStages(wl, anncd, fet) ==
    \A h \in Hashes :
        /\ wl[h] # {} => anncd[h] = {} /\ fet[h] = NoPeer
        /\ anncd[h] # {} => fet[h] = NoPeer

MapRequests(fet, req) ==
    \A h \in Hashes, p \in Peers :
        fet[h] = p <=> /\ req[p] # NoRequest
                       /\ h \in req[p].hashes
                       /\ h \notin req[p].stolen

MapAnnounces(anns, anncd, fet, alts) ==
    \A h \in Hashes :
        /\ fet[h] = NoPeer <=> alts[h] = {}
        /\ fet[h] # NoPeer => fet[h] \in alts[h] /\ h \in anns[fet[h]]
        /\ \A p \in Peers : h \in anns[p] =>
               p \in (IF fet[h] = NoPeer THEN anncd[h] ELSE alts[h])

MapInv(wl, anns, anncd, fet, req, alts) ==
    /\ MapTypes(anns, anncd, fet, req, alts)
    /\ MapStages(wl, anncd, fet)
    /\ MapRequests(fet, req)
    /\ MapAnnounces(anns, anncd, fet, alts)

\* scheduleFetches keeps the maps consistent and does not panic, whatever
\* subset of the peers it is called for.
LEMMA ScheduleKeepsMaps ==
    ASSUME NEW wl, NEW anns, NEW anncd, NEW fet, NEW req, NEW alts,
           NEW actives \in SUBSET Peers,
           MapInv(wl, anns, anncd, fet, req, alts),
           ScheduleFetches(anns, anncd, fet, req, alts, actives, FALSE)
    PROVE  /\ MapInv(wl, announces', announced', fetching', requests', alternates')
           /\ panicked' = FALSE
<1> DEFINE idle == Idle(anns, req, actives)
<1>1. PICK to \in Assignments(anns, fet, idle) :
        /\ announces' = anns
        /\ fetching' = [h \in Hashes |-> IF to[h] # NoPeer THEN to[h] ELSE fet[h]]
        /\ alternates' = [h \in Hashes |-> IF to[h] # NoPeer THEN anncd[h] ELSE alts[h]]
        /\ announced' = [h \in Hashes |-> IF to[h] # NoPeer THEN {} ELSE anncd[h]]
        /\ requests' = [p \in Peers |->
              IF p \in idle /\ {h \in Hashes : to[h] = p} # {}
              THEN [hashes |-> {h \in Hashes : to[h] = p}, stolen |-> {}, age |-> 0]
              ELSE req[p]]
        /\ panicked' = (FALSE \/ \E h \in Hashes : to[h] # NoPeer /\ alts[h] # {})
    BY Zenon DEF ScheduleFetches
<1>2. /\ idle \subseteq Peers
      /\ \A p \in idle : req[p] = NoRequest
    BY DEF Idle
<1>3. /\ to \in [Hashes -> idle \cup {NoPeer}]
      /\ \A h \in Hashes : to[h] # NoPeer => fet[h] = NoPeer /\ h \in anns[to[h]]
    BY DEF Assignments
<1> HIDE DEF idle
<1>4. MapTypes(announces', announced', fetching', requests', alternates')
  <2>1. \A p \in Peers : requests'[p] \in Request \cup {NoRequest}
    BY <1>1, FetcherAssumption DEF MapInv, MapTypes, Request
  <2> QED BY <1>1, <1>2, <1>3, <2>1 DEF MapInv, MapTypes
<1>5. MapStages(wl, announced', fetching')
    BY <1>1, <1>2, <1>3, FetcherAssumption DEF MapInv, MapTypes, MapStages, MapAnnounces
<1>6. MapRequests(fetching', requests')
  <2> SUFFICES ASSUME NEW h \in Hashes, NEW p \in Peers
               PROVE  fetching'[h] = p <=> /\ requests'[p] # NoRequest
                                           /\ h \in requests'[p].hashes
                                           /\ h \notin requests'[p].stolen
    BY DEF MapRequests
  <2>1. CASE p \in idle /\ {g \in Hashes : to[g] = p} # {}
    <3>1. requests'[p] = [hashes |-> {g \in Hashes : to[g] = p}, stolen |-> {}, age |-> 0]
      BY <1>1, <2>1
    <3>2. requests'[p] # NoRequest
      BY <3>1, FetcherAssumption
    <3>3. fet[h] # p
      BY <1>2, <2>1 DEF MapInv, MapRequests
    <3> QED BY <1>1, <1>3, <3>1, <3>2, <3>3, FetcherAssumption
  <2>2. CASE ~(p \in idle /\ {g \in Hashes : to[g] = p} # {})
    <3>1. requests'[p] = req[p] /\ to[h] # p
      BY <1>1, <1>3, <2>2, FetcherAssumption
    <3>2. CASE to[h] = NoPeer
      BY <1>1, <3>1, <3>2 DEF MapInv, MapRequests
    <3>3. CASE to[h] # NoPeer
      BY <1>1, <1>3, <3>1, <3>3, FetcherAssumption DEF MapInv, MapRequests
    <3> QED BY <3>2, <3>3
  <2> QED BY <2>1, <2>2
<1>7. MapAnnounces(announces', announced', fetching', alternates')
    BY <1>1, <1>2, <1>3, FetcherAssumption DEF MapInv, MapTypes, MapAnnounces
<1>8. panicked' = FALSE
    BY <1>1, <1>3, Zenon DEF MapInv, MapAnnounces
<1> QED BY <1>4, <1>5, <1>6, <1>7, <1>8 DEF MapInv

-----------------------------------------------------------------------------
(***************************************************************************)
(* The inductive invariant is the conjunction of the properties the runs    *)
(* check: none of them is inductive without the others.                    *)
(***************************************************************************)
Maps == MapInv(waitlist, announces, announced, fetching, requests, alternates)

IInv ==
    /\ TypeOK
    /\ OneStage
    /\ RequestsAgree
    /\ AnnouncesAgree
    /\ SlotsAgree
    /\ NoPanic

LEMMA IInvMaps == IInv => Maps
BY DEF IInv, TypeOK, OneStage, RequestsAgree, AnnouncesAgree, Maps, MapInv, MapTypes,
       MapStages, MapRequests, MapAnnounces

\* A timer is armed within its timeout.
LEMMA WaitTimerType ==
    ASSUME NEW wl, NEW wt, RescheduleWait(wl, wt)
    PROVE  waitTimer' \in 0 .. TxArriveTimeout
BY DEF RescheduleWait, Remaining

LEMMA TimeoutTimerType ==
    ASSUME NEW req, RescheduleTimeout(req)
    PROVE  timeoutTimer' \in 0 .. TxFetchTimeout
BY DEF RescheduleTimeout, Remaining

LEMMA IdleTimerType ==
    ASSUME TypeOK, NEW req, RescheduleIfIdle(req)
    PROVE  timeoutTimer' \in {NoTimer} \cup 0 .. TxFetchTimeout
BY TimeoutTimerType DEF TypeOK, RescheduleIfIdle

\* The state of the waitlist and of the timers, which scheduleFetches does not
\* touch.
WaitTypes ==
    /\ waitlist \in [Hashes -> SUBSET Peers]
    /\ waittime \in [Hashes -> 0 .. TxArriveTimeout]
    /\ waitslots \in [Peers -> SUBSET Hashes]
    /\ waitTimer \in {NoTimer} \cup 0 .. TxArriveTimeout
    /\ timeoutTimer \in {NoTimer} \cup 0 .. TxFetchTimeout
    /\ waitTriggers \in 0 .. MaxTriggers
    /\ timeoutTriggers \in 0 .. MaxTriggers
    /\ stopped \in BOOLEAN

LEMMA IInvParts ==
    (WaitTypes /\ Maps /\ SlotsAgree /\ NoPanic) => IInv
BY Zenon DEF IInv, TypeOK, OneStage, RequestsAgree, AnnouncesAgree, NoPanic, Maps, MapInv, MapTypes,
       MapStages, MapRequests, MapAnnounces, WaitTypes

LEMMA MapsPrime ==
    ASSUME MapInv(waitlist', announces', announced', fetching', requests', alternates')
    PROVE  Maps'
BY DEF Maps

LEMMA NotifyKeeps ==
    ASSUME IInv, NEW p \in Peers, NEW S \in SUBSET Hashes, Notify(p, S)
    PROVE  IInv'
<1>1. PICK T \in SUBSET S :
        LET downloading == {h \in T : alternates[h] # {}}
            queued == Queued(T) \ downloading
            early == T \ (downloading \cup queued)
            new == early \ Waiting(waitlist)
            anns == [announces EXCEPT ![p] = @ \cup downloading \cup queued]
            anncd == [h \in Hashes |->
                         IF h \in queued THEN announced[h] \cup {p} ELSE announced[h]]
            alts == [h \in Hashes |->
                         IF h \in downloading THEN alternates[h] \cup {p} ELSE alternates[h]]
        IN
        /\ waitlist' = [h \in Hashes |->
                           IF h \in early THEN waitlist[h] \cup {p} ELSE waitlist[h]]
        /\ waitslots' = [waitslots EXCEPT ![p] = @ \cup early]
        /\ waittime' = [h \in Hashes |->
                           IF h \notin new THEN waittime[h]
                           ELSE IF h \in Blobs THEN TxArriveTimeout ELSE 0]
        /\ IF NeedWaitTimer(new)
           THEN RescheduleWait(waitlist', waittime')
           ELSE waitTimer' = waitTimer
        /\ ScheduleFetches(anns, anncd, fetching, requests, alts,
                           IF announces[p] = {} THEN {p} ELSE {}, FALSE)
        /\ RescheduleIfIdle(requests)
    BY Zenon DEF Notify
<1> DEFINE downloading == {h \in T : alternates[h] # {}}
           queued == Queued(T) \ downloading
           early == T \ (downloading \cup queued)
           anns == [announces EXCEPT ![p] = @ \cup downloading \cup queued]
           anncd == [h \in Hashes |->
                       IF h \in queued THEN announced[h] \cup {p} ELSE announced[h]]
           alts == [h \in Hashes |->
                       IF h \in downloading THEN alternates[h] \cup {p} ELSE alternates[h]]
<1>2. Maps
    BY IInvMaps
<1>3. /\ downloading \subseteq Hashes /\ queued \subseteq Hashes /\ early \subseteq Hashes
      /\ \A h \in downloading : alternates[h] # {}
      /\ \A h \in queued : announced[h] # {} /\ alternates[h] = {}
      /\ \A h \in early : announced[h] = {} /\ alternates[h] = {}
    BY DEF Queued
<1>4. /\ waitlist' = [h \in Hashes |->
                         IF h \in early THEN waitlist[h] \cup {p} ELSE waitlist[h]]
      /\ waitslots' = [waitslots EXCEPT ![p] = @ \cup early]
      /\ ScheduleFetches(anns, anncd, fetching, requests, alts,
                         IF announces[p] = {} THEN {p} ELSE {}, FALSE)
    BY <1>1, Zenon
<1>5. WaitTypes'
  <2>1. waitTimer' \in {NoTimer} \cup 0 .. TxArriveTimeout
    BY <1>1, WaitTimerType DEF IInv, TypeOK
  <2>2. timeoutTimer' \in {NoTimer} \cup 0 .. TxFetchTimeout
    BY <1>1, IdleTimerType DEF IInv
  <2>3. waittime' \in [Hashes -> 0 .. TxArriveTimeout]
    BY <1>1, FetcherAssumption DEF IInv, TypeOK
  <2> QED BY <1>3, <1>4, <2>1, <2>2, <2>3 DEF IInv, TypeOK, WaitTypes, Notify
<1>6. SlotsAgree'
    BY <1>3, <1>4 DEF IInv, TypeOK, SlotsAgree
<1> HIDE DEF downloading, queued, early
<1>7. MapInv(waitlist', anns, anncd, fetching, requests, alts)
  <2>1. MapTypes(anns, anncd, fetching, requests, alts)
    BY <1>2, <1>3 DEF Maps, MapInv, MapTypes
  <2>2. MapStages(waitlist', anncd, fetching)
    BY <1>2, <1>3, <1>4 DEF Maps, MapInv, MapTypes, MapStages, MapAnnounces, IInv, TypeOK
  <2>3. MapAnnounces(anns, anncd, fetching, alts)
    BY <1>2, <1>3, FetcherAssumption DEF Maps, MapInv, MapTypes, MapStages, MapAnnounces
  <2> QED BY <1>2, <2>1, <2>2, <2>3 DEF Maps, MapInv
<1> HIDE DEF anns, anncd, alts
<1>8. (IF announces[p] = {} THEN {p} ELSE {}) \in SUBSET Peers
    OBVIOUS
<1>9. Maps' /\ NoPanic'
    BY <1>4, <1>7, <1>8, ScheduleKeepsMaps, MapsPrime, Zenon DEF NoPanic
<1> QED BY <1>5, <1>6, <1>9, IInvParts, PTL

LEMMA WaitTriggerKeeps ==
    ASSUME IInv, WaitTrigger
    PROVE  IInv'
<1> DEFINE expired == {h \in Waiting(waitlist) :
                          waittime[h] + TxGatherSlack > TxArriveTimeout}
           slots(p) == SlotsOf(p, expired)
           anns == [p \in Peers |-> announces[p] \cup slots(p)]
           anncd == [h \in Hashes |-> IF h \in expired THEN waitlist[h] ELSE announced[h]]
           actives == UNION {waitlist[h] : h \in expired}
<1>1. /\ waitlist' = [h \in Hashes |-> IF h \in expired THEN {} ELSE waitlist[h]]
      /\ waittime' = [h \in Hashes |-> IF h \in expired THEN 0 ELSE waittime[h]]
      /\ waitslots' = [p \in Peers |-> waitslots[p] \ slots(p)]
      /\ IF Waiting(waitlist') # {}
         THEN RescheduleWait(waitlist', waittime')
         ELSE waitTimer' = waitTimer
      /\ ScheduleFetches(anns, anncd, fetching, requests, alternates, actives,
                         \E h \in expired : announced[h] # {})
      /\ RescheduleIfIdle(requests)
    BY Zenon DEF WaitTrigger
<1>2. Maps
    BY IInvMaps
<1>3. /\ expired \subseteq Hashes
      /\ \A h \in expired : waitlist[h] # {}
    BY DEF Waiting
<1>4. actives \in SUBSET Peers
    BY <1>3 DEF IInv, TypeOK
<1> HIDE DEF expired, actives
<1> USE DEF SlotsOf
<1>5. WaitTypes'
  <2>1. waitTimer' \in {NoTimer} \cup 0 .. TxArriveTimeout
    BY <1>1, WaitTimerType, Zenon DEF IInv, TypeOK
  <2>2. timeoutTimer' \in {NoTimer} \cup 0 .. TxFetchTimeout
    BY <1>1, IdleTimerType DEF IInv
  <2>3. waitTriggers' \in 0 .. MaxTriggers /\ UNCHANGED <<timeoutTriggers, stopped>>
    BY FetcherAssumption DEF IInv, TypeOK, WaitTrigger
  <2> QED BY <1>1, <1>3, <2>1, <2>2, <2>3, FetcherAssumption DEF IInv, TypeOK, WaitTypes
<1>6. SlotsAgree'
    BY <1>1, <1>3 DEF IInv, TypeOK, SlotsAgree
<1>7. MapInv(waitlist', anns, anncd, fetching, requests, alternates)
  <2>1. MapTypes(anns, anncd, fetching, requests, alternates)
    BY <1>2, <1>3 DEF Maps, MapInv, MapTypes, IInv, TypeOK
  <2>2. MapStages(waitlist', anncd, fetching)
    BY <1>1, <1>2, <1>3 DEF Maps, MapInv, MapStages
  <2>3. MapAnnounces(anns, anncd, fetching, alternates)
    BY <1>2, <1>3 DEF Maps, MapInv, MapTypes, MapStages, MapAnnounces
  <2> QED BY <1>2, <2>1, <2>2, <2>3 DEF Maps, MapInv
<1>8. (\E h \in expired : announced[h] # {}) = FALSE
    BY <1>2, <1>3 DEF Maps, MapInv, MapStages
<1> HIDE DEF anns, anncd
<1>9. Maps' /\ NoPanic'
    BY <1>1, <1>4, <1>7, <1>8, ScheduleKeepsMaps, MapsPrime, Zenon DEF NoPanic
<1> QED BY <1>5, <1>6, <1>9, IInvParts, PTL

LEMMA TimeoutTriggerKeeps ==
    ASSUME IInv, TimeoutTrigger
    PROVE  IInv'
<1> DEFINE expired == {p \in Peers : /\ requests[p] # NoRequest
                                     /\ requests[p].age + TxGatherSlack > TxFetchTimeout}
           failed(h) == {p \in expired : h \in Pending(requests, p)}
           anns == [p \in Peers |-> IF p \in expired
                                    THEN announces[p] \ Pending(requests, p)
                                    ELSE announces[p]]
           anncd == [h \in Hashes |->
                       (IF failed(h) # {} /\ alternates[h] # {}
                        THEN alternates[h] ELSE announced[h]) \ failed(h)]
           fet == [h \in Hashes |-> IF failed(h) # {} THEN NoPeer ELSE fetching[h]]
           alts == [h \in Hashes |-> IF failed(h) # {} THEN {} ELSE alternates[h]]
           req == [p \in Peers |-> IF p \in expired
                                   THEN [requests[p] EXCEPT !.hashes = {}]
                                   ELSE requests[p]]
<1>1. /\ ScheduleFetches(anns, anncd, fet, req, alts, AllPeers(anns),
                         \E h \in Hashes : failed(h) # {} /\ announced[h] # {})
      /\ RescheduleTimeout(requests')
      /\ UNCHANGED <<waitVars, waitTimer, waitTriggers, stopped>>
    BY Zenon DEF TimeoutTrigger
<1>2. Maps
    BY IInvMaps
<1>3. /\ expired \subseteq Peers
      /\ \A p \in expired : requests[p] # NoRequest
    OBVIOUS
<1> HIDE DEF expired
<1>4. \A p \in Peers, h \in Hashes : h \in Pending(requests, p) <=> fetching[h] = p
    BY <1>2 DEF Maps, MapInv, MapRequests, Pending
<1>5. \A h \in Hashes : failed(h) = IF fetching[h] \in expired THEN {fetching[h]} ELSE {}
    BY <1>3, <1>4
<1>6. WaitTypes'
  <2>1. timeoutTimer' \in 0 .. TxFetchTimeout
    BY <1>1, TimeoutTimerType
  <2>2. timeoutTriggers' \in 0 .. MaxTriggers
    BY FetcherAssumption DEF IInv, TypeOK, TimeoutTrigger
  <2> QED BY <1>1, <2>1, <2>2 DEF IInv, TypeOK, WaitTypes, waitVars
<1>7. SlotsAgree'
    BY <1>1 DEF IInv, SlotsAgree, waitVars
<1>8. MapInv(waitlist', anns, anncd, fet, req, alts)
  <2>1. waitlist' = waitlist
    BY <1>1 DEF waitVars
  <2>2. \A p \in Peers : req[p] \in Request \cup {NoRequest}
    BY <1>2, <1>3 DEF Maps, MapInv, MapTypes, Request
  <2>3. MapTypes(anns, anncd, fet, req, alts)
    BY <1>2, <2>2 DEF Maps, MapInv, MapTypes
  <2>4. MapStages(waitlist', anncd, fet)
    BY <1>2, <1>5, <2>1 DEF Maps, MapInv, MapTypes, MapStages, MapAnnounces
  <2>5. MapRequests(fet, req)
    <3> SUFFICES ASSUME NEW h \in Hashes, NEW p \in Peers
                 PROVE  fet[h] = p <=> /\ req[p] # NoRequest
                                       /\ h \in req[p].hashes
                                       /\ h \notin req[p].stolen
      BY DEF MapRequests
    <3>1. fet[h] = IF fetching[h] \in expired THEN NoPeer ELSE fetching[h]
      BY <1>5
    <3>2. CASE p \in expired
      <4>1. req[p].hashes = {}
        BY <1>2, <1>3, <3>2 DEF Maps, MapInv, MapTypes, Request
      <4> QED BY <3>1, <3>2, <4>1, FetcherAssumption
    <3>3. CASE p \notin expired
      <4>1. req[p] = requests[p]
        BY <3>3
      <4> HIDE DEF req, fet
      <4> QED BY <1>2, <3>1, <3>3, <4>1, FetcherAssumption DEF Maps, MapInv, MapRequests
    <3> QED BY <3>2, <3>3
  <2>6. MapAnnounces(anns, anncd, fet, alts)
    <3> SUFFICES ASSUME NEW h \in Hashes
                 PROVE  /\ fet[h] = NoPeer <=> alts[h] = {}
                        /\ fet[h] # NoPeer => fet[h] \in alts[h] /\ h \in anns[fet[h]]
                        /\ \A p \in Peers : h \in anns[p] =>
                              p \in (IF fet[h] = NoPeer THEN anncd[h] ELSE alts[h])
      BY DEF MapAnnounces
    <3>1. CASE fetching[h] \in expired
      BY <1>2, <1>3, <1>4, <1>5, <3>1, FetcherAssumption
         DEF Maps, MapInv, MapTypes, MapStages, MapAnnounces
    <3>2. CASE fetching[h] \notin expired
      <4>1. failed(h) = {}
        BY <1>5, <3>2
      <4>2. \A p \in Peers : h \in anns[p] <=> h \in announces[p]
        BY <1>3, <1>4, <3>2
      <4> QED BY <1>2, <4>1, <4>2, FetcherAssumption
              DEF Maps, MapInv, MapTypes, MapStages, MapAnnounces
    <3> QED BY <3>1, <3>2
  <2> QED BY <2>3, <2>4, <2>5, <2>6 DEF MapInv
<1>9. (\E h \in Hashes : failed(h) # {} /\ announced[h] # {}) = FALSE
    BY <1>2, <1>3, <1>5, FetcherAssumption DEF Maps, MapInv, MapStages
<1>10. AllPeers(anns) \in SUBSET Peers
    BY DEF AllPeers
<1> HIDE DEF anns, anncd, fet, alts, req
<1>11. Maps' /\ NoPanic'
    BY <1>1, <1>8, <1>9, <1>10, ScheduleKeepsMaps, MapsPrime, Zenon DEF NoPanic
<1> QED BY <1>6, <1>7, <1>11, IInvParts, PTL

\* The part of a delivery common to broadcasts and replies: every trace of the
\* delivered hashes goes, and what others were asked for becomes stolen.
LEMMA DeliveryKeepsMaps ==
    ASSUME IInv, NEW p \in Peers, NEW D \in SUBSET Hashes, NEW direct \in BOOLEAN,
           Enqueue(p, D, direct)
    PROVE  /\ WaitTypes' \/ timeoutTimer' \notin {NoTimer} \cup 0 .. TxFetchTimeout
           /\ SlotsAgree'
           /\ Robbed(p, D, direct) \in [Peers -> Request \cup {NoRequest}]
           /\ \A q \in Peers : Robbed(p, D, direct)[q] = NoRequest <=> requests[q] = NoRequest
           /\ \A q \in Peers, h \in Hashes :
                 (/\ Robbed(p, D, direct)[q] # NoRequest
                  /\ h \in Robbed(p, D, direct)[q].hashes
                  /\ h \notin Robbed(p, D, direct)[q].stolen) <=>
                     fetching[h] = q /\ (h \notin Gone(D) \/ (q = p /\ direct))
           /\ \A h \in Hashes : waitlist'[h] # {} =>
                 waitlist[h] # {} /\ announced[h] = {} /\ fetching[h] = NoPeer
           /\ (\E q \in Peers : requests[q] = NoRequest /\ Stolen(p, D, direct, q) # {}) = FALSE
<1> DEFINE gone == Gone(D)
           req == Robbed(p, D, direct)
<1>1. Maps
    BY ZenonT(40), IInvMaps
<1>2. /\ waitlist' = [h \in Hashes |-> IF h \in D THEN {} ELSE waitlist[h]]
      /\ waittime' = [h \in Hashes |-> IF h \in D THEN 0 ELSE waittime[h]]
      /\ waitslots' = [q \in Peers |-> waitslots[q] \ (D \cap Waiting(waitlist))]
      /\ UNCHANGED <<waitTimer, waitTriggers, timeoutTriggers, stopped>>
    BY DEF Enqueue
<1>3. WaitTypes' \/ timeoutTimer' \notin {NoTimer} \cup 0 .. TxFetchTimeout
    BY <1>2, FetcherAssumption DEF IInv, TypeOK, WaitTypes
<1>4. SlotsAgree'
    BY <1>2 DEF IInv, TypeOK, SlotsAgree, Waiting
<1>5. \A q \in Peers : Stolen(p, D, direct, q) = {h \in gone : fetching[h] = q /\ (q # p \/ ~direct)}
    BY DEF Stolen
<1>g. gone \subseteq Hashes
    BY DEF Gone
<1> USE DEF Robbed
<1>6. req \in [Peers -> Request \cup {NoRequest}]
  <2> SUFFICES ASSUME NEW q \in Peers, requests[q] # NoRequest
               PROVE  [requests[q] EXCEPT !.stolen = @ \cup Stolen(p, D, direct, q)] \in Request
    OBVIOUS
  <2>1. Stolen(p, D, direct, q) \subseteq Hashes
    BY <1>5, <1>g
  <2>2. requests[q] \in Request
    BY <1>1 DEF Maps, MapInv, MapTypes
  <2> QED BY <2>1, <2>2 DEF Request
<1>7. \A q \in Peers : req[q] = NoRequest <=> requests[q] = NoRequest
  <2> SUFFICES ASSUME NEW q \in Peers, requests[q] # NoRequest
               PROVE  [requests[q] EXCEPT !.stolen = @ \cup Stolen(p, D, direct, q)] # NoRequest
    OBVIOUS
  <2>1. Stolen(p, D, direct, q) \subseteq Hashes
    BY <1>5, <1>g
  <2>2. requests[q] \in Request
    BY <1>1 DEF Maps, MapInv, MapTypes
  <2>3. [requests[q] EXCEPT !.stolen = @ \cup Stolen(p, D, direct, q)]
            \in [hashes : SUBSET Hashes, stolen : SUBSET Hashes, age : Nat]
    BY <2>1, <2>2, FetcherAssumption DEF Request
  <2> QED BY <2>3, FetcherAssumption
<1>8. ASSUME NEW q \in Peers, NEW h \in Hashes
      PROVE  (req[q] # NoRequest /\ h \in req[q].hashes /\ h \notin req[q].stolen) <=>
                 fetching[h] = q /\ (h \notin gone \/ (q = p /\ direct))
  <2>1. CASE requests[q] = NoRequest
    BY <1>1, <1>7, <2>1 DEF Maps, MapInv, MapRequests
  <2>2. CASE requests[q] # NoRequest
    <3>1. requests[q] \in Request
      BY <1>1, <2>2 DEF Maps, MapInv, MapTypes
    <3>2. /\ req[q].hashes = requests[q].hashes
          /\ req[q].stolen = requests[q].stolen \cup Stolen(p, D, direct, q)
      BY <2>2, <3>1 DEF Request
    <3> QED BY <1>1, <1>5, <1>7, <2>2, <3>2 DEF Maps, MapInv, MapRequests
  <2> QED BY <2>1, <2>2
<1>9. \A h \in Hashes : waitlist'[h] # {} =>
          waitlist[h] # {} /\ announced[h] = {} /\ fetching[h] = NoPeer
    BY <1>1, <1>2 DEF Maps, MapInv, MapStages
<1>10. (\E q \in Peers : requests[q] = NoRequest /\ Stolen(p, D, direct, q) # {}) = FALSE
    BY <1>1, <1>5, <1>g DEF Maps, MapInv, MapRequests
<1> QED BY <1>3, <1>4, <1>6, <1>7, <1>8, <1>9, <1>10

LEMMA EnqueueKeeps ==
    ASSUME IInv, NEW p \in Peers, NEW D \in SUBSET Hashes, NEW direct \in BOOLEAN,
           Enqueue(p, D, direct)
    PROVE  IInv'
<1> DEFINE gone == Gone(D)
           req == Robbed(p, D, direct)
<1>1. Maps
    BY Zenon, IInvMaps
<1>2. /\ WaitTypes' \/ timeoutTimer' \notin {NoTimer} \cup 0 .. TxFetchTimeout
      /\ SlotsAgree'
      /\ req \in [Peers -> Request \cup {NoRequest}]
      /\ \A q \in Peers : req[q] = NoRequest <=> requests[q] = NoRequest
      /\ \A q \in Peers, h \in Hashes :
            (req[q] # NoRequest /\ h \in req[q].hashes /\ h \notin req[q].stolen) <=>
                fetching[h] = q /\ (h \notin gone \/ (q = p /\ direct))
      /\ \A h \in Hashes : waitlist'[h] # {} =>
            waitlist[h] # {} /\ announced[h] = {} /\ fetching[h] = NoPeer
      /\ (\E q \in Peers : requests[q] = NoRequest /\ Stolen(p, D, direct, q) # {}) = FALSE
    BY DeliveryKeepsMaps
<1>3. IF direct /\ requests[p] # NoRequest THEN Reply(p, D, req, FALSE)
                                           ELSE CleanUp(D, req, FALSE)
    BY <1>2, Zenon DEF Enqueue
<1>4. gone \subseteq Hashes
    BY DEF Gone
<1> HIDE DEF req
<1>5. CASE ~(direct /\ requests[p] # NoRequest)
  <2>1. /\ announces' = [q \in Peers |-> announces[q] \ gone]
        /\ announced' = [h \in Hashes |-> IF h \in gone THEN {} ELSE announced[h]]
        /\ fetching' = [h \in Hashes |-> IF h \in gone THEN NoPeer ELSE fetching[h]]
        /\ alternates' = [h \in Hashes |-> IF h \in gone THEN {} ELSE alternates[h]]
        /\ requests' = req
        /\ panicked' = FALSE
        /\ UNCHANGED timeoutTimer
    BY <1>3, <1>5, Zenon DEF CleanUp
  <2> HIDE DEF gone
  <2>2. WaitTypes'
    BY <1>2, <2>1 DEF IInv, TypeOK
  <2>3. MapTypes(announces', announced', fetching', requests', alternates')
    BY <1>1, <1>2, <2>1 DEF Maps, MapInv, MapTypes
  <2>4. MapStages(waitlist', announced', fetching')
    BY Zenon, <1>1, <1>2, <1>4, <2>1 DEF Maps, MapInv, MapStages
  <2>5. MapRequests(fetching', requests')
    BY <1>1, <1>2, <1>4, <1>5, <2>1, FetcherAssumption DEF Maps, MapInv, MapRequests
  <2>6. MapAnnounces(announces', announced', fetching', alternates')
    BY <1>1, <1>4, <2>1, FetcherAssumption DEF Maps, MapInv, MapTypes, MapAnnounces
  <2>7. Maps' /\ NoPanic'
    BY <2>1, <2>3, <2>4, <2>5, <2>6, MapsPrime DEF MapInv, NoPanic
  <2> QED BY <1>2, <2>2, <2>7, IInvParts, PTL
<1>6. CASE direct /\ requests[p] # NoRequest
  <2> DEFINE answered == Pending(req, p)
             missing == answered \ D
  <2>1. PICK before \in SUBSET missing :
          LET anns == [q \in Peers |-> (announces[q] \ gone) \ (IF q = p THEN before ELSE {})]
              others(h) == (IF h \in gone THEN {} ELSE alternates[h])
                               \ (IF h \in before THEN {p} ELSE {})
              anncd == [h \in Hashes |->
                           IF h \in missing /\ others(h) # {} THEN others(h)
                           ELSE IF h \in gone THEN {} ELSE announced[h]]
              fet == [h \in Hashes |-> IF h \in gone \cup answered THEN NoPeer ELSE fetching[h]]
              alts == [h \in Hashes |-> IF h \in gone \cup answered THEN {} ELSE alternates[h]]
              left == [req EXCEPT ![p] = NoRequest]
          IN
          /\ ScheduleFetches(anns, anncd, fet, left, alts, AllPeers(anns),
                FALSE \/ \E h \in missing \ gone : others(h) # {} /\ announced[h] # {})
          /\ RescheduleIfIdle(left)
    BY <1>3, <1>6, Zenon DEF Reply
  <2> DEFINE anns == [q \in Peers |-> (announces[q] \ gone) \ (IF q = p THEN before ELSE {})]
             others(h) == (IF h \in gone THEN {} ELSE alternates[h])
                              \ (IF h \in before THEN {p} ELSE {})
             anncd == [h \in Hashes |->
                          IF h \in missing /\ others(h) # {} THEN others(h)
                          ELSE IF h \in gone THEN {} ELSE announced[h]]
             fet == [h \in Hashes |-> IF h \in gone \cup answered THEN NoPeer ELSE fetching[h]]
             alts == [h \in Hashes |-> IF h \in gone \cup answered THEN {} ELSE alternates[h]]
             left == [req EXCEPT ![p] = NoRequest]
  <2>2. answered = {h \in Hashes : fetching[h] = p}
    <3>1. req[p] # NoRequest /\ req[p] \in Request
      BY <1>2, <1>6
    <3> QED BY <1>2, <1>6, <3>1 DEF Pending, Request
  <2>3. missing \subseteq Hashes /\ missing \cap gone = {} /\ missing \subseteq answered
    BY <2>2 DEF Gone
  <2> HIDE DEF gone, answered, missing
  <2>4. MapInv(waitlist', anns, anncd, fet, left, alts)
    <3>1. MapTypes(anns, anncd, fet, left, alts)
      BY ZenonT(40), <1>1, <1>2 DEF Maps, MapInv, MapTypes
    <3>2. MapStages(waitlist', anncd, fet)
      BY SMTT(30), Z3T(30), <1>1, <1>2, <1>4, <2>2, <2>3, FetcherAssumption
         DEF Maps, MapInv, MapTypes, MapStages
    <3>3. MapRequests(fet, left)
      BY <1>1, <1>2, <1>4, <2>2, FetcherAssumption DEF Maps, MapInv, MapTypes, MapRequests
    <3>4. MapAnnounces(anns, anncd, fet, alts)
      <4> SUFFICES ASSUME NEW h \in Hashes
                   PROVE  /\ fet[h] = NoPeer <=> alts[h] = {}
                          /\ fet[h] # NoPeer => fet[h] \in alts[h] /\ h \in anns[fet[h]]
                          /\ \A q \in Peers : h \in anns[q] =>
                                q \in (IF fet[h] = NoPeer THEN anncd[h] ELSE alts[h])
        BY Zenon DEF MapAnnounces
      <4>1. CASE h \in gone
        BY <1>1, <2>3, <4>1 DEF Maps, MapInv, MapTypes
      <4>2. CASE h \in missing
        <5>1. fetching[h] = p /\ h \notin gone /\ h \in answered
          BY <2>2, <2>3, <4>2
        <5>2. fet[h] = NoPeer /\ alts[h] = {}
          BY <5>1
        <5>3. ASSUME NEW q \in Peers, h \in anns[q] PROVE q \in anncd[h]
          <6>1. h \in announces[q] /\ ~(q = p /\ h \in before)
            BY <5>3
          <6>2. q \in alternates[h]
            BY <1>1, <5>1, <6>1, FetcherAssumption DEF Maps, MapInv, MapAnnounces
          <6>3. q \in others(h)
            BY <5>1, <6>1, <6>2
          <6> QED BY <4>2, <6>3
        <5> QED BY <5>2, <5>3
      <4>3. CASE h \notin gone /\ h \notin missing
        <5>1. h \notin answered
          BY <1>1, <2>2, <4>3, FetcherAssumption DEF gone, Gone, missing, Waiting, Maps, MapInv, MapStages
        <5>2. h \notin before
          BY Zenon, <4>3
        <5> QED BY Zenon, <1>1, <2>2, <4>3, <5>1, <5>2, FetcherAssumption
                DEF Maps, MapInv, MapTypes, MapStages, MapAnnounces
      <4> QED BY <4>1, <4>2, <4>3, ZenonT(30)
    <3> QED BY <3>1, <3>2, <3>3, <3>4, Zenon DEF MapInv
  <2>5. (FALSE \/ \E h \in missing \ gone : others(h) # {} /\ announced[h] # {}) = FALSE
    BY <1>1, <2>2, <2>3, FetcherAssumption DEF Maps, MapInv, MapStages
  <2>6. AllPeers(anns) \in SUBSET Peers
    BY DEF AllPeers
  <2>7. ScheduleFetches(anns, anncd, fet, left, alts, AllPeers(anns), FALSE)
        /\ RescheduleIfIdle(left)
    BY <2>1, <2>5, Zenon
  <2> HIDE DEF anns, anncd, fet, alts, left
  <2>8. Maps' /\ NoPanic'
    BY <2>4, <2>6, <2>7, ScheduleKeepsMaps, MapsPrime, Zenon DEF NoPanic
  <2>9. WaitTypes'
    BY Zenon, <1>2, <2>7, IdleTimerType DEF IInv
  <2> QED BY <1>2, <2>8, <2>9, IInvParts, PTL
<1> QED BY <1>5, <1>6

LEMMA DropKeeps ==
    ASSUME IInv, NEW p \in Peers, Drop(p)
    PROVE  IInv'
<1> DEFINE failed == Pending(requests, p)
           queued == [h \in Hashes |->
                        IF h \in failed /\ alternates[h] \ {p} # {}
                        THEN alternates[h] \ {p} ELSE announced[h]]
           anns == [announces EXCEPT ![p] = {}]
           anncd == [h \in Hashes |-> IF h \in announces[p] THEN queued[h] \ {p}
                                                            ELSE queued[h]]
           fet == [h \in Hashes |-> IF h \in failed THEN NoPeer ELSE fetching[h]]
           alts == [h \in Hashes |-> IF h \in failed THEN {} ELSE alternates[h]]
           req == [requests EXCEPT ![p] = NoRequest]
<1>1. /\ waitlist' = [h \in Hashes |-> IF h \in waitslots[p] THEN waitlist[h] \ {p}
                                                             ELSE waitlist[h]]
      /\ waittime' = [h \in Hashes |-> IF waitlist'[h] = {} THEN 0 ELSE waittime[h]]
      /\ waitslots' = [waitslots EXCEPT ![p] = {}]
      /\ IF waitslots[p] # {} /\ Waiting(waitlist') # {}
         THEN RescheduleWait(waitlist', waittime')
         ELSE waitTimer' = waitTimer
      /\ IF requests[p] # NoRequest
         THEN /\ ScheduleFetches(anns, anncd, fet, req, alts, AllPeers(anns), FALSE)
              /\ RescheduleTimeout(requests')
         ELSE /\ announces' = anns
              /\ announced' = anncd
              /\ UNCHANGED <<fetching, alternates, requests, timeoutTimer, panicked>>
      /\ UNCHANGED <<waitTriggers, timeoutTriggers, stopped>>
    BY Zenon DEF Drop
<1>2. Maps
    BY IInvMaps
<1>3. WaitTypes'
  <2>1. waitTimer' \in {NoTimer} \cup 0 .. TxArriveTimeout
    BY <1>1, WaitTimerType, Zenon DEF IInv, TypeOK
  <2>2. timeoutTimer' \in {NoTimer} \cup 0 .. TxFetchTimeout
    BY <1>1, TimeoutTimerType, Zenon DEF IInv, TypeOK
  <2>3. waitlist' \in [Hashes -> SUBSET Peers] /\ waitslots' \in [Peers -> SUBSET Hashes]
    BY <1>1 DEF IInv, TypeOK
  <2>4. waittime' \in [Hashes -> 0 .. TxArriveTimeout]
    <3>1. waittime' = [h \in Hashes |-> IF waitlist'[h] = {} THEN 0 ELSE waittime[h]]
      BY <1>1
    <3>2. waittime \in [Hashes -> 0 .. TxArriveTimeout] /\ 0 \in 0 .. TxArriveTimeout
      BY FetcherAssumption DEF IInv, TypeOK
    <3> QED BY <3>1, <3>2
  <2>5. /\ waitTriggers' \in 0 .. MaxTriggers
        /\ timeoutTriggers' \in 0 .. MaxTriggers
        /\ stopped' \in BOOLEAN
    BY <1>1 DEF IInv, TypeOK
  <2> QED BY <2>1, <2>2, <2>3, <2>4, <2>5 DEF WaitTypes
<1>4. SlotsAgree'
    BY <1>1 DEF IInv, TypeOK, SlotsAgree
<1>5. failed = {h \in Hashes : fetching[h] = p}
  <2>1. failed \subseteq Hashes
    BY <1>2 DEF Pending, Maps, MapInv, MapTypes, Request
  <2>2. ASSUME NEW h \in Hashes PROVE h \in failed <=> fetching[h] = p
    <3>1. fetching[h] = p <=> /\ requests[p] # NoRequest
                              /\ h \in requests[p].hashes
                              /\ h \notin requests[p].stolen
      BY <1>2 DEF Maps, MapInv, MapRequests
    <3> QED BY <3>1 DEF Pending
  <2> HIDE DEF failed
  <2> QED BY <2>1, <2>2
<1> HIDE DEF failed
<1>6. MapInv(waitlist', anns, anncd, fet, req, alts)
  <2>1. MapTypes(anns, anncd, fet, req, alts)
    BY ZenonT(40), <1>2 DEF Maps, MapInv, MapTypes
  <2>2. \A h \in Hashes : waitlist'[h] # {} => waitlist[h] # {}
    BY <1>1
  <2>3. MapStages(waitlist', anncd, fet)
    BY <1>2, <1>5, <2>2, FetcherAssumption DEF Maps, MapInv, MapTypes, MapStages
  <2>4. MapRequests(fet, req)
    BY <1>2, <1>5, FetcherAssumption DEF Maps, MapInv, MapTypes, MapRequests
  <2>5. MapAnnounces(anns, anncd, fet, alts)
    BY <1>2, <1>5, FetcherAssumption DEF Maps, MapInv, MapTypes, MapStages, MapAnnounces
  <2> QED BY <2>1, <2>3, <2>4, <2>5, Zenon DEF MapInv
<1>7. AllPeers(anns) \in SUBSET Peers
    BY DEF AllPeers
<1>8. CASE requests[p] # NoRequest
  <2>1. ScheduleFetches(anns, anncd, fet, req, alts, AllPeers(anns), FALSE)
    BY <1>1, <1>8, Zenon
  <2> HIDE DEF anns, anncd, fet, alts, req
  <2>2. Maps' /\ NoPanic'
    BY <1>6, <1>7, <2>1, ScheduleKeepsMaps, MapsPrime, Zenon DEF NoPanic
  <2> QED BY <1>3, <1>4, <2>2, IInvParts, PTL
<1>9. CASE requests[p] = NoRequest
  <2>1. failed = {}
    BY <1>9 DEF failed, Pending
  <2>2. fetching' = fet /\ alternates' = alts /\ requests' = req
    BY <1>1, <1>2, <1>9, <2>1, ZenonT(30) DEF Maps, MapInv, MapTypes
  <2>3. announces' = anns /\ announced' = anncd /\ panicked' = panicked
    BY <1>1, <1>9, Zenon
  <2> HIDE DEF anns, anncd, fet, alts, req
  <2>4. Maps'
    BY <1>6, <2>2, <2>3, MapsPrime
  <2>5. NoPanic'
    BY <2>3 DEF IInv, NoPanic
  <2> QED BY <1>3, <1>4, <2>4, <2>5, IInvParts, PTL
<1> QED BY <1>8, <1>9

LEMMA TickKeeps ==
    ASSUME IInv, Tick
    PROVE  IInv'
<1>1. Maps
    BY IInvMaps
<1>2. WaitTypes'
  <2>1. /\ waitTimer' \in {NoTimer} \cup 0 .. TxArriveTimeout
        /\ timeoutTimer' \in {NoTimer} \cup 0 .. TxFetchTimeout
    BY FetcherAssumption DEF IInv, TypeOK, Tick, Sooner, NoTimer
  <2>2. waittime' \in [Hashes -> 0 .. TxArriveTimeout]
    BY FetcherAssumption DEF IInv, TypeOK, Tick, Older
  <2> QED BY <2>1, <2>2 DEF IInv, TypeOK, Tick, WaitTypes
<1>3. SlotsAgree' /\ NoPanic'
    BY DEF IInv, SlotsAgree, NoPanic, Tick
<1>4. ASSUME NEW p \in Peers, requests[p] # NoRequest
      PROVE  /\ requests'[p] \in Request
             /\ requests'[p].hashes = requests[p].hashes
             /\ requests'[p].stolen = requests[p].stolen
             /\ requests'[p] # NoRequest
  <2>1. requests[p] \in Request
    BY Zenon, <1>1, <1>4 DEF Maps, MapInv, MapTypes
  <2>2. requests[p].age \in 0 .. TxFetchTimeout
    BY Zenon, <2>1 DEF Request
  <2>3. Older(requests[p].age, TxFetchTimeout) \in 0 .. TxFetchTimeout
    BY <2>2, FetcherAssumption DEF Older
  <2>4. requests'[p] = [requests[p] EXCEPT !.age = Older(requests[p].age, TxFetchTimeout)]
    BY <1>4 DEF Tick
  <2>5. /\ requests'[p] \in Request
        /\ requests'[p].hashes = requests[p].hashes
        /\ requests'[p].stolen = requests[p].stolen
    BY <2>1, <2>3, <2>4 DEF Request
  <2>6. requests'[p] \in [hashes : SUBSET Hashes, stolen : SUBSET Hashes, age : Nat]
    BY <2>5, FetcherAssumption DEF Request
  <2> QED BY <2>5, <2>6, FetcherAssumption
<1>5. \A p \in Peers : requests[p] = NoRequest => requests'[p] = NoRequest
    BY DEF Tick
<1>6. requests' \in [Peers -> Request \cup {NoRequest}]
  <2>1. \A p \in Peers : requests'[p] \in Request \cup {NoRequest}
    BY <1>4, <1>5
  <2> QED BY <2>1 DEF Tick
<1>7. MapRequests(fetching', requests')
    BY SMTT(30), Z3T(30), <1>1, <1>4, <1>5 DEF Tick, Maps, MapInv, MapRequests
<1>8. Maps'
  <2>1. UNCHANGED <<waitlist, announces, announced, fetching, alternates>>
    BY DEF Tick
  <2> QED BY <1>1, <1>6, <1>7, <2>1, MapsPrime DEF Maps, MapInv, MapTypes
<1> QED BY <1>2, <1>3, <1>8, IInvParts, PTL

LEMMA QuietKeeps ==
    ASSUME IInv, Stop \/ FireWait \/ FireTimeout \/ UNCHANGED vars
    PROVE  IInv'
<1>1. Maps
    BY IInvMaps
<1>2. UNCHANGED <<waitVars, fetchVars, panicked>>
    BY DEF Stop, FireWait, FireTimeout, vars
<1>3. WaitTypes'
  <2>1. WaitTypes
    BY DEF IInv, TypeOK, WaitTypes
  <2>2. CASE Stop
    BY <2>1, <2>2 DEF WaitTypes, Stop, waitVars, timerVars
  <2>3. CASE FireWait
    BY <2>1, <2>3, FetcherAssumption DEF WaitTypes, FireWait, waitVars
  <2>4. CASE FireTimeout
    BY <2>1, <2>4, FetcherAssumption DEF WaitTypes, FireTimeout, waitVars
  <2>5. CASE UNCHANGED vars
    BY <2>1, <2>5 DEF WaitTypes, vars, waitVars, timerVars
  <2> QED BY <2>2, <2>3, <2>4, <2>5
<1>4. SlotsAgree' /\ NoPanic'
    BY <1>2 DEF IInv, SlotsAgree, NoPanic, waitVars
<1>5. Maps'
    BY <1>1, <1>2, MapsPrime DEF Maps, waitVars, fetchVars
<1> QED BY <1>3, <1>4, <1>5, IInvParts, PTL

LEMMA InitIInv == Init => IInv
<1> SUFFICES ASSUME Init PROVE IInv
    OBVIOUS
<1>1. TypeOK
  <2>1. /\ waittime \in [Hashes -> 0 .. TxArriveTimeout]
        /\ waitTriggers \in 0 .. MaxTriggers
        /\ timeoutTriggers \in 0 .. MaxTriggers
    BY FetcherAssumption DEF Init
  <2> QED BY <2>1, Zenon DEF Init, TypeOK
<1>2. OneStage /\ RequestsAgree /\ AnnouncesAgree /\ SlotsAgree /\ NoPanic
    BY FetcherAssumption DEF Init, OneStage, RequestsAgree, AnnouncesAgree, SlotsAgree, NoPanic
<1> QED BY <1>1, <1>2 DEF IInv

LEMMA NextKeeps == IInv /\ [Next]_vars => IInv'
BY NotifyKeeps, WaitTriggerKeeps, TimeoutTriggerKeeps, EnqueueKeeps, DropKeeps, TickKeeps,
   QuietKeeps DEF Next

\* For any set of peers and hashes: a hash is in at most one stage, the per-peer
\* and per-hash views of each stage agree, a hash is marked as fetched from a
\* peer exactly while the peer's request is responsible for it, and the panics
\* of the event loop are unreachable.  (eth/fetcher/tx_fetcher.go loop)
THEOREM Bookkeeping == Spec => []BookkeepingOK
<1>1. IInv => BookkeepingOK
    BY DEF IInv, BookkeepingOK
<1> QED BY <1>1, InitIInv, NextKeeps, PTL DEF Spec

-----------------------------------------------------------------------------
(***************************************************************************)
(* The timers are never lost and no idle peer is forgotten.                *)
(***************************************************************************)

\* scheduleFetches leaves every peer it was called for with a request, or with
\* nothing it could be asked for, and takes no request away.
LEMMA ScheduleServes ==
    ASSUME NEW anns, NEW anncd, NEW fet, NEW req, NEW alts, NEW panic,
           NEW actives \in SUBSET Peers,
           MapTypes(anns, anncd, fet, req, alts),
           ScheduleFetches(anns, anncd, fet, req, alts, actives, panic)
    PROVE  /\ announces' = anns
           /\ \A h \in Hashes : fetching'[h] = NoPeer => fet[h] = NoPeer
           /\ \A p \in Peers : req[p] # NoRequest => requests'[p] # NoRequest
           /\ \A p \in actives, h \in Hashes :
                 h \in anns[p] /\ fetching'[h] = NoPeer => requests'[p] # NoRequest
<1> DEFINE idle == Idle(anns, req, actives)
           alloc(to, p) == {h \in Hashes : to[h] = p}
<1>1. PICK to \in Assignments(anns, fet, idle) :
        /\ announces' = anns
        /\ fetching' = [h \in Hashes |-> IF to[h] # NoPeer THEN to[h] ELSE fet[h]]
        /\ requests' = [p \in Peers |->
              IF p \in idle /\ alloc(to, p) # {}
              THEN [hashes |-> alloc(to, p), stolen |-> {}, age |-> 0]
              ELSE req[p]]
    BY Zenon DEF ScheduleFetches
<1>2. /\ \A h \in Hashes : to[h] # NoPeer => fet[h] = NoPeer
      /\ \A p \in idle : \/ \E h \in Hashes : to[h] = p
                         \/ \A h \in anns[p] : fet[h] # NoPeer \/ to[h] # NoPeer
    BY ZenonT(30) DEF Assignments
<1>3. \A p \in Peers : p \in idle <=> p \in actives /\ req[p] = NoRequest /\ anns[p] # {}
    BY Zenon DEF Idle
<1> HIDE DEF idle
<1>4. \A p \in Peers : [hashes |-> alloc(to, p), stolen |-> {}, age |-> 0] # NoRequest
    BY FetcherAssumption
<1> HIDE DEF alloc
<1>5. \A p \in Peers : requests'[p] = NoRequest => req[p] = NoRequest /\ ~(p \in idle /\ alloc(to, p) # {})
    BY ZenonT(40), <1>1, <1>3, <1>4
<1>6. ASSUME NEW p \in actives, NEW h \in Hashes, h \in anns[p], fetching'[h] = NoPeer,
             requests'[p] = NoRequest
      PROVE  FALSE
  <2>1. p \in idle /\ alloc(to, p) = {}
    BY Zenon, <1>3, <1>5, <1>6
  <2>2. fet[h] # NoPeer \/ to[h] # NoPeer
    BY ZenonT(40), <1>2, <1>6, <2>1 DEF alloc
  <2> QED BY <1>1, <1>2, <1>6, <2>2
<1>7. \A h \in Hashes : fetching'[h] = NoPeer => fet[h] = NoPeer
    BY <1>1, <1>2
<1> QED BY <1>1, <1>5, <1>6, <1>7, Zenon

LEMMA ArmedByReschedule ==
    /\ \A r \in 0 .. TxArriveTimeout : r # NoTimer
    /\ \A r \in 0 .. TxFetchTimeout : r # NoTimer
BY FetcherAssumption DEF NoTimer

InFlight == \E p \in Peers : requests[p] # NoRequest

TimeoutArmed == InFlight => timeoutTimer # NoTimer \/ timeoutTriggers > 0
WaitArmed == Waiting(waitlist) # {} => waitTimer # NoTimer \/ waitTriggers > 0

LEMMA ArmedParts == TimersArmed <=> WaitArmed /\ TimeoutArmed
BY DEF TimersArmed, WaitArmed, TimeoutArmed, InFlight

\* After scheduleFetches the timeout timer is armed if a request is in flight.
LEMMA ScheduleArms ==
    ASSUME TimeoutArmed, NEW req, RescheduleIfIdle(req), timeoutTriggers' = timeoutTriggers,
           \A p \in Peers : req[p] # NoRequest => requests[p] # NoRequest
    PROVE  TimeoutArmed'
<1>1. CASE (\A p \in Peers : req[p] = NoRequest) /\ (\E p \in Peers : requests'[p] # NoRequest)
  <2>1. RescheduleTimeout(requests')
    BY <1>1 DEF RescheduleIfIdle
  <2>2. timeoutTimer' # NoTimer
    BY <2>1, TimeoutTimerType, ArmedByReschedule
  <2> QED BY <2>2 DEF TimeoutArmed
<1>2. CASE ~((\A p \in Peers : req[p] = NoRequest) /\ (\E p \in Peers : requests'[p] # NoRequest))
  <2>1. timeoutTimer' = timeoutTimer
    BY <1>2 DEF RescheduleIfIdle
  <2>2. InFlight' => InFlight
    BY <1>2 DEF InFlight
  <2> QED BY <2>1, <2>2 DEF TimeoutArmed
<1> QED BY <1>1, <1>2

LEMMA NotifyServes ==
    ASSUME IInv, TimersArmed, NoStall, NEW p \in Peers, NEW S \in SUBSET Hashes, Notify(p, S)
    PROVE  (TimersArmed /\ NoStall)'
<1>1. PICK T \in SUBSET S :
        LET downloading == {h \in T : alternates[h] # {}}
            queued == Queued(T) \ downloading
            early == T \ (downloading \cup queued)
            new == early \ Waiting(waitlist)
            anns == [announces EXCEPT ![p] = @ \cup downloading \cup queued]
            anncd == [h \in Hashes |->
                         IF h \in queued THEN announced[h] \cup {p} ELSE announced[h]]
            alts == [h \in Hashes |->
                         IF h \in downloading THEN alternates[h] \cup {p} ELSE alternates[h]]
        IN
        /\ waitlist' = [h \in Hashes |->
                           IF h \in early THEN waitlist[h] \cup {p} ELSE waitlist[h]]
        /\ IF NeedWaitTimer(new)
           THEN RescheduleWait(waitlist', waittime')
           ELSE waitTimer' = waitTimer
        /\ ScheduleFetches(anns, anncd, fetching, requests, alts,
                           IF announces[p] = {} THEN {p} ELSE {}, FALSE)
        /\ RescheduleIfIdle(requests)
    BY Zenon DEF Notify
<1> DEFINE downloading == {h \in T : alternates[h] # {}}
           queued == Queued(T) \ downloading
           early == T \ (downloading \cup queued)
           new == early \ Waiting(waitlist)
           anns == [announces EXCEPT ![p] = @ \cup downloading \cup queued]
           anncd == [h \in Hashes |->
                       IF h \in queued THEN announced[h] \cup {p} ELSE announced[h]]
           alts == [h \in Hashes |->
                       IF h \in downloading THEN alternates[h] \cup {p} ELSE alternates[h]]
           actives == IF announces[p] = {} THEN {p} ELSE {}
<1>2. Maps
    BY IInvMaps
<1>3. UNCHANGED <<waitTriggers, timeoutTriggers>>
    BY Zenon DEF Notify
<1>4. WaitArmed'
  <2>1. CASE NeedWaitTimer(new)
    <3>1. RescheduleWait(waitlist', waittime')
      BY Zenon, <1>1, <2>1
    <3> QED BY Zenon, <3>1, WaitTimerType, ArmedByReschedule DEF WaitArmed
  <2>2. CASE ~NeedWaitTimer(new)
    <3>1. waitTimer' = waitTimer
      BY <1>1, <2>2, ZenonT(30)
    <3>2. Waiting(waitlist) = {} => Waiting(waitlist)' = {}
      <4>1. Waiting(waitlist) = {} => early = {}
        BY <2>2 DEF NeedWaitTimer
      <4> QED BY <1>1, <4>1, ZenonT(30) DEF Waiting
    <3> QED BY <1>3, <3>1, <3>2, ArmedParts DEF WaitArmed
  <2> QED BY <2>1, <2>2
<1>5. TimeoutArmed'
  <2>1. RescheduleIfIdle(requests)
    BY Zenon, <1>1
  <2>2. TimeoutArmed /\ timeoutTriggers' = timeoutTriggers
    BY <1>3, ArmedParts
  <2> QED BY ZenonT(40), <2>1, <2>2, ScheduleArms
<1>6. MapTypes(anns, anncd, fetching, requests, alts) /\ actives \in SUBSET Peers
    BY <1>2 DEF Maps, MapInv, MapTypes, Queued
<1>7. ScheduleFetches(anns, anncd, fetching, requests, alts, actives, FALSE)
    BY <1>1, Zenon
<1>8. \A q \in Peers : q # p => anns[q] = announces[q]
    BY <1>2 DEF Maps, MapInv, MapTypes
<1> HIDE DEF anns, anncd, alts, actives
<1>9. /\ announces' = anns
      /\ \A h \in Hashes : fetching'[h] = NoPeer => fetching[h] = NoPeer
      /\ \A q \in Peers : requests[q] # NoRequest => requests'[q] # NoRequest
      /\ \A q \in actives, h \in Hashes :
            h \in anns[q] /\ fetching'[h] = NoPeer => requests'[q] # NoRequest
    BY <1>6, <1>7, ScheduleServes, Zenon
<1>10. ASSUME NEW q \in Peers, NEW h \in Hashes, h \in announces'[q], fetching'[h] = NoPeer,
              requests'[q] = NoRequest
       PROVE  \E r \in Peers : requests'[r] # NoRequest
  <2>1. CASE q # p
    BY <1>8, <1>9, <1>10, <2>1 DEF NoStall
  <2>2. CASE q = p
    <3>1. announces[p] # {}
      BY <1>9, <1>10, <2>2 DEF actives
    <3>2. PICK g \in Hashes : g \in announces[p]
      BY <1>2, <3>1 DEF Maps, MapInv, MapTypes
    <3>3. CASE fetching[g] = NoPeer
      BY SMTT(30), Z3T(30), <1>9, <1>10, <2>2, <3>2, <3>3 DEF NoStall
    <3>4. CASE fetching[g] # NoPeer
      <4>1. fetching[g] \in Peers
        BY Zenon, <1>2, <3>4 DEF Maps, MapInv, MapTypes
      <4>2. requests[fetching[g]] # NoRequest
        BY <1>2, <4>1 DEF Maps, MapInv, MapRequests
      <4> QED BY <1>9, <4>1, <4>2
    <3> QED BY <3>3, <3>4
  <2> QED BY Zenon, <2>1, <2>2
<1>11. NoStall'
    BY <1>10 DEF NoStall
<1> QED BY <1>4, <1>5, <1>11, ArmedParts, PTL

LEMMA WaitTriggerServes ==
    ASSUME IInv, TimersArmed, NoStall, WaitTrigger
    PROVE  (TimersArmed /\ NoStall)'
<1> DEFINE expired == {h \in Waiting(waitlist) :
                          waittime[h] + TxGatherSlack > TxArriveTimeout}
           anns == [p \in Peers |-> announces[p] \cup SlotsOf(p, expired)]
           anncd == [h \in Hashes |-> IF h \in expired THEN waitlist[h] ELSE announced[h]]
           actives == UNION {waitlist[h] : h \in expired}
           panic == \E h \in expired : announced[h] # {}
<1>1. /\ IF Waiting(waitlist') # {}
         THEN RescheduleWait(waitlist', waittime')
         ELSE waitTimer' = waitTimer
      /\ ScheduleFetches(anns, anncd, fetching, requests, alternates, actives, panic)
      /\ RescheduleIfIdle(requests)
      /\ UNCHANGED timeoutTriggers
    BY Zenon DEF WaitTrigger
<1>2. Maps
    BY IInvMaps
<1>3. expired \subseteq Hashes
    BY DEF Waiting
<1>4. actives \in SUBSET Peers
    BY <1>3 DEF IInv, TypeOK
<1>5. \A q \in Peers : q \notin actives => anns[q] = announces[q]
    BY DEF SlotsOf
<1> HIDE DEF expired
<1>6. MapTypes(anns, anncd, fetching, requests, alternates)
    BY <1>2, <1>3 DEF Maps, MapInv, MapTypes, IInv, TypeOK, SlotsOf
<1> HIDE DEF anns, anncd, actives, panic
<1>7. WaitArmed'
    BY <1>1, WaitTimerType, ArmedByReschedule DEF WaitArmed, Waiting
<1>8. TimeoutArmed'
  <2>1. TimeoutArmed
    BY Zenon, ArmedParts
  <2> QED BY <1>1, <2>1, ScheduleArms
<1>9. /\ announces' = anns
      /\ \A h \in Hashes : fetching'[h] = NoPeer => fetching[h] = NoPeer
      /\ \A q \in Peers : requests[q] # NoRequest => requests'[q] # NoRequest
      /\ \A q \in actives, h \in Hashes :
            h \in anns[q] /\ fetching'[h] = NoPeer => requests'[q] # NoRequest
    BY Zenon, <1>1, <1>4, <1>6, ScheduleServes
<1>10. NoStall'
    BY <1>5, <1>9 DEF NoStall
<1> QED BY <1>7, <1>8, <1>10, ArmedParts, PTL

\* A handler that schedules for all peers leaves no idle peer with work.
LEMMA AllPeersServed ==
    ASSUME NEW anns, NEW anncd, NEW fet, NEW req, NEW alts, NEW panic,
           MapTypes(anns, anncd, fet, req, alts),
           ScheduleFetches(anns, anncd, fet, req, alts, AllPeers(anns), panic)
    PROVE  NoStall'
<1>1. AllPeers(anns) \in SUBSET Peers
    BY DEF AllPeers
<1>2. \A p \in Peers, h \in Hashes : h \in anns[p] => p \in AllPeers(anns)
    BY Zenon DEF AllPeers
<1>3. /\ announces' = anns
      /\ \A p \in AllPeers(anns), h \in Hashes :
            h \in anns[p] /\ fetching'[h] = NoPeer => requests'[p] # NoRequest
    BY <1>1, ScheduleServes
<1> QED BY <1>2, <1>3 DEF NoStall

LEMMA TimeoutTriggerServes ==
    ASSUME IInv, TimersArmed, NoStall, TimeoutTrigger
    PROVE  (TimersArmed /\ NoStall)'
<1> DEFINE expired == {p \in Peers : /\ requests[p] # NoRequest
                                     /\ requests[p].age + TxGatherSlack > TxFetchTimeout}
           failed(h) == {p \in expired : h \in Pending(requests, p)}
           anns == [p \in Peers |-> IF p \in expired
                                    THEN announces[p] \ Pending(requests, p)
                                    ELSE announces[p]]
           anncd == [h \in Hashes |->
                       (IF failed(h) # {} /\ alternates[h] # {}
                        THEN alternates[h] ELSE announced[h]) \ failed(h)]
           fet == [h \in Hashes |-> IF failed(h) # {} THEN NoPeer ELSE fetching[h]]
           alts == [h \in Hashes |-> IF failed(h) # {} THEN {} ELSE alternates[h]]
           req == [p \in Peers |-> IF p \in expired
                                   THEN [requests[p] EXCEPT !.hashes = {}]
                                   ELSE requests[p]]
           panic == \E h \in Hashes : failed(h) # {} /\ announced[h] # {}
<1>1. /\ ScheduleFetches(anns, anncd, fet, req, alts, AllPeers(anns), panic)
      /\ RescheduleTimeout(requests')
      /\ UNCHANGED <<waitlist, waitTimer, waitTriggers>>
    BY ZenonT(30) DEF TimeoutTrigger, waitVars
<1>2. Maps
    BY IInvMaps
<1>3. \A p \in expired : p \in Peers /\ requests[p] # NoRequest
    OBVIOUS
<1> HIDE DEF expired
<1>4. MapTypes(anns, anncd, fet, req, alts)
  <2>1. \A p \in Peers : req[p] \in Request \cup {NoRequest}
    BY <1>2, <1>3 DEF Maps, MapInv, MapTypes, Request
  <2> QED BY <1>2, <2>1 DEF Maps, MapInv, MapTypes
<1> HIDE DEF anns, anncd, fet, req, alts, panic
<1>5. NoStall'
    BY <1>1, <1>4, AllPeersServed
<1>6. TimeoutArmed'
    BY <1>1, TimeoutTimerType, ArmedByReschedule DEF TimeoutArmed
<1>7. WaitArmed'
    BY <1>1, ArmedParts DEF WaitArmed, Waiting
<1> QED BY <1>5, <1>6, <1>7, ArmedParts, PTL

LEMMA EnqueueServes ==
    ASSUME IInv, TimersArmed, NoStall,
           NEW p \in Peers, NEW D \in SUBSET Hashes, NEW direct \in BOOLEAN,
           Enqueue(p, D, direct)
    PROVE  (TimersArmed /\ NoStall)'
<1> DEFINE gone == Gone(D)
           req == Robbed(p, D, direct)
           panic == \E q \in Peers : requests[q] = NoRequest /\ Stolen(p, D, direct, q) # {}
<1>1. Maps
    BY ZenonT(40), IInvMaps
<1>2. /\ req \in [Peers -> Request \cup {NoRequest}]
      /\ \A q \in Peers : req[q] = NoRequest <=> requests[q] = NoRequest
    BY DeliveryKeepsMaps
<1>3. /\ waitlist' = [h \in Hashes |-> IF h \in D THEN {} ELSE waitlist[h]]
      /\ UNCHANGED <<waitTimer, waitTriggers, timeoutTriggers>>
    BY Zenon DEF Enqueue
<1>4. WaitArmed'
    BY Zenon, <1>3, ArmedParts DEF WaitArmed, Waiting
<1>5. TimeoutArmed
    BY ArmedParts
<1> HIDE DEF req, panic
<1>6. CASE ~(direct /\ requests[p] # NoRequest)
  <2>1. CleanUp(D, req, panic)
    BY <1>6, ZenonT(30) DEF Enqueue, req, panic
  <2>2. /\ announces' = [q \in Peers |-> announces[q] \ gone]
        /\ fetching' = [h \in Hashes |-> IF h \in gone THEN NoPeer ELSE fetching[h]]
        /\ requests' = req
        /\ UNCHANGED timeoutTimer
    BY <2>1, ZenonT(30) DEF CleanUp
  <2> HIDE DEF gone
  <2>3. NoStall'
    BY <1>2, <2>2, ZenonT(30) DEF NoStall
  <2>4. TimeoutArmed'
    BY <1>2, <1>3, <1>5, <2>2 DEF TimeoutArmed, InFlight
  <2> QED BY <1>4, <2>3, <2>4, ArmedParts, PTL
<1>7. CASE direct /\ requests[p] # NoRequest
  <2> DEFINE answered == Pending(req, p)
             missing == answered \ D
  <2>0. Reply(p, D, req, panic)
    BY <1>7, ZenonT(30) DEF Enqueue, req, panic
  <2>1. PICK before \in SUBSET missing :
          LET anns == [q \in Peers |-> (announces[q] \ gone) \ (IF q = p THEN before ELSE {})]
              others(h) == (IF h \in gone THEN {} ELSE alternates[h])
                               \ (IF h \in before THEN {p} ELSE {})
              anncd == [h \in Hashes |->
                           IF h \in missing /\ others(h) # {} THEN others(h)
                           ELSE IF h \in gone THEN {} ELSE announced[h]]
              fet == [h \in Hashes |-> IF h \in gone \cup answered THEN NoPeer ELSE fetching[h]]
              alts == [h \in Hashes |-> IF h \in gone \cup answered THEN {} ELSE alternates[h]]
              left == [req EXCEPT ![p] = NoRequest]
          IN
          /\ ScheduleFetches(anns, anncd, fet, left, alts, AllPeers(anns),
                panic \/ \E h \in missing \ gone : others(h) # {} /\ announced[h] # {})
          /\ RescheduleIfIdle(left)
    BY <2>0, Zenon DEF Reply
  <2> DEFINE anns == [q \in Peers |-> (announces[q] \ gone) \ (IF q = p THEN before ELSE {})]
             others(h) == (IF h \in gone THEN {} ELSE alternates[h])
                              \ (IF h \in before THEN {p} ELSE {})
             anncd == [h \in Hashes |->
                          IF h \in missing /\ others(h) # {} THEN others(h)
                          ELSE IF h \in gone THEN {} ELSE announced[h]]
             fet == [h \in Hashes |-> IF h \in gone \cup answered THEN NoPeer ELSE fetching[h]]
             alts == [h \in Hashes |-> IF h \in gone \cup answered THEN {} ELSE alternates[h]]
             left == [req EXCEPT ![p] = NoRequest]
             bad == panic \/ \E h \in missing \ gone : others(h) # {} /\ announced[h] # {}
  <2>2. /\ ScheduleFetches(anns, anncd, fet, left, alts, AllPeers(anns), bad)
        /\ RescheduleIfIdle(left)
    BY <2>1, Zenon
  <2> HIDE DEF gone, answered, missing, bad
  <2>3. MapTypes(anns, anncd, fet, left, alts)
    BY <1>1, <1>2 DEF Maps, MapInv, MapTypes
  <2>4. \A q \in Peers : left[q] # NoRequest => requests[q] # NoRequest
    BY <1>2
  <2> HIDE DEF anns, anncd, fet, alts, left
  <2>5. NoStall'
    BY ZenonT(40), <2>2, <2>3, AllPeersServed
  <2>6. TimeoutArmed'
    BY Zenon, <1>3, <1>5, <2>2, <2>4, ScheduleArms
  <2> QED BY <1>4, <2>5, <2>6, ArmedParts, PTL
<1> QED BY <1>6, <1>7

LEMMA DropServes ==
    ASSUME IInv, TimersArmed, NoStall, NEW p \in Peers, Drop(p)
    PROVE  (TimersArmed /\ NoStall)'
<1> DEFINE failed == Pending(requests, p)
           queued == [h \in Hashes |->
                        IF h \in failed /\ alternates[h] \ {p} # {}
                        THEN alternates[h] \ {p} ELSE announced[h]]
           anns == [announces EXCEPT ![p] = {}]
           anncd == [h \in Hashes |-> IF h \in announces[p] THEN queued[h] \ {p}
                                                            ELSE queued[h]]
           fet == [h \in Hashes |-> IF h \in failed THEN NoPeer ELSE fetching[h]]
           alts == [h \in Hashes |-> IF h \in failed THEN {} ELSE alternates[h]]
           req == [requests EXCEPT ![p] = NoRequest]
<1>1. /\ waitlist' = [h \in Hashes |-> IF h \in waitslots[p] THEN waitlist[h] \ {p}
                                                             ELSE waitlist[h]]
      /\ IF waitslots[p] # {} /\ Waiting(waitlist') # {}
         THEN RescheduleWait(waitlist', waittime')
         ELSE waitTimer' = waitTimer
      /\ UNCHANGED <<waitTriggers, timeoutTriggers>>
    BY Zenon DEF Drop
<1>2. IF requests[p] # NoRequest
      THEN /\ ScheduleFetches(anns, anncd, fet, req, alts, AllPeers(anns), FALSE)
           /\ RescheduleTimeout(requests')
      ELSE /\ announces' = anns
           /\ UNCHANGED <<fetching, requests, timeoutTimer>>
    BY Zenon DEF Drop
<1>3. Maps
    BY IInvMaps
<1>4. WaitArmed'
  <2>1. CASE waitslots[p] # {} /\ Waiting(waitlist') # {}
    BY <1>1, <2>1, WaitTimerType, ArmedByReschedule, Zenon DEF WaitArmed
  <2>2. CASE ~(waitslots[p] # {} /\ Waiting(waitlist') # {})
    <3>1. waitTimer' = waitTimer
      BY ZenonT(40), <1>1, <2>2
    <3>2. Waiting(waitlist)' # {} => Waiting(waitlist) # {}
      BY Zenon, <1>1 DEF Waiting
    <3> QED BY <1>1, <3>1, <3>2, ArmedParts, Zenon DEF WaitArmed
  <2> QED BY <2>1, <2>2
<1>5. MapTypes(anns, anncd, fet, req, alts)
    BY <1>3 DEF Maps, MapInv, MapTypes
<1>6. \A q \in Peers : anns[q] \subseteq announces[q]
    BY <1>3 DEF Maps, MapInv, MapTypes
<1> HIDE DEF anns, anncd, fet, alts, req
<1>7. NoStall' /\ TimeoutArmed'
  <2>1. CASE requests[p] # NoRequest
    <3>1. NoStall'
      BY <1>2, <1>5, <2>1, AllPeersServed, Zenon
    <3>2. timeoutTimer' # NoTimer
      BY <1>2, <2>1, TimeoutTimerType, ArmedByReschedule
    <3> QED BY <3>1, <3>2 DEF TimeoutArmed
  <2>2. CASE requests[p] = NoRequest
    <3>1. NoStall'
      BY <1>2, <1>6, <2>2 DEF NoStall
    <3>2. TimeoutArmed'
      <4>1. UNCHANGED <<requests, timeoutTimer, timeoutTriggers>>
        BY <1>1, <1>2, <2>2
      <4>2. TimeoutArmed
        BY ArmedParts
      <4> QED BY <4>1, <4>2 DEF TimeoutArmed, InFlight
    <3> QED BY <3>1, <3>2
  <2> QED BY <2>1, <2>2
<1> QED BY <1>4, <1>7, ArmedParts, PTL

LEMMA QuietServes ==
    ASSUME IInv, TimersArmed, NoStall, Tick \/ Stop \/ FireWait \/ FireTimeout \/ UNCHANGED vars
    PROVE  (TimersArmed /\ NoStall)'
<1>1. /\ UNCHANGED <<waitlist, announces, fetching>>
      /\ \A p \in Peers : requests'[p] = NoRequest <=> requests[p] = NoRequest
  <2>1. CASE Tick
    <3>1. UNCHANGED <<waitlist, announces, fetching>>
      BY <2>1 DEF Tick
    <3>2. ASSUME NEW p \in Peers, requests[p] # NoRequest PROVE requests'[p] # NoRequest
      <4>1. requests[p] \in Request
        BY <3>2 DEF IInv, TypeOK
      <4>2. Older(requests[p].age, TxFetchTimeout) \in Nat
        BY <4>1, FetcherAssumption DEF Older, Request
      <4>3. requests'[p] = [requests[p] EXCEPT !.age = Older(requests[p].age, TxFetchTimeout)]
        BY <2>1, <3>2 DEF Tick
      <4>4. requests'[p] \in [hashes : SUBSET Hashes, stolen : SUBSET Hashes, age : Nat]
        BY <4>1, <4>2, <4>3 DEF Request
      <4> QED BY <4>4, FetcherAssumption
    <3>3. \A p \in Peers : requests[p] = NoRequest => requests'[p] = NoRequest
      BY <2>1 DEF Tick
    <3> QED BY <3>1, <3>2, <3>3
  <2>2. CASE Stop \/ FireWait \/ FireTimeout \/ UNCHANGED vars
    BY <2>2 DEF Stop, FireWait, FireTimeout, vars, waitVars, fetchVars
  <2> QED BY <2>1, <2>2
<1>2. NoStall'
    BY <1>1 DEF NoStall
<1>3. /\ (waitTimer # NoTimer \/ waitTriggers > 0) =>
            waitTimer' # NoTimer \/ waitTriggers' > 0
      /\ (timeoutTimer # NoTimer \/ timeoutTriggers > 0) =>
            timeoutTimer' # NoTimer \/ timeoutTriggers' > 0
  <2>1. CASE Tick
    BY <2>1, FetcherAssumption DEF Tick, Sooner, NoTimer, IInv, TypeOK
  <2>2. CASE Stop
    BY <2>2 DEF Stop, timerVars
  <2>3. CASE FireWait
    BY <2>3, FetcherAssumption DEF FireWait, IInv, TypeOK
  <2>4. CASE FireTimeout
    BY <2>4, FetcherAssumption DEF FireTimeout, IInv, TypeOK
  <2>5. CASE UNCHANGED vars
    BY <2>5 DEF vars, timerVars
  <2> QED BY <2>1, <2>2, <2>3, <2>4, <2>5
<1>4. TimersArmed'
    BY <1>1, <1>3 DEF TimersArmed, Waiting
<1> QED BY <1>2, <1>4

LEMMA InitServes == Init => TimersArmed /\ NoStall
BY DEF Init, TimersArmed, NoStall, Waiting

LEMMA NextServes == IInv /\ TimersArmed /\ NoStall /\ [Next]_vars => (TimersArmed /\ NoStall)'
BY NotifyServes, WaitTriggerServes, TimeoutTriggerServes, EnqueueServes, DropServes,
   QuietServes DEF Next

\* A timer of the event loop is never lost: while a hash waits or a request is
\* in flight, its timer is armed or its firing is on the way to the loop.
THEOREM TimersNeverLost == Spec => []TimersArmed
BY InitIInv, NextKeeps, InitServes, NextServes, PTL DEF Spec

\* An idle peer with a fetchable hash is never left behind: a request is in
\* flight whose reply, timeout or disconnection schedules it.
THEOREM NoIdlePeerForgotten == Spec => []NoStall
BY InitIInv, NextKeeps, InitServes, NextServes, PTL DEF Spec

-----------------------------------------------------------------------------
(***************************************************************************)
(* A request is not replaced.  No invariant but the type is needed: only    *)
(* an idle peer is scheduled, and apart from p's reply, nothing makes p     *)
(* idle but Drop(p), which leaves p nothing to be asked for.               *)
(***************************************************************************)
KeptBy(p) ==
    requests[p] # NoRequest /\ requests'[p] # NoRequest =>
        \/ /\ requests'[p].hashes \in {requests[p].hashes, {}}
           /\ requests[p].stolen \subseteq requests'[p].stolen
        \/ \E D \in SUBSET Hashes : Enqueue(p, D, TRUE)

\* scheduleFetches sends nothing to a peer that is busy, or that has no
\* announcements.
LEMMA ScheduleSkips ==
    ASSUME NEW anns, NEW anncd, NEW fet, NEW req, NEW alts, NEW actives, NEW panic,
           ScheduleFetches(anns, anncd, fet, req, alts, actives, panic),
           NEW p \in Peers, req[p] # NoRequest \/ anns[p] = {}
    PROVE  requests'[p] = req[p]
<1>1. p \notin Idle(anns, req, actives)
    BY DEF Idle
<1> HIDE DEF Idle
<1> QED BY Zenon, <1>1 DEF ScheduleFetches

LEMMA SomeRequest == \A r \in Request : r # NoRequest
BY FetcherAssumption DEF Request

LEMMA TimeoutTriggerReplacesNone ==
    ASSUME TypeOK, TimeoutTrigger, NEW p \in Peers
    PROVE  KeptBy(p)
<1> SUFFICES ASSUME requests[p] # NoRequest
             PROVE  /\ requests'[p].hashes \in {requests[p].hashes, {}}
                    /\ requests[p].stolen \subseteq requests'[p].stolen
    BY Zenon DEF KeptBy
<1> DEFINE expired == {q \in Peers : /\ requests[q] # NoRequest
                                     /\ requests[q].age + TxGatherSlack > TxFetchTimeout}
           failed(h) == {q \in expired : h \in Pending(requests, q)}
           anns == [q \in Peers |-> IF q \in expired
                                    THEN announces[q] \ Pending(requests, q)
                                    ELSE announces[q]]
           anncd == [h \in Hashes |->
                       (IF failed(h) # {} /\ alternates[h] # {}
                        THEN alternates[h] ELSE announced[h]) \ failed(h)]
           fet == [h \in Hashes |-> IF failed(h) # {} THEN NoPeer ELSE fetching[h]]
           alts == [h \in Hashes |-> IF failed(h) # {} THEN {} ELSE alternates[h]]
           req == [q \in Peers |-> IF q \in expired
                                   THEN [requests[q] EXCEPT !.hashes = {}]
                                   ELSE requests[q]]
           bad == \E h \in Hashes : failed(h) # {} /\ announced[h] # {}
<1>1. ScheduleFetches(anns, anncd, fet, req, alts, AllPeers(anns), bad)
    BY Zenon DEF TimeoutTrigger
<1> HIDE DEF anns, anncd, fet, alts, bad, expired
<1>2. requests[p] \in Request
    BY DEF TypeOK
<1>3. /\ req[p] \in Request
      /\ req[p].hashes \in {requests[p].hashes, {}}
      /\ req[p].stolen = requests[p].stolen
    BY <1>2 DEF Request
<1>4. req[p] # NoRequest
    BY <1>3, SomeRequest
<1> HIDE DEF req
<1>5. requests'[p] = req[p]
    BY <1>1, <1>4, ScheduleSkips
<1> QED BY <1>3, <1>5

LEMMA EnqueueReplacesNone ==
    ASSUME TypeOK, NEW q \in Peers, NEW D \in SUBSET Hashes, NEW direct \in BOOLEAN,
           Enqueue(q, D, direct), NEW p \in Peers
    PROVE  KeptBy(p)
<1> SUFFICES ASSUME requests[p] # NoRequest, ~(p = q /\ direct)
             PROVE  /\ requests'[p].hashes = requests[p].hashes
                    /\ requests[p].stolen \subseteq requests'[p].stolen
    BY ZenonT(30) DEF KeptBy
<1> DEFINE req == Robbed(q, D, direct)
<1>1. requests[p] \in Request
    BY DEF TypeOK
<1>2. /\ req[p] = [requests[p] EXCEPT !.stolen = @ \cup Stolen(q, D, direct, p)]
      /\ DOMAIN req = Peers
    BY DEF Robbed
<1>3. Stolen(q, D, direct, p) \in SUBSET Hashes
    BY DEF Stolen, Gone
<1>4. /\ req[p] \in Request
      /\ req[p].hashes = requests[p].hashes
      /\ requests[p].stolen \subseteq req[p].stolen
    BY Zenon, <1>1, <1>2, <1>3 DEF Request
<1>5. req[p] # NoRequest
    BY <1>4, SomeRequest
<1>6. requests'[p] = req[p]
  <2>1. CASE direct /\ requests[q] # NoRequest
    <3>1. PICK panic : Reply(q, D, req, panic)
      BY <2>1, Zenon DEF Enqueue
    <3> HIDE DEF req
    <3> DEFINE left == [req EXCEPT ![q] = NoRequest]
    <3>2. PICK anns, anncd, fet, alts, bad :
            ScheduleFetches(anns, anncd, fet, left, alts, AllPeers(anns), bad)
      BY <3>1, Zenon DEF Reply
    <3>3. left[p] = req[p]
      BY <1>2, <2>1, Zenon
    <3> HIDE DEF left
    <3> QED BY <1>5, <3>2, <3>3, ScheduleSkips
  <2>2. CASE ~(direct /\ requests[q] # NoRequest)
    BY <2>2, Zenon DEF Enqueue, CleanUp
  <2> QED BY ZenonT(40), <2>1, <2>2
<1> QED BY <1>4, <1>6

LEMMA DropReplacesNone ==
    ASSUME TypeOK, NEW q \in Peers, Drop(q), NEW p \in Peers
    PROVE  KeptBy(p)
<1> DEFINE anns == [announces EXCEPT ![q] = {}]
           req == [requests EXCEPT ![q] = NoRequest]
<1>1. CASE requests[q] # NoRequest
  <2>1. PICK anncd, fet, alts :
          ScheduleFetches(anns, anncd, fet, req, alts, AllPeers(anns), FALSE)
    BY <1>1, Zenon DEF Drop
  <2>2. anns[q] = {} /\ req[q] = NoRequest /\ (p # q => req[p] = requests[p])
    BY DEF TypeOK
  <2> HIDE DEF anns, req
  <2>3. requests'[q] = req[q]
    BY <2>1, <2>2, ScheduleSkips, ZenonT(40)
  <2>4. p # q /\ requests[p] # NoRequest => requests'[p] = requests[p]
    BY <2>1, <2>2, ScheduleSkips, Zenon
  <2> QED BY <2>2, <2>3, <2>4, Zenon DEF KeptBy
<1>2. CASE requests[q] = NoRequest
    BY <1>2, Zenon DEF Drop, KeptBy
<1> QED BY <1>1, <1>2

LEMMA OthersReplaceNone ==
    ASSUME TypeOK, NEW p \in Peers,
           \/ \E q \in Peers, S \in SUBSET Hashes : Notify(q, S)
           \/ WaitTrigger \/ Stop \/ Tick \/ FireWait \/ FireTimeout
    PROVE  KeptBy(p)
<1>1. CASE (\E q \in Peers, S \in SUBSET Hashes : Notify(q, S)) \/ WaitTrigger
  <2>1. PICK anns, anncd, alts, actives, panic :
          ScheduleFetches(anns, anncd, fetching, requests, alts, actives, panic)
    BY <1>1, ZenonT(30) DEF Notify, WaitTrigger
  <2>2. requests[p] # NoRequest => requests'[p] = requests[p]
    BY <2>1, ScheduleSkips, Zenon
  <2> QED BY <2>2, Zenon DEF KeptBy
<1>2. CASE Tick
  <2>1. requests[p] # NoRequest =>
          requests[p] \in Request /\
          requests'[p] = [requests[p] EXCEPT !.age = Older(@, TxFetchTimeout)]
    BY <1>2 DEF Tick, TypeOK
  <2> QED BY <2>1, Zenon DEF KeptBy, Request
<1>3. CASE Stop \/ FireWait \/ FireTimeout
    BY <1>3, Zenon DEF Stop, FireWait, FireTimeout, fetchVars, KeptBy
<1> QED BY <1>1, <1>2, <1>3

\* A peer never has two requests in flight: only its own reply makes room for
\* another one, whatever times out, is stolen or is delivered by others.
THEOREM RequestsNotReplaced == Spec => RequestKept
<1>1. TypeOK /\ [Next]_vars => [\A p \in Peers : KeptBy(p)]_vars
    BY TimeoutTriggerReplacesNone, EnqueueReplacesNone, DropReplacesNone,
       OthersReplaceNone DEF Next
<1>2. TypeOK /\ [Next]_vars =>
        [\A p \in Peers :
           (requests[p] # NoRequest /\ requests'[p] # NoRequest) =>
             \/ /\ requests'[p].hashes \in {requests[p].hashes, {}}
                /\ requests[p].stolen \subseteq requests'[p].stolen
             \/ \E D \in SUBSET Hashes : Enqueue(p, D, TRUE)]_vars
    BY <1>1, Zenon DEF KeptBy
<1>3. BookkeepingOK => TypeOK
    BY DEF BookkeepingOK
<1> QED BY <1>2, <1>3, Bookkeeping, PTL DEF Spec, RequestKept
=============================================================================
