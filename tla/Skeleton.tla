---- MODULE Skeleton ----
(***************************************************************************)
(* The beacon header skeleton (eth/downloader/skeleton.go) and the         *)
(* backfiller it directs (eth/downloader/beaconsync.go).                   *)
(*                                                                         *)
(* The skeleton downloads headers backwards from heads the consensus       *)
(* client announces until they link to the local chain.  Every restart or  *)
(* reorganisation may begin a new subchain, which is merged when it meets  *)
(* an older one.  Once linked, the backfiller imports the blocks forward.  *)
(*                                                                         *)
(* A header is <<number, chain>>; the chains share the headers up to       *)
(* ForkAt.  db holds the skeleton headers by number and subs the persisted *)
(* progress: both are written in one database batch, so a crash keeps them *)
(* together.  cyc is the state of the running sync cycle.                  *)
(***************************************************************************)
EXTENDS Integers, Sequences, FiniteSetsExt, Functions

CONSTANTS Peers,
          Chains,           \* names of the chains
          Trunk,            \* the name used for the headers they share
          ForkAt,           \* number of the last shared header
          MaxNumber,        \* bound: highest block number
          requestHeaders,   \* headers of one request
          Tasks,            \* scratchHeaders / requestHeaders
          BatchLimit,       \* deletions after which cleanStales flushes its batch
          MaxHeads,         \* bound: announced heads
          MaxFaults,        \* bound: failed requests, junk replies and departures of peers
          MaxRestarts       \* bound: terminations and crashes of the process

ASSUME SkeletonAssumption ==
    /\ Trunk \in Chains /\ MaxNumber \in Nat /\ ForkAt \in 0 .. MaxNumber
    /\ requestHeaders \in Nat \ {0} /\ Tasks \in Nat \ {0} /\ BatchLimit \in Nat \ {0}
    /\ <<>> \notin Peers

HeaderAt(n, c) == <<n, IF n <= ForkAt THEN Trunk ELSE c>>
Headers == {HeaderAt(n, c) : n \in 1 .. MaxNumber, c \in Chains}
Genesis == <<0, Trunk>>
Number(h) == h[1]
Parent(h) == HeaderAt(h[1] - 1, h[2])
None == <<>>
Quit == <<"quit">>

VARIABLES subs,      \* progress.Subchains, newest first
          db,        \* skeleton headers on disk by number
          local,     \* blocks of the local chain, with bodies and receipts
          current,   \* CurrentSnapBlock
          pc,        \* "wait", "begin", "run", "end", "clean", "dead"
          next,      \* what the next cycle starts with: a header, None to go on, or Quit
          cyc,       \* the sync cycle: linked, scratchHead, owners, space, reqs, idles, late,
                     \* and what suspend returned at its end
          fill,      \* beaconBackfiller: filling, filled, and the download it runs
          online,    \* connected peers
          dropping,  \* peers the skeleton asked to disconnect
          heads, faults, restarts

vars == <<subs, db, local, current, pc, next, cyc, fill, online, dropping, heads, faults, restarts>>

TaskIds == 0 .. Tasks - 1
NoCycle == [linked |-> FALSE, scratchHead |-> 0, owners |-> [k \in TaskIds |-> None],
            space |-> [k \in TaskIds |-> <<>>], reqs |-> {}, idles |-> {}, late |-> {}, filled |-> None]
NoFill == [filling |-> FALSE, filled |-> None, state |-> "off", cancelled |-> FALSE,
           lo |-> 0, hi |-> 0, tip |-> None, queue |-> <<>>]

Subchain(h) == [head |-> Number(h), tail |-> Number(h), next |-> Parent(h)]

Init ==
    /\ subs = <<>>
    /\ db = [n \in 1 .. MaxNumber |-> None]
    /\ local = {Genesis} /\ current = Genesis
    /\ pc = "wait" /\ next = None
    /\ cyc = NoCycle /\ fill = NoFill
    /\ online = Peers /\ dropping = {}
    /\ heads = 0 /\ faults = 0 /\ restarts = 0

----
(***************************************************************************)
(* assignTasks: the free tasks above genesis are given, in their order, to *)
(* idle peers.  It ends every iteration of the loop of a cycle that is not *)
(* linked.                                                                 *)
(***************************************************************************)
\* Mutant: a task that ends at genesis is never assigned.
FreeTasks_AboveGenesis(c) == {k \in TaskIds : c.owners[k] = None /\ (k + 1) * requestHeaders < c.scratchHead}
FreeTasks(c) == {k \in TaskIds : c.owners[k] = None /\ k * requestHeaders < c.scratchHead}
Assigned(c) ==
    LET n == Min({Cardinality(FreeTasks(c)), Cardinality(c.idles)})
        given == {k \in FreeTasks(c) : Cardinality({j \in FreeTasks(c) : j < k}) < n}
    IN  IF c.linked THEN {c}
        ELSE { [c EXCEPT !.owners = [k \in TaskIds |-> IF k \in given THEN f[k] ELSE @[k]],
                         !.reqs = @ \cup {[peer |-> f[k], head |-> c.scratchHead - k * requestHeaders] : k \in given},
                         !.idles = @ \ Range(f)] : f \in Injection(given, c.idles) }

----
(***************************************************************************)
(* sync: the beginning of a cycle.                                         *)
(***************************************************************************)
\* The subchains after the leading ones that lie at n or above.
Below(n) ==
    LET first == Min({i \in DOMAIN subs : subs[i].tail < n} \cup {Len(subs) + 1})
    IN  SubSeq(subs, first, Len(subs))
\* Mutant: the subchain below the new head keeps the headers it overwrites.
Trimmed_KeepHead(h) == Below(Number(h))
\* initSync: subchains above the new head are dropped, the first one below is
\* cut, and extended if the new head is its child.
Trimmed(h) ==
    LET kept == Below(Number(h))
    IN  IF kept = <<>> THEN <<>>
        ELSE [kept EXCEPT ![1].head = Min({@, Number(h) - 1})]

initSync(h) ==
    LET kept == Trimmed(h)
        extends == kept /= <<>> /\ kept[1].head = Number(h) - 1 /\ db[kept[1].head] = Parent(h)
    IN  IF extends THEN [kept EXCEPT ![1].head = Number(h)] ELSE <<Subchain(h)>> \o kept

Linked(ss) == Len(ss) = 1 /\ ss[1].next \in local

\* resume: a backfiller that has not terminated yet ignores the request.
Resumed(f) == IF f.filling THEN f
              ELSE [NoFill EXCEPT !.filling = TRUE, !.state = "starting"]

BeginCycle ==
    /\ pc = "begin"
    /\ subs' = IF next = None THEN subs ELSE initSync(next)
    /\ db' = IF next = None THEN db ELSE [db EXCEPT ![Number(next)] = next]
    /\ cyc' \in Assigned([NoCycle EXCEPT !.linked = Linked(subs'), !.scratchHead = subs'[1].tail - 1, !.idles = online])
    /\ fill' = IF Linked(subs') THEN Resumed(fill) ELSE fill
    /\ pc' = "run" /\ next' = None
    /\ UNCHANGED <<local, current, online, dropping, heads, faults, restarts>>

----
(***************************************************************************)
(* Head events.                                                            *)
(***************************************************************************)
\* The consensus client announces headers of blocks that are not local.
Announced(h) == h \notin local /\ heads < MaxHeads /\ heads' = heads + 1

\* startup: only a forced head starts the first cycle.
StartHead(h) ==
    /\ pc = "wait" /\ Announced(h)
    /\ pc' = "begin" /\ next' = h
    /\ UNCHANGED <<subs, db, local, current, cyc, fill, online, dropping, faults, restarts>>

\* processNewHead accepts h.
Accepted(h) ==
    LET last == subs[1] IN
    \/ last.tail >= Number(h) /\ last.head = last.tail /\ db[Number(h)] = h
    \/ last.tail < Number(h) /\ Number(h) <= last.head + 1 /\ db[Number(h) - 1] = Parent(h)

\* An accepted head extends the first subchain, or unwinds it to the head's
\* parent and then extends it; the backfiller is woken, and never suspended.
ExtendHead(h) ==
    /\ pc = "run" /\ Announced(h) /\ Accepted(h)
    /\ IF subs[1].tail >= Number(h) THEN UNCHANGED <<subs, db>>
       ELSE subs' = [subs EXCEPT ![1].head = Number(h)] /\ db' = [db EXCEPT ![Number(h)] = h]
    /\ fill' = IF cyc.linked THEN Resumed(fill) ELSE fill
    /\ cyc' \in Assigned(cyc)
    /\ UNCHANGED <<local, current, pc, next, online, dropping, faults, restarts>>

\* Any other head ends the cycle if it is forced, and is refused if it is not.
ForceHead(h) ==
    /\ pc = "run" /\ Announced(h) /\ ~Accepted(h)
    /\ pc' = "end" /\ next' = h
    /\ UNCHANGED <<subs, db, local, current, cyc, fill, online, dropping, faults, restarts>>

----
(***************************************************************************)
(* Peers and header requests.                                              *)
(***************************************************************************)
Fault == faults < MaxFaults /\ faults' = faults + 1

\* Mutant: a failed request is forgotten and its task stays assigned.
Reverted_KeepOwner(c, r) == [c EXCEPT !.reqs = @ \ {r}]
Reverted(c, r) ==
    [c EXCEPT !.reqs = @ \ {r}, !.owners[(c.scratchHead - r.head) \div requestHeaders] = None]

\* A request fails: it times out, or its reply is empty or malformed, and the
\* peer is disconnected.
RequestFails(r) ==
    /\ pc = "run" /\ r \in cyc.reqs /\ (r.peer \in online => Fault)
    /\ r.peer \notin online => UNCHANGED faults
    /\ cyc' \in Assigned(Reverted(cyc, r))
    /\ dropping' = dropping \cup ({r.peer} \cap online)
    /\ UNCHANGED <<subs, db, local, current, pc, next, fill, online, heads, restarts>>

\* A peer leaves, on its own or disconnected; its requests are reverted, while
\* the goroutine that runs one may still deliver the reply.
PeerLeaves(p) ==
    /\ p \in online /\ (p \notin dropping => Fault) /\ (p \in dropping => UNCHANGED faults)
    /\ online' = online \ {p} /\ dropping' = dropping \ {p}
    /\ IF pc = "run"
       THEN LET own == {r \in cyc.reqs : r.peer = p}
                task(r) == (cyc.scratchHead - r.head) \div requestHeaders
            IN  cyc' \in Assigned([cyc EXCEPT !.reqs = @ \ own,
                                              !.owners = [k \in TaskIds |-> IF \E r \in own : task(r) = k THEN None ELSE @[k]],
                                              !.late = IF own = {} THEN @ ELSE @ \cup {p},
                                              !.idles = @ \ {p}])
       ELSE UNCHANGED cyc
    /\ UNCHANGED <<subs, db, local, current, pc, next, fill, heads, restarts>>

PeerJoins(p) ==
    /\ p \notin online
    /\ online' = online \cup {p}
    /\ IF pc = "run" THEN cyc' \in Assigned([cyc EXCEPT !.idles = @ \cup {p}]) ELSE UNCHANGED cyc
    /\ UNCHANGED <<subs, db, local, current, pc, next, fill, dropping, heads, faults, restarts>>

\* The reply to a request that was reverted meanwhile only marks its peer idle.
LateReply(p) ==
    /\ pc = "run" /\ p \in cyc.late
    /\ cyc' \in Assigned([cyc EXCEPT !.late = @ \ {p}, !.idles = @ \cup {p}])
    /\ UNCHANGED <<subs, db, local, current, pc, next, fill, online, dropping, heads, faults, restarts>>

----
(***************************************************************************)
(* processResponse: the delivered headers enter the scratch space, and the *)
(* chunks at its front are consumed as long as they continue the first     *)
(* subchain.  w is the state of that loop; everything it wrote is flushed  *)
(* with the progress in one batch.                                         *)
(***************************************************************************)
\* The headers a peer on chain c serves for a request.
Batch(c, head) == [i \in 1 .. Min({requestHeaders, head}) |-> HeaderAt(head - i + 1, c)]

\* The overlap with the next older subchain: it is dropped if it was overwritten
\* as a whole, merged if it turns out to continue the first one, or trimmed.
Overlap(w) ==
    LET old == w.subs[2]
        tail == w.subs[1].tail
        rest == SubSeq(w.subs, 3, Len(w.subs))
    IN  IF Len(w.subs) = 1 \/ old.head < tail THEN w
        ELSE IF old.tail >= tail THEN [w EXCEPT !.subs = <<@[1]>> \o rest]
        ELSE IF db[tail - 1] = w.subs[1].next
        THEN [w EXCEPT !.merged = TRUE,
                       !.subs = <<[@[1] EXCEPT !.tail = old.tail, !.next = old.next]>> \o rest]
        ELSE [w EXCEPT !.subs[2].head = tail - 1]
\* The loop over the overlaps: none is left after as many steps as subchains.
\* What it ends with is the only member of the set.
Overlapped(w) ==
    LET run[k \in 0 .. Len(w.subs)] == IF k = 0 THEN {w} ELSE {Overlap(x) : x \in run[k - 1]}
    IN  run[Len(w.subs)]

\* A chunk joined the local chain: the leftover subchains are forgotten, and
\* the header of a single one-header leftover below the tail is deleted.
Swapped(w) ==
    LET clean == Len(w.subs) = 2 /\ w.subs[2].head = w.subs[2].tail /\ w.subs[2].head < w.subs[1].tail
    IN  [w EXCEPT !.subs = <<@[1]>>, !.db = IF clean THEN [@ EXCEPT ![w.subs[2].head] = None] ELSE @]

\* The headers of chunk until one joins the local chain continue the subchain.
Joins(chunk) == {i \in DOMAIN chunk : Parent(chunk[i]) \in local}
Pushed(w, chunk, used) ==
    LET tail == w.subs[1].tail - used
    IN  [w EXCEPT !.db = [n \in DOMAIN @ |-> IF n \in tail .. tail + used - 1 THEN chunk[tail + used - n] ELSE @[n]],
                  !.subs[1].tail = tail,
                  !.subs[1].next = Parent(chunk[used])]
\* The download window moves past a consumed chunk.
Shifted(w, used) ==
    [w EXCEPT !.cyc.space = [k \in TaskIds |-> IF k = Tasks - 1 THEN <<>> ELSE @[k + 1]],
              !.cyc.owners = [k \in TaskIds |-> IF k = Tasks - 1 THEN None ELSE @[k + 1]],
              !.cyc.scratchHead = @ - used]

\* The chunk at the front of the scratch space, unless the loop has ended: junk
\* is discarded, and headers that continue the first subchain are consumed.
Consume(w) ==
    LET chunk == w.cyc.space[0]
        joins == Joins(chunk)
    IN  IF chunk = <<>> \/ w.linked \/ w.merged THEN {w}
        ELSE IF w.subs[1].next /= chunk[1]
        THEN {[w EXCEPT !.cyc.space[0] = <<>>, !.cyc.owners[0] = None, !.drop = {w.cyc.owners[0]}]}
        ELSE IF joins /= {} THEN {[Swapped(p) EXCEPT !.linked = TRUE] : p \in {Pushed(w, chunk, Min(joins))}}
        ELSE Overlapped(Shifted(Pushed(w, chunk, Len(chunk)), Len(chunk)))
\* The loop over the chunks, of which the scratch space holds Tasks.
Consumed(w) ==
    LET run[k \in 0 .. Tasks] == IF k = 0 THEN {w} ELSE UNION {Consume(x) : x \in run[k - 1]}
    IN  run[Tasks]

Delivered(r, c) ==
    [subs |-> subs, db |-> db, drop |-> {}, linked |-> FALSE, merged |-> FALSE,
     cyc |-> [cyc EXCEPT !.reqs = @ \ {r}, !.idles = @ \cup {r.peer},
                         !.space[(cyc.scratchHead - r.head) \div requestHeaders] = Batch(c, r.head)]]

Reply(r, c) ==
    /\ pc = "run" /\ r \in cyc.reqs /\ r.peer \in online
    /\ UNCHANGED <<local, current, next, fill, online, heads, restarts>>
    /\ \E w \in Consumed(Delivered(r, c)) :
          /\ subs' = w.subs /\ db' = w.db
          /\ dropping' = dropping \cup (w.drop \cap online)
          /\ pc' = IF w.linked \/ w.merged THEN "end" ELSE "run"
          /\ cyc' \in IF w.linked \/ w.merged THEN {w.cyc} ELSE Assigned(w.cyc)

\* A peer on the chain being synced answers; one on another chain delivers
\* headers that are recognised as junk when their turn comes.
HonestReply(r) == Reply(r, subs[1].next[2]) /\ UNCHANGED faults
OtherReply(r) == \E c \in Chains : Batch(c, r.head) /= Batch(subs[1].next[2], r.head) /\ Reply(r, c) /\ Fault

----
(***************************************************************************)
(* The end of a cycle: the backfiller is suspended, and the headers it has *)
(* filled are deleted from the skeleton.                                   *)
(***************************************************************************)
Terminate ==
    /\ pc = "run" /\ restarts < MaxRestarts
    /\ pc' = "end" /\ next' = Quit
    /\ UNCHANGED <<subs, db, local, current, cyc, fill, online, dropping, heads, faults, restarts>>

\* Mutant: the download goes on while the next cycle starts.
Suspend_Running ==
    /\ pc = "end" /\ pc' = "clean"
    /\ cyc' = [NoCycle EXCEPT !.filled = IF fill.filling THEN current ELSE fill.filled]
    /\ UNCHANGED <<subs, db, local, current, next, fill, online, dropping, heads, faults, restarts>>
\* suspend waits until the download has its cancel channel, cancels it and waits
\* for its fetchers; a download that still looks for the ancestor has none yet.
\* filling is reset later, by the goroutine resume started (FillExits).
Suspend ==
    /\ pc = "end"
    /\ fill' = IF ~fill.filling THEN fill
               ELSE [fill EXCEPT !.cancelled = TRUE, !.queue = <<>>,
                                 !.state = IF @ \in {"starting", "search"} THEN @ ELSE "exit"]
    /\ pc' = "clean"
    /\ cyc' = [NoCycle EXCEPT !.filled = IF fill.filling THEN current ELSE fill.filled]
    /\ UNCHANGED <<subs, db, local, current, next, online, dropping, heads, faults, restarts>>

\* cleanStales: whether the filled header is one of the skeleton, what becomes
\* of the first subchain, and the headers to delete.
Stale(h) ==
    /\ h /= None /\ Number(h) >= subs[1].tail /\ db[Number(h)] = h
    /\ Number(h) < subs[1].head => Parent(db[Number(h) + 1]) = h
CleanSub(h) ==
    LET child == db[Number(h) + 1]
    IN  IF Number(h) < subs[1].head THEN [subs[1] EXCEPT !.tail = Number(child), !.next = Parent(child)]
        ELSE Subchain(h)
StaleEnd(h) == IF Number(h) = subs[1].head THEN Number(h) - 1 ELSE Min({subs[1].head, Number(h)})

Deleted(from, to) == [n \in DOMAIN db |-> IF n \in from .. to THEN None ELSE db[n]]

NextCycle == pc' = (IF next = Quit THEN "dead" ELSE "begin") /\ next' = (IF next = Quit THEN None ELSE next)

cleanStales ==
    /\ pc = "clean"
    /\ IF Stale(cyc.filled)
       THEN subs' = [subs EXCEPT ![1] = CleanSub(cyc.filled)] /\ db' = Deleted(subs[1].tail, StaleEnd(cyc.filled))
       ELSE UNCHANGED <<subs, db>>
    /\ NextCycle /\ cyc' = NoCycle
    /\ UNCHANGED <<local, current, fill, online, dropping, heads, faults, restarts>>

----
(***************************************************************************)
(* The process stops: memory is lost, the database and the chain are kept. *)
(***************************************************************************)
Lost == /\ pc' = "wait" /\ next' = None /\ cyc' = NoCycle /\ fill' = NoFill
        /\ restarts' = restarts + 1
        /\ UNCHANGED <<local, current, online, dropping, heads, faults>>

Restart == /\ pc = "dead" \/ (pc \in {"begin", "run", "end", "clean"} /\ restarts < MaxRestarts)
           /\ Lost /\ UNCHANGED <<subs, db>>

\* It stops while cleanStales has flushed the deletions below n and not the
\* rest: the progress flushed with them has the tail at n.  (Not modelled: the
\* same crash when the filled header is above the head, where the progress
\* flushed has the new head already and its headers are not contiguous.)
CrashCleaning ==
    /\ pc = "clean" /\ restarts < MaxRestarts /\ Stale(cyc.filled) /\ Number(cyc.filled) <= subs[1].head
    /\ \E n \in subs[1].tail + 1 .. StaleEnd(cyc.filled) :
          /\ (n - subs[1].tail) % BatchLimit = 0
          /\ subs' = [subs EXCEPT ![1] = [head |-> CleanSub(cyc.filled).head, tail |-> n, next |-> Parent(db[n])]]
          /\ db' = Deleted(subs[1].tail, n - 1)
    /\ Lost

----
(***************************************************************************)
(* The backfiller: synchronise, with the reads of findBeaconAncestor and   *)
(* fetchHeaders from the skeleton, and the import of the blocks.           *)
(***************************************************************************)
FillUnchanged == UNCHANGED <<subs, db, pc, next, cyc, online, dropping, heads, faults, restarts>>

\* Bounds, and the interval of the binary search.  A tail that is not linked to
\* the local chain fails the download.
FillBegins ==
    /\ fill.state = "starting"
    /\ fill' = IF db[subs[1].tail] /= None /\ Parent(db[subs[1].tail]) \in local
               THEN [fill EXCEPT !.state = "search", !.lo = subs[1].tail - 1, !.hi = Min({Number(current), subs[1].head})]
               ELSE [fill EXCEPT !.state = "exit"]
    /\ FillUnchanged /\ UNCHANGED <<local, current>>

FillSearches ==
    /\ fill.state = "search" /\ fill.lo + 1 < fill.hi
    /\ LET check == (fill.lo + fill.hi) \div 2
       IN  /\ db[check] /= None
           /\ fill' = IF db[check] \in local THEN [fill EXCEPT !.lo = check] ELSE [fill EXCEPT !.hi = check]
    /\ FillUnchanged /\ UNCHANGED <<local, current>>

\* The search dereferences a header that is gone: the process dies.
FillPanics ==
    /\ fill.state = "search" /\ fill.lo + 1 < fill.hi
    /\ db[(fill.lo + fill.hi) \div 2] = None
    /\ Lost /\ UNCHANGED <<subs, db>>

\* The fetchers start after lo; a cancelled download stops here.
FillFetching ==
    /\ fill.state = "search" /\ fill.lo + 1 >= fill.hi
    /\ fill' = [fill EXCEPT !.state = IF fill.cancelled THEN "exit" ELSE "fetch"]
    /\ FillUnchanged /\ UNCHANGED <<local, current>>

\* fetchHeaders schedules the header after lo, up to the head of the skeleton;
\* one that is missing or does not continue the last one fails the download.
FillFetches ==
    /\ fill.state = "fetch" /\ fill.lo < subs[1].head
    /\ LET h == db[fill.lo + 1]
       IN  fill' = IF h /= None /\ fill.tip \in {None, Parent(h)}
                   THEN [fill EXCEPT !.lo = @ + 1, !.tip = h, !.queue = Append(@, h)]
                   ELSE [fill EXCEPT !.state = "exit", !.queue = <<>>]
    /\ FillUnchanged /\ UNCHANGED <<local, current>>

\* No header is left: fetchHeaders terminates, and the rest is imported.
FillFetched ==
    /\ fill.state = "fetch" /\ fill.lo >= subs[1].head
    /\ fill' = [fill EXCEPT !.state = "drain"]
    /\ FillUnchanged /\ UNCHANGED <<local, current>>

FillImports ==
    /\ fill.state \in {"fetch", "drain"} /\ fill.queue /= <<>>
    /\ LET h == fill.queue[1]
       IN  IF Parent(h) \in local
           THEN local' = local \cup {h} /\ current' = h /\ fill' = [fill EXCEPT !.queue = Tail(@)]
           ELSE fill' = [fill EXCEPT !.state = "exit", !.queue = <<>>] /\ UNCHANGED <<local, current>>
    /\ FillUnchanged

\* Mutant: the target is taken for filled even if the download failed.
FillExits_Target ==
    /\ fill.state = "exit" \/ (fill.state = "drain" /\ fill.queue = <<>>)
    /\ fill' = [NoFill EXCEPT !.filled = db[subs[1].head]]
    /\ FillUnchanged /\ UNCHANGED <<local, current>>
\* The goroutine resume started ends.
FillExits ==
    /\ fill.state = "exit" \/ (fill.state = "drain" /\ fill.queue = <<>>)
    /\ fill' = [NoFill EXCEPT !.filled = current]
    /\ FillUnchanged /\ UNCHANGED <<local, current>>

\* The engine API imports a block whose parent is local; the skeleton is not told.
EngineImports(h) ==
    /\ Announced(h) /\ Parent(h) \in local
    /\ local' = local \cup {h} /\ current' = h
    /\ UNCHANGED <<subs, db, pc, next, cyc, fill, online, dropping, faults, restarts>>

----
Next ==
    \/ BeginCycle \/ Suspend \/ cleanStales \/ Terminate \/ Restart \/ CrashCleaning
    \/ \E h \in Headers : StartHead(h) \/ ExtendHead(h) \/ ForceHead(h) \/ EngineImports(h)
    \/ \E p \in Peers : PeerLeaves(p) \/ PeerJoins(p) \/ LateReply(p)
    \/ \E r \in cyc.reqs : RequestFails(r) \/ HonestReply(r) \/ OtherReply(r)
    \/ FillBegins \/ FillSearches \/ FillPanics \/ FillFetching
    \/ FillFetches \/ FillFetched \/ FillImports \/ FillExits

Spec == Init /\ [][Next]_vars

\* What goroutines do on their own, what requests come to (a reply or a timeout)
\* and the disconnection and replacement of dropped peers go on as long as there
\* is any of it to do; heads, imports, restarts and other departures need not.
Progress ==
    \/ FillBegins \/ FillSearches \/ FillPanics \/ FillFetching
    \/ FillFetches \/ FillFetched \/ FillImports \/ FillExits
    \/ BeginCycle \/ Suspend \/ cleanStales
    \/ \E p \in dropping : PeerLeaves(p)
    \/ \E p \in Peers : PeerJoins(p)
    \/ \E r \in cyc.reqs : RequestFails(r) \/ HonestReply(r) \/ OtherReply(r)

FairSpec == Spec /\ WF_vars(Progress)

----
\* The types of the stored progress, the stored headers and the sync cycle.
TypeOK ==
    /\ subs \in Seq([head : 1 .. MaxNumber, tail : 1 .. MaxNumber, next : Headers \cup {Genesis}])
    /\ \A n \in 1 .. MaxNumber : db[n] \in {None} \cup {HeaderAt(n, c) : c \in Chains}
    /\ local \subseteq Headers \cup {Genesis} /\ current \in local
    /\ pc \in {"wait", "begin", "run", "end", "clean", "dead"}
    /\ cyc.idles \subseteq Peers /\ cyc.late \subseteq Peers
    /\ fill.filled \in local \cup {None}

\* The persisted progress is what the skeleton's description promises: the
\* subchains are disjoint and in descending order, and each is a contiguous
\* segment of stored, hash-linked headers whose next is the parent of its tail,
\* whatever was trimmed, merged, overwritten or interrupted (initSync,
\* processResponse, processNewHead, cleanStales).
SubchainsSound ==
    \A i \in DOMAIN subs :
        LET s == subs[i] IN
        /\ s.tail <= s.head
        /\ i > 1 => s.head < subs[i - 1].tail
        /\ \A n \in s.tail .. s.head : db[n] /= None
        /\ \A n \in s.tail .. s.head : Parent(db[n]) = IF n = s.tail THEN s.next ELSE db[n - 1]

\* The sync's progress is well formed and every subchain it records is a linked
\* chain of stored headers.
ProgressSound == TypeOK /\ SubchainsSound

\* No download task is lost or given out twice while peers join, leave, time
\* out and deliver junk: a task has an owner exactly if one request for it is in
\* flight or its headers wait in the scratch space, and the requests always lie
\* in the window below the tail of the first subchain (assignTasks,
\* revertRequest, revertRequests, processResponse).
TasksTracked ==
    LET of(k) == {r \in cyc.reqs : r.head = cyc.scratchHead - k * requestHeaders} IN
    pc = "run" /\ ~cyc.linked =>
        /\ cyc.scratchHead = subs[1].tail - 1
        /\ cyc.reqs = UNION {of(k) : k \in TaskIds}
        /\ \A k \in TaskIds :
              IF cyc.owners[k] = None THEN of(k) = {} /\ cyc.space[k] = <<>>
              ELSE \/ of(k) = {} /\ cyc.space[k] /= <<>>
                   \/ of(k) = {[peer |-> cyc.owners[k], head |-> cyc.scratchHead - k * requestHeaders]} /\ cyc.space[k] = <<>>

\* A backfiller that has not been cancelled works on a skeleton that is one
\* subchain linked to the local chain (sync, resume, suspend).
FillsLinked == fill.filling /\ ~fill.cancelled => Linked(subs)

\* As long as the process lives, a started skeleton sync ends up linked to the
\* local chain, through junk, timeouts, departures, merges and reorganisations.
EventuallyLinked == pc = "begin" ~> (cyc.linked \/ pc \in {"wait", "dead"})

\* The backfiller never dereferences a skeleton header that is gone ("Any head
\* reorg will first tear down the backfiller and only then make the
\* modification", Bounds).
AncestorReads == fill.state = "search" /\ fill.lo + 1 < fill.hi => db[(fill.lo + fill.hi) \div 2] /= None

\* Once the skeleton is linked, the head it tracks is imported unless another
\* one is forced ("If the backfiller is still running, it will pick it up").
EventuallyFilled == (pc = "run" /\ cyc.linked) ~> (pc # "run" \/ db[subs[1].head] \in local)
====
