----------------------------- MODULE BlockChain -----------------------------
(***************************************************************************)
(* The block chain of a full node that follows a beacon client: the block  *)
(* database with its head markers (core/blockchain.go, core/headerchain.go) *)
(* and the background freezer that moves old blocks out of the key-value   *)
(* store (core/rawdb/chain_freezer.go), driven by the engine API           *)
(* (eth/catalyst/api.go) and by the downloader, across crashes, restarts   *)
(* and SetHead.                                                            *)
(*                                                                         *)
(* The state database is the hash scheme one, without snapshots; a full    *)
(* sync, so there is no pivot.  Each write batch is one atomic step, and   *)
(* the threads interleave between batches.  The block caches are left out. *)
(***************************************************************************)
EXTENDS Integers, Sequences, FiniteSets, FiniteSetsExt

CONSTANTS
    Blocks,         \* every block that is ever offered to the node
    Genesis,        \* the genesis block
    Parent,         \* the parent of every other block
    NoBlock,        \* the zero hash, or a nil block
    TriesInMemory,  \* state: number of recent states kept in memory
    FreezerBatchLimit,          \* blocks frozen in one batch
    Setups          \* the nodes that are considered, one of which is run

(* The blocks form a tree rooted in the genesis block: Chain[b] lists the  *)
(* ancestors of b, from the genesis block to b itself.                     *)
Chain[b \in Blocks] ==
    IF b = Genesis THEN <<b>> ELSE Append(Chain[Parent[b]], b)

Number(b) == Len(Chain[b]) - 1

At(b, n) == Chain[b][n + 1]

Numbers == 0 .. Max({Number(b) : b \in Blocks}) + 1

Extends(b, a) == Number(a) <= Number(b) /\ At(b, Number(a)) = a

ASSUME ChainAssumption ==
    /\ Genesis \in Blocks /\ NoBlock \notin Blocks
    /\ Parent \in [Blocks \ {Genesis} -> Blocks]
    /\ FreezerBatchLimit \in Nat \ {0}
    /\ \A s \in Setups :
         /\ s.clients \subseteq {"sync", "payload", "choice"}
         /\ s.archive \in BOOLEAN
         /\ s.immutable \in Nat \ {0} /\ TriesInMemory \in 1 .. s.immutable
         /\ s.downs \in Nat /\ s.rewinds \in Nat

VARIABLES
    \* the key-value store
    kv,         \* blocks stored with header, difficulty, body and receipts
    nums,       \* blocks with a hash -> number entry
    canon,      \* the number -> canonical hash entries
    mark,       \* the persisted markers: head block, header, snap, finalized
    roots,      \* blocks whose state is on disk
    \* the freezer
    ancients,   \* the frozen blocks, from the genesis block up
    synced,     \* how many of them are known to be flushed
    fz,         \* the freezer goroutine
    \* the process
    cur,        \* the in-memory markers
    dirty,      \* blocks whose state is in memory only
    pc,         \* where the holder of chainmu is, or "idle", "down", ...
    job,        \* the import being run under chainmu
    rw,         \* the rewind (setHeadBeyondRoot) being run under chainmu
    locked,     \* txLookupLock is held
    payload,    \* newPayload: a block that passed the checks, not inserted yet
    choice,     \* forkchoiceUpdated: the head asked for, and how far it got
    \* the node that is run, bounds and history
    setup, crashes, stops, rewinds,
    settled     \* the highest block the network considers immutable

disk  == <<kv, nums, canon, mark, roots>>
frz   == <<ancients, synced, fz>>
api   == <<payload, choice>>
count == <<setup, crashes, stops, rewinds>>
vars  == <<disk, frz, cur, dirty, pc, job, rw, locked, api, count, settled>>

(* The node: who uses its chain (a subset of "sync", "payload", "choice"), *)
(* whether every state is written to disk (TrieDirtyDisabled), the depth   *)
(* at which a block is immutable (a constant of package params), and the   *)
(* bounds on the crashes and shutdowns and on the SetHead calls.           *)
Clients    == setup.clients
Archive    == setup.archive
MaxDowns   == setup.downs
MaxRewinds == setup.rewinds
FullImmutabilityThreshold == setup.immutable

-----------------------------------------------------------------------------
(* Reading the database.                                                   *)

Frozen == Len(ancients)

ReadCanonicalHash(n) == IF n < Frozen THEN ancients[n + 1] ELSE canon[n]

(* GetHeader and GetBlock, which are given the number. *)
Has(b) == b \in kv \/ (Number(b) < Frozen /\ ancients[Number(b) + 1] = b)

(* GetBlockByHash, which looks the number up. *)
Known(b) == b \in nums /\ Has(b)

HasState(b) == b \in roots \union dirty

ReadAllHashes(n) == {b \in kv : Number(b) = n}

-----------------------------------------------------------------------------
(* Writing the chain.                                                      *)

(* Blocks at this depth, and finalized ones, are never reorganised away by *)
(* the network.                                                            *)
Settle(b) ==
    LET n == Max({0, Number(b) - FullImmutabilityThreshold})
    IN  IF n > Number(settled) THEN At(b, n) ELSE settled

WriteHeadBlock(b) ==
    /\ canon' = [canon EXCEPT ![Number(b)] = b]
    /\ mark' = [mark EXCEPT !.block = b, !.header = b, !.snap = b]
    /\ cur' = [cur EXCEPT !.block = b, !.header = b, !.snap = b]
    /\ settled' = Settle(b)

(* Mutant: a state that was written is kept in memory too. *)
WriteBlockWithStateTwice(b) ==
    /\ kv' = kv \union {b}
    /\ nums' = nums \union {b}
    /\ roots' = roots \union {b}
    /\ dirty' = dirty \union {b}

(* The block, then its state: in memory, older states dropped from it, and *)
(* some of them possibly flushed (by Cap or by the periodic Commit).       *)
WriteBlockWithState(b) ==
    /\ kv' = kv \union {b}
    /\ nums' = nums \union {b}
    /\ IF Archive THEN roots' = roots \union {b} /\ UNCHANGED dirty
       ELSE IF Number(b) <= TriesInMemory
       THEN dirty' = dirty \union ({b} \ roots) /\ UNCHANGED roots
       ELSE \E flushed \in {{}} \union {{x} : x \in dirty \union {b}} :
              /\ roots' = roots \union flushed
              /\ dirty' = {x \in dirty \union {b} :
                             Number(x) > Number(b) - TriesInMemory} \ roots'

(* The ancestors of b, b included, that have no state, back to the first   *)
(* one that has; empty if a block is missing on the way.                   *)
Stateless(b) ==
    LET have == {n \in 0 .. Number(b) : HasState(At(b, n))}
        from == Max(have)
    IN  IF \A n \in from .. Number(b) - 1 : Has(At(b, n))
        THEN SubSeq(Chain[b], from + 2, Number(b) + 1)
        ELSE <<>>

Idle == [by |-> "none", todo |-> <<>>, target |-> NoBlock, adopt |-> "none",
         chain |-> <<>>]

(* An import of todo: "each" block becomes the head, the "last" one does,  *)
(* or "none" does.                                                         *)
Job(by, todo, adopt) ==
    [Idle EXCEPT !.by = by, !.todo = todo, !.adopt = adopt]

(* chainmu is released: a forkchoice update goes on once it was applied.   *)
Done(ok) ==
    /\ pc' = "idle"
    /\ job' = Idle
    /\ choice' = IF job.by # "choice" THEN choice
                 ELSE [choice EXCEPT !.at = IF ok THEN "final" ELSE "none"]

-----------------------------------------------------------------------------
(* Imports.  The network (the beacon client and the peers the downloader   *)
(* follows) only offers blocks of chains that agree with what is settled.  *)

Agree(a, b) == Extends(a, b) \/ Extends(b, a)

Offered(b) == b # Genesis /\ Agree(b, settled)

(* insertChain on a single block, with chainmu held: a known block that is *)
(* canonical is skipped and another known one is written as the head, a    *)
(* block whose parent's state is pruned is imported with its ancestors.    *)
Import(by, b, adopt) ==
    IF Has(b) /\ HasState(b)
    THEN /\ IF Number(b) <= Number(cur.block) /\ ReadCanonicalHash(Number(b)) = b
            THEN UNCHANGED <<pc, job>>
            ELSE pc' = "adopt" /\ job' = [Job(by, <<>>, adopt) EXCEPT !.target = b]
         /\ UNCHANGED <<kv, nums>>
    ELSE IF HasState(Parent[b])
    THEN /\ pc' = "exec" /\ job' = Job(by, <<b>>, adopt)
         /\ UNCHANGED <<kv, nums>>
    ELSE /\ IF Stateless(b) = <<>>
            THEN UNCHANGED <<pc, job>>
            ELSE pc' = "exec" /\ job' = Job(by, Stateless(b), adopt)
         \* insertSideChain stores the block before it looks for a state
         /\ IF adopt = "each"
            THEN kv' = (IF Has(b) THEN kv ELSE kv \union {b})
                 /\ nums' = (IF Has(b) THEN nums ELSE nums \union {b})
            ELSE UNCHANGED <<kv, nums>>

(* The downloader imports a block after those of its chain that are here. *)
InsertChain(b) ==
    /\ pc = "idle" /\ "sync" \in Clients
    /\ Offered(b) /\ Has(Parent[b]) /\ ReadCanonicalHash(Number(b)) # b
    /\ Import("sync", b, "each")
    /\ UNCHANGED <<canon, mark, roots, frz, cur, dirty, rw, locked, api, count,
                   settled>>

(* newPayload, under newPayloadLock: the checks made before chainmu is     *)
(* taken.                                                                  *)
NewPayload(b) ==
    /\ ~rw.boot /\ "payload" \in Clients
    /\ payload = NoBlock /\ job.by # "payload"
    /\ Offered(b) /\ ~Known(b) /\ Has(Parent[b]) /\ HasState(Parent[b])
    /\ payload' = b
    /\ UNCHANGED <<disk, frz, cur, dirty, pc, job, rw, locked, choice, count,
                   settled>>

(* InsertBlockWithoutSetHead on the block that was checked. *)
InsertBlockWithoutSetHead ==
    /\ pc = "idle"
    /\ payload # NoBlock /\ Offered(payload)
    /\ payload' = NoBlock
    /\ IF Has(Parent[payload]) THEN Import("payload", payload, "none")
       ELSE UNCHANGED <<pc, job, kv, nums>>
    /\ UNCHANGED <<canon, mark, roots, frz, cur, dirty, rw, locked, choice,
                   count, settled>>

(* forkchoiceUpdated: the block is known, and it is not an old canonical   *)
(* one, for which the update is ignored.                                   *)
ForkchoiceUpdated(b) ==
    /\ ~rw.boot /\ "choice" \in Clients
    /\ choice.at = "none"
    /\ b # Genesis /\ Extends(b, settled) /\ Known(b)
    /\ \/ ReadCanonicalHash(Number(b)) # b /\ choice' = [at |-> "set", head |-> b]
       \/ /\ ReadCanonicalHash(Number(b)) = b /\ cur.block = b
          /\ choice' = [at |-> "final", head |-> b]
    /\ UNCHANGED <<disk, frz, cur, dirty, pc, job, rw, locked, payload, count,
                   settled>>

(* SetCanonical: the missing states are recomputed first. *)
SetCanonical ==
    /\ pc = "idle"
    /\ choice.at = "set" /\ Extends(choice.head, settled)
    /\ IF HasState(choice.head)
       THEN /\ pc' = "adopt"
            /\ job' = [Job("choice", <<>>, "last") EXCEPT !.target = choice.head]
            /\ UNCHANGED choice
       ELSE IF Stateless(choice.head) # <<>>
       THEN /\ pc' = "exec"
            /\ job' = Job("choice", Stateless(choice.head), "last")
            /\ UNCHANGED choice
       ELSE choice' = [choice EXCEPT !.at = "none"] /\ UNCHANGED <<pc, job>>
    /\ UNCHANGED <<disk, frz, cur, dirty, rw, locked, payload, count, settled>>

InFlight ==
    ({job.target} \union {job.todo[i] : i \in DOMAIN job.todo}) \ {NoBlock}

(* Mutant: the finalized block is not checked to be canonical. *)
SetFinalizedUnchecked(f) ==
    /\ choice.at = "final"
    /\ choice' = [choice EXCEPT !.at = "none"]
    /\ f # NoBlock /\ Known(f) /\ Extends(choice.head, f)
    /\ cur' = [cur EXCEPT !.final = f]
    /\ mark' = [mark EXCEPT !.final = f]
    /\ UNCHANGED <<kv, nums, canon, roots, frz, dirty, pc, job, rw, locked,
                   payload, count, settled>>

(* forkchoiceUpdated goes on with the finalized block, an ancestor of the  *)
(* head asked for, which has to be canonical; it does not hold chainmu.    *)
SetFinalized(f) ==
    /\ choice.at = "final"
    /\ choice' = [choice EXCEPT !.at = "none"]
    /\ f # NoBlock => /\ Extends(choice.head, f) /\ Offered(f)
                      /\ \A b \in InFlight : Agree(b, f)
    /\ IF f # NoBlock /\ Known(f) /\ ReadCanonicalHash(Number(f)) = f
       THEN /\ cur' = [cur EXCEPT !.final = f]
            /\ mark' = [mark EXCEPT !.final = f]
            /\ settled' = IF Number(f) > Number(settled) THEN f ELSE settled
       ELSE UNCHANGED <<cur, mark, settled>>
    /\ UNCHANGED <<kv, nums, canon, roots, frz, dirty, pc, job, rw, locked,
                   payload, count>>

(* processBlock and writeBlockWithState on the next block of the job. *)
Exec ==
    /\ pc = "exec"
    /\ LET b == Head(job.todo)
           last == Len(job.todo) = 1
           adopt == job.adopt = "each" \/ (job.adopt = "last" /\ last)
       IN IF HasState(Parent[b])
          THEN /\ WriteBlockWithState(b)
               /\ IF adopt \/ ~last
                  THEN /\ job' = [job EXCEPT !.todo = Tail(@), !.target = b]
                       /\ pc' = IF adopt THEN "adopt" ELSE "exec"
                       /\ UNCHANGED choice
                  ELSE Done(TRUE)
          ELSE Done(FALSE) /\ UNCHANGED <<kv, nums, roots, dirty>>
    /\ UNCHANGED <<canon, mark, frz, cur, rw, locked, payload, count, settled>>

-----------------------------------------------------------------------------
(* reorg(old, new), then writeHeadBlock(new).                              *)

Fork(a, b) ==
    Max({n \in 0 .. Min({Number(a), Number(b)}) : At(a, n) = At(b, n)})

(* The headers of both chains can be read back to the common ancestor. *)
Connected(old, new) ==
    LET fork == Fork(old, new)
    IN  /\ \A n \in fork .. Number(old) - 1 : Has(At(old, n))
        /\ \A n \in fork .. Number(new) - 1 : Has(At(new, n))

(* Mutant: the oldest block of the new chain is missed. *)
NewChainShort(old, new) == SubSeq(Chain[new], Fork(old, new) + 3, Number(new))

(* Mutant: the new blocks are applied from the newest to the oldest. *)
NewChainBackwards(old, new) ==
    LET new_ == SubSeq(Chain[new], Fork(old, new) + 2, Number(new))
    IN  [i \in DOMAIN new_ |-> new_[Len(new_) + 1 - i]]

(* The blocks reorg writes: those between the common ancestor and new. *)
NewChain(old, new) == SubSeq(Chain[new], Fork(old, new) + 2, Number(new))

Reorg ==
    /\ pc = "adopt"
    /\ LET old == cur.block
           new == job.target
       IN \/ /\ Parent[new] = old
             /\ pc' = "head"
             /\ UNCHANGED <<job, choice, locked>>
          \/ /\ Parent[new] # old /\ Connected(old, new) /\ ~locked
             /\ pc' = "undo"
             /\ locked' = TRUE
             /\ job' = [job EXCEPT !.chain = NewChain(old, new)]
             /\ UNCHANGED choice
          \/ /\ Parent[new] # old /\ ~Connected(old, new)
             /\ Done(FALSE)
             /\ UNCHANGED locked
    /\ UNCHANGED <<disk, frz, cur, dirty, rw, payload, count, settled>>

(* The old blocks are read again for their transactions and logs: if one   *)
(* is gone reorg returns, without releasing txLookupLock.                  *)
Undo ==
    /\ pc = "undo"
    /\ LET old == cur.block
       IN IF \A n \in Fork(old, job.target) + 1 .. Number(old) : Has(At(old, n))
          THEN pc' = "apply" /\ UNCHANGED <<job, choice>>
          ELSE Done(FALSE)
    /\ UNCHANGED <<disk, frz, cur, dirty, rw, locked, payload, count, settled>>

(* One new block becomes the head, in a batch of its own. *)
Apply ==
    /\ pc = "apply" /\ job.chain # <<>>
    /\ IF Has(Head(job.chain))
       THEN /\ WriteHeadBlock(Head(job.chain))
            /\ job' = [job EXCEPT !.chain = Tail(@)]
            /\ UNCHANGED <<pc, choice>>
       ELSE Done(FALSE) /\ UNCHANGED <<canon, mark, cur, settled>>
    /\ UNCHANGED <<kv, nums, roots, frz, dirty, rw, locked, payload, count>>

(* Mutant: deletion starts one entry too high. *)
StaleAbove(new) ==
    LET top == IF Extends(cur.block, new) THEN Number(new) + 1 ELSE Number(new)
        gap == {n \in Numbers : n > top /\ ReadCanonicalHash(n) = NoBlock}
    IN  {n \in Numbers : n > top + 1 /\ \A m \in gap : n < m}

(* The canonical entries above the last new block are deleted. *)
Stale(new) ==
    LET top == IF Extends(cur.block, new) THEN Number(new) ELSE Number(new) - 1
        gap == {n \in Numbers : n > top /\ ReadCanonicalHash(n) = NoBlock}
    IN  {n \in Numbers : n > top /\ \A m \in gap : n < m}

(* Mutant: the lock is kept. *)
DeleteStaleLocked ==
    /\ pc = "apply" /\ job.chain = <<>>
    /\ canon' = [n \in Numbers |-> IF n \in Stale(job.target) THEN NoBlock
                                   ELSE canon[n]]
    /\ pc' = "head"
    /\ UNCHANGED <<kv, nums, mark, roots, frz, cur, dirty, job, rw, locked, api,
                   count, settled>>

DeleteStale ==
    /\ pc = "apply" /\ job.chain = <<>>
    /\ canon' = [n \in Numbers |-> IF n \in Stale(job.target) THEN NoBlock
                                   ELSE canon[n]]
    /\ locked' = FALSE
    /\ pc' = "head"
    /\ UNCHANGED <<kv, nums, mark, roots, frz, cur, dirty, job, rw, api, count,
                   settled>>

(* writeHeadBlock on the new head; the job goes on or is done. *)
SetHeadBlock ==
    /\ pc = "head"
    /\ WriteHeadBlock(job.target)
    /\ IF job.todo = <<>> THEN Done(TRUE)
       ELSE pc' = "exec" /\ UNCHANGED <<job, choice>>
    /\ UNCHANGED <<kv, nums, roots, frz, dirty, rw, locked, payload, count>>

-----------------------------------------------------------------------------
(* setHeadBeyondRoot: rewinding the chain.                                 *)

Rest == [boot |-> FALSE, head |-> 0, target |-> 0, update |-> FALSE,
         origin |-> FALSE, hdr |-> NoBlock, del |-> {}, cut |-> {},
         next |-> "idle"]

(* Mutant: the head is only moved, its state is not looked for. *)
RewindHeadBlind(b) == b

(* rewindHashHead: the highest ancestor of b that has a state, if no block *)
(* is missing on the way and it is not too deep; else the genesis block.   *)
RewindHead(b) ==
    LET limit == Max({0, Number(b) - FullImmutabilityThreshold})
        found == {n \in limit .. Number(b) :
                    /\ HasState(At(b, n))
                    /\ \A m \in n .. Number(b) - 1 : Has(At(b, m))}
    IN  IF found = {} THEN Genesis ELSE At(b, Max(found))

Rewind(head, target, update, next) ==
    /\ pc' = "rewind"
    /\ rw' = [Rest EXCEPT !.boot = rw.boot, !.head = head, !.target = target,
                          !.update = update, !.origin = TRUE, !.next = next]

SetHead(n) ==
    /\ pc = "idle"
    /\ rewinds < MaxRewinds
    /\ rewinds' = rewinds + 1
    /\ n < Number(cur.header)
    /\ Rewind(n, n, TRUE, "idle")
    /\ UNCHANGED <<disk, frz, cur, dirty, job, locked, api, setup, crashes,
                   stops, settled>>

(* Mutant: the new head block is kept in memory and not persisted. *)
RewindMarkersUnsaved ==
    /\ pc = "rewind" /\ Number(cur.header) > rw.target
    /\ cur' = [cur EXCEPT !.header = Parent[@], !.block = RewindHead(Parent[cur.header])]
    /\ mark' = [mark EXCEPT !.header = Parent[@]]
    /\ rw' = [rw EXCEPT !.hdr = cur.header]
    /\ pc' = "drop"
    /\ UNCHANGED <<kv, nums, canon, roots, frz, dirty, job, locked, api, count,
                   settled>>

(* Mutant: the header chain is not stepped back. *)
RewindMarkersStuck ==
    /\ pc = "rewind" /\ Number(cur.header) > rw.target
    /\ rw' = [rw EXCEPT !.hdr = cur.header]
    /\ pc' = "drop"
    /\ UNCHANGED <<disk, frz, cur, dirty, job, locked, api, count, settled>>

(* hc.SetHead, one header: the markers are moved first, in one batch.      *)
RewindMarkers ==
    /\ pc = "rewind" /\ Number(cur.header) > rw.target
    /\ LET hdr == cur.header
           parent == IF Has(Parent[hdr]) THEN Parent[hdr] ELSE Genesis
           moveBlock == rw.update /\ Number(parent) <= Number(cur.block)
           moveSnap == rw.update /\ Number(parent) < Number(cur.snap)
           block == IF moveBlock THEN RewindHead(parent) ELSE cur.block
           wipe == rw.update /\ Number(block) + 1 < Frozen
       IN /\ cur' = [cur EXCEPT !.header = parent, !.block = block,
                                !.snap = IF moveSnap THEN parent ELSE @]
          /\ mark' = [mark EXCEPT !.header = parent,
                                  !.block = IF moveBlock THEN block ELSE @,
                                  !.snap = IF moveSnap THEN parent ELSE @]
          /\ rw' = [rw EXCEPT !.hdr = hdr,
                              !.target = IF wipe THEN Min({@, Number(block)}) ELSE @]
    /\ pc' = "drop"
    /\ UNCHANGED <<kv, nums, canon, roots, frz, dirty, job, locked, api, count,
                   settled>>

(* Then its data go: from the freezer at once, from the key-value store    *)
(* with the batch that is written at the end.  The first round takes the   *)
(* leftovers above the header too.                                         *)
RewindData ==
    /\ pc = "drop"
    /\ LET num == Number(rw.hdr)
           above == {n \in Numbers : n > num /\ \A m \in num + 1 .. n : ReadAllHashes(m) # {}}
           ns == {num} \union (IF rw.origin THEN above ELSE {})
           found == UNION {ReadAllHashes(n) : n \in ns}
           gone == IF ReadAllHashes(num) = {} THEN found \union {rw.hdr} ELSE found
       IN /\ ancients' = SubSeq(ancients, 1, Min({num, Frozen}))
          /\ synced' = Min({num, synced})
          /\ rw' = [rw EXCEPT !.origin = FALSE, !.del = @ \union gone,
                              !.cut = @ \union ns]
    /\ pc' = "rewind"
    /\ UNCHANGED <<disk, fz, cur, dirty, job, locked, api, count, settled>>

RewindFlush ==
    /\ pc = "rewind" /\ Number(cur.header) <= rw.target
    /\ kv' = kv \ rw.del
    /\ nums' = nums \ rw.del
    /\ canon' = [n \in Numbers |-> IF n \in rw.cut THEN NoBlock ELSE canon[n]]
    /\ pc' = "reload"
    /\ UNCHANGED <<mark, roots, frz, cur, dirty, job, rw, locked, api, count,
                   settled>>

(* loadLastState.  If the head block is missing it resets the chain: Reset  *)
(* calls SetHead, which takes chainmu, finds the header chain at the        *)
(* genesis block already and calls loadLastState again, which calls Reset   *)
(* again, which waits for chainmu forever: "stuck".                         *)
LoadLastState(final) ==
    cur' = IF ~Known(mark.block) THEN [cur EXCEPT !.final = final]
           ELSE [block  |-> mark.block,
                 header |-> IF Known(mark.header) THEN mark.header ELSE mark.block,
                 snap   |-> IF Known(mark.snap) THEN mark.snap ELSE mark.block,
                 final  |-> IF mark'.final # NoBlock /\ Known(mark'.final)
                            THEN mark'.final ELSE final]

(* The end of setHeadBeyondRoot: the finalized block is cleared if it is   *)
(* above the number asked for, and the markers are read back.              *)
Reload ==
    /\ pc = "reload"
    /\ LET clear == cur.final # NoBlock /\ rw.head < Number(cur.final)
       IN /\ mark' = IF clear THEN [mark EXCEPT !.final = NoBlock] ELSE mark
          /\ LoadLastState(IF clear THEN NoBlock ELSE cur.final)
    /\ pc' = IF Known(mark.block) THEN rw.next ELSE "stuck"
    /\ rw' = IF rw.next = "idle" THEN Rest ELSE rw
    /\ UNCHANGED <<kv, nums, canon, roots, frz, dirty, job, locked, api, count,
                   settled>>

-----------------------------------------------------------------------------
(* The freezer goroutine.                                                  *)

Parked == [at |-> "idle", first |-> 0, last |-> 0, hashes |-> <<>>, side |-> {}]

NumberOf(b) == IF b # NoBlock /\ b \in nums THEN Number(b) ELSE 0

(* Mutant: recent blocks are frozen too. *)
FreezeThresholdHead == NumberOf(mark.block)

FreezeThreshold ==
    Max({NumberOf(mark.final), NumberOf(mark.block) - FullImmutabilityThreshold})

(* Mutant: the freezer waits until a whole batch is ready. *)
ChooseFullRange ==
    /\ fz.at = "idle" /\ pc \notin {"down", "refused"}
    /\ FreezeThreshold > 0
    /\ Frozen + FreezerBatchLimit - 1 < FreezeThreshold
    /\ fz' = [Parked EXCEPT !.at = "freeze", !.first = Frozen,
                !.last = Frozen + FreezerBatchLimit - 1]
    /\ UNCHANGED <<disk, ancients, synced, cur, dirty, pc, job, rw, locked, api,
                   count, settled>>

(* The threshold is read, and a batch of blocks chosen. *)
ChooseRange ==
    /\ fz.at = "idle" /\ pc \notin {"down", "refused"}
    /\ FreezeThreshold > 0
    /\ Frozen <= FreezeThreshold
    /\ fz' = [Parked EXCEPT !.at = "freeze", !.first = Frozen,
                !.last = Min({FreezeThreshold, Frozen + FreezerBatchLimit - 1})]
    /\ UNCHANGED <<disk, ancients, synced, cur, dirty, pc, job, rw, locked, api,
                   count, settled>>

(* freezeRange: all the canonical blocks of the range are appended, or none *)
(* is, if one is missing or the freezer is not where the range starts.      *)
FreezeRange ==
    /\ fz.at = "freeze"
    /\ IF Frozen = fz.first /\ \A n \in fz.first .. fz.last : canon[n] \in kv
       THEN /\ ancients' = ancients \o SubSeq([n \in 1 .. fz.last + 1 |-> canon[n - 1]],
                                              fz.first + 1, fz.last + 1)
            /\ fz' = [fz EXCEPT !.at = "sync",
                        !.hashes = [n \in fz.first .. fz.last |-> canon[n]]]
       ELSE fz' = Parked /\ UNCHANGED ancients
    /\ UNCHANGED <<disk, synced, cur, dirty, pc, job, rw, locked, api, count,
                   settled>>

(* Mutant: the frozen tables are not flushed. *)
SyncAncientsSkipped ==
    /\ fz.at = "sync"
    /\ fz' = [fz EXCEPT !.at = "wipe"]
    /\ UNCHANGED <<disk, ancients, synced, cur, dirty, pc, job, rw, locked, api,
                   count, settled>>

SyncAncients ==
    /\ fz.at = "sync"
    /\ synced' = Frozen
    /\ fz' = [fz EXCEPT !.at = "wipe"]
    /\ UNCHANGED <<disk, ancients, cur, dirty, pc, job, rw, locked, api, count,
                   settled>>

(* Mutant: the canonical hash above the range goes too. *)
WipeFrozenBeyond ==
    /\ fz.at = "wipe"
    /\ kv' = kv \ {fz.hashes[n] : n \in (fz.first .. fz.last) \ {0}}
    /\ canon' = [n \in Numbers |-> IF n \in (fz.first .. fz.last + 1) \ {0}
                                   THEN NoBlock ELSE canon[n]]
    /\ fz' = [fz EXCEPT !.at = "side"]
    /\ UNCHANGED <<nums, mark, roots, ancients, synced, cur, dirty, pc, job, rw,
                   locked, api, count, settled>>

(* The frozen blocks leave the key-value store, all but the genesis block. *)
WipeFrozen ==
    /\ fz.at = "wipe"
    /\ LET range == (fz.first .. fz.last) \ {0}
       IN /\ kv' = kv \ {fz.hashes[n] : n \in range}
          /\ canon' = [n \in Numbers |-> IF n \in range THEN NoBlock ELSE canon[n]]
    /\ fz' = [fz EXCEPT !.at = "side"]
    /\ UNCHANGED <<nums, mark, roots, ancients, synced, cur, dirty, pc, job, rw,
                   locked, api, count, settled>>

(* Mutant: one number too many. *)
WipeSideBeyond ==
    /\ fz.at = "side"
    /\ LET side == {b \in kv \ {Genesis} : Number(b) \in fz.first .. Frozen}
       IN /\ kv' = kv \ side
          /\ nums' = nums \ side
          /\ fz' = [fz EXCEPT !.at = "dangling", !.last = Frozen,
                              !.side = {b \in side : Number(b) = Frozen - 1}]
    /\ UNCHANGED <<canon, mark, roots, ancients, synced, cur, dirty, pc, job, rw,
                   locked, api, count, settled>>

(* So do the side chain blocks of these numbers. *)
WipeSide ==
    /\ fz.at = "side"
    /\ LET side == {b \in kv \ {Genesis} : Number(b) \in fz.first .. Frozen - 1}
       IN /\ kv' = kv \ side
          /\ nums' = nums \ side
          /\ fz' = [fz EXCEPT !.at = "dangling", !.last = Frozen,
                              !.side = {b \in side : Number(b) = Frozen - 1}]
    /\ UNCHANGED <<canon, mark, roots, ancients, synced, cur, dirty, pc, job, rw,
                   locked, api, count, settled>>

(* And the blocks above that descend from the last of them. *)
WipeDangling ==
    /\ fz.at = "dangling"
    /\ LET dangling == {b \in kv : \E a \in fz.side :
                          /\ b # a /\ Extends(b, a)
                          /\ \A n \in fz.last .. Number(b) : At(b, n) \in kv}
       IN /\ kv' = kv \ dangling
          /\ nums' = nums \ dangling
    /\ fz' = Parked
    /\ UNCHANGED <<canon, mark, roots, ancients, synced, cur, dirty, pc, job, rw,
                   locked, api, count, settled>>

-----------------------------------------------------------------------------
(* Crashes, shutdown and startup.                                          *)

Down ==
    /\ pc' = "down"
    /\ fz' = Parked
    /\ job' = Idle
    /\ rw' = [Rest EXCEPT !.boot = TRUE]
    /\ locked' = FALSE
    /\ payload' = NoBlock
    /\ choice' = [at |-> "none", head |-> NoBlock]
    /\ dirty' = {}
    /\ cur' = [block |-> Genesis, header |-> Genesis, snap |-> Genesis, final |-> NoBlock]

(* A power failure: what was in memory is lost, and so may be the frozen   *)
(* blocks that were not flushed.  writeBlockWithState may be cut short     *)
(* between the block and its state.                                        *)
Crash ==
    /\ pc \notin {"down", "refused"}
    /\ crashes + stops < MaxDowns /\ crashes' = crashes + 1
    /\ Down
    /\ \E n \in synced .. Frozen : ancients' = SubSeq(ancients, 1, n)
    /\ LET b == Head(job.todo)
       IN \/ UNCHANGED <<kv, nums>>
          \/ /\ pc = "exec" /\ HasState(Parent[b])
             /\ kv' = kv \union {b} /\ nums' = nums \union {b}
    /\ UNCHANGED <<canon, mark, roots, synced, setup, stops, rewinds, settled>>

(* Mutant: no state is written. *)
StopUnsaved ==
    /\ pc = "idle" /\ fz.at = "idle"
    /\ crashes + stops < MaxDowns /\ stops' = stops + 1
    /\ Down
    /\ UNCHANGED <<disk, ancients, synced, setup, crashes, rewinds, settled>>

(* Stop, once the chain and the freezer are done: the states of the head,  *)
(* of its parent and of the oldest block in memory are written.            *)
Stop ==
    /\ pc = "idle" /\ fz.at = "idle"
    /\ crashes + stops < MaxDowns /\ stops' = stops + 1
    /\ Down
    /\ LET top == Number(cur.block)
           kept == {ReadCanonicalHash(top - n) :
                      n \in {m \in {0, 1, TriesInMemory - 1} : top > m}}
       IN roots' = roots \union (kept \intersect dirty)
    /\ UNCHANGED <<kv, nums, canon, mark, ancients, synced, setup, crashes,
                   rewinds, settled>>

(* NewDatabaseWithFreezer: a gap between the freezer and the key-value     *)
(* store is refused; so is, with a nil dereference, an unknown head header. *)
Gap ==
    IF Frozen > 0 THEN /\ canon[Frozen] = NoBlock
                       /\ mark.header \in nums => Number(mark.header) > Frozen - 1
    ELSE mark.header # Genesis /\ canon[1] = NoBlock

Open ==
    /\ pc = "down"
    /\ pc' = IF Gap THEN "refused" ELSE "load"
    /\ UNCHANGED <<disk, frz, cur, dirty, job, rw, locked, api, count, settled>>

(* NewBlockChain: an empty database is filled from the freezer, then the   *)
(* markers are loaded.                                                     *)
Load ==
    /\ pc = "load"
    /\ IF Frozen > 0 /\ {mark.block, mark.header, mark.snap} = {Genesis}
       THEN /\ nums' = nums \union {ancients[n] : n \in 1 .. Frozen}
            /\ mark' = [mark EXCEPT !.header = ancients[Frozen],
                                    !.snap = ancients[Frozen]]
            /\ cur' = [mark' EXCEPT !.final = IF @ # NoBlock /\ Known(@) THEN @ ELSE NoBlock]
       ELSE UNCHANGED <<nums, mark>> /\ LoadLastState(NoBlock)
    /\ pc' = IF Known(mark.block) THEN "repair" ELSE "stuck"
    /\ UNCHANGED <<kv, canon, roots, frz, dirty, job, rw, locked, api, count,
                   settled>>

(* A head without state is rewound, and the data above are only deleted if *)
(* the freezer holds some of them.                                         *)
Repair ==
    /\ pc = "repair"
    /\ IF HasState(cur.block)
       THEN pc' = "check" /\ UNCHANGED <<cur, mark, rw>>
       ELSE LET block == RewindHead(cur.block)
                snap == IF Number(cur.block) < Number(cur.snap) THEN cur.block ELSE cur.snap
            IN /\ cur' = [cur EXCEPT !.block = block, !.snap = snap]
               /\ mark' = [mark EXCEPT !.block = block,
                             !.snap = IF snap = cur.snap THEN @ ELSE snap]
               /\ IF Number(block) + 1 < Frozen
                  THEN Rewind(Number(cur.block), Number(block), FALSE, "check")
                  ELSE /\ pc' = "reload"
                       /\ rw' = [rw EXCEPT !.head = Number(cur.block), !.next = "check"]
    /\ UNCHANGED <<kv, nums, canon, roots, frz, dirty, job, locked, api, count,
                   settled>>

(* Frozen blocks above the head are cut off.                               *)
CheckAncients ==
    /\ pc = "check"
    /\ LET full == IF cur.block # Genesis /\ Number(cur.block) < Frozen - 1
                   THEN {Number(cur.block)} ELSE {}
           snap == IF Number(cur.snap) < Frozen - 1 THEN {Number(cur.snap)} ELSE {}
       IN IF full \union snap # {} THEN Rewind(Min(full \union snap), Min(full \union snap), TRUE, "idle")
          ELSE pc' = "idle" /\ rw' = Rest
    /\ UNCHANGED <<disk, frz, cur, dirty, job, locked, api, count, settled>>

-----------------------------------------------------------------------------
Init ==
    /\ kv = {Genesis} /\ nums = {Genesis}
    /\ canon = [n \in Numbers |-> IF n = 0 THEN Genesis ELSE NoBlock]
    /\ mark = [block |-> Genesis, header |-> Genesis, snap |-> Genesis, final |-> NoBlock]
    /\ roots = {Genesis}
    /\ ancients = <<>> /\ synced = 0 /\ fz = Parked
    /\ cur = mark /\ dirty = {}
    /\ pc = "idle" /\ job = Idle /\ rw = Rest /\ locked = FALSE
    /\ payload = NoBlock /\ choice = [at |-> "none", head |-> NoBlock]
    /\ setup \in Setups /\ crashes = 0 /\ stops = 0 /\ rewinds = 0
    /\ settled = Genesis

Process ==
    \/ Exec \/ Reorg \/ Undo \/ Apply \/ DeleteStale \/ SetHeadBlock
    \/ RewindMarkers \/ RewindData \/ RewindFlush \/ Reload
    \/ Open \/ Load \/ Repair \/ CheckAncients

Freezer ==
    \/ ChooseRange \/ FreezeRange \/ SyncAncients
    \/ WipeFrozen \/ WipeSide \/ WipeDangling

Next ==
    \/ \E b \in Blocks : InsertChain(b) \/ NewPayload(b) \/ ForkchoiceUpdated(b)
    \/ InsertBlockWithoutSetHead \/ SetCanonical
    \/ \E f \in Blocks \union {NoBlock} : SetFinalized(f)
    \/ \E n \in Numbers : SetHead(n)
    \/ Process \/ Freezer
    \/ Crash \/ Stop

Spec == Init /\ [][Next]_vars

-----------------------------------------------------------------------------
(* The goroutine that holds chainmu goes on, and so does the freezer, which *)
(* is woken up by a timer.                                                  *)
FairSpec == Spec /\ WF_vars(Process) /\ WF_vars(Freezer)

-----------------------------------------------------------------------------
(* Properties.                                                             *)

(* Types; also, no state is at once in memory only and on disk, and the    *)
(* freezer holds one block per number, in order.                           *)
TypeOK ==
    /\ kv \subseteq Blocks /\ nums \subseteq Blocks /\ roots \subseteq Blocks
    /\ dirty \subseteq Blocks \ roots
    /\ canon \in [Numbers -> Blocks \union {NoBlock}]
    /\ \A m \in {mark, cur} :
         /\ {m.block, m.header, m.snap} \subseteq Blocks
         /\ m.final \in Blocks \union {NoBlock}
    /\ \A n \in 1 .. Frozen : Number(ancients[n]) = n - 1
    /\ synced \in 0 .. Frozen
    /\ fz.at \in {"idle", "freeze", "sync", "wipe", "side", "dangling"}
    /\ pc \in {"idle", "exec", "adopt", "undo", "apply", "head", "rewind",
               "drop", "reload", "down", "load", "repair", "check", "stuck",
               "refused"}
    /\ InFlight \subseteq Blocks
    /\ rw.del \subseteq Blocks /\ rw.cut \subseteq Numbers
    /\ locked \in BOOLEAN
    /\ payload \in Blocks \union {NoBlock}
    /\ choice.at \in {"none", "set", "final"}
    /\ settled \in Blocks /\ setup \in Setups

(* The persisted head block can be found by its hash, and it and all its   *)
(* ancestors are in the key-value store or in the freezer, at every step   *)
(* of an import, a reorganisation, a rewind or a freeze: a restart at any  *)
(* moment finds a whole chain under the head (hc.SetHead: "the head is     *)
(* always no higher than the data in the database").                       *)
HeadData ==
    /\ mark.block \in nums
    /\ \A n \in 0 .. Number(mark.block) : Has(At(mark.block, n))

(* The canonical hash of every number up to the head is that of the head's *)
(* ancestor, whichever store answers, at a restart too ("the canonical     *)
(* chain" of the head that reorg and writeHeadBlock keep).                 *)
CanonWhole ==
    pc = "idle" => \A n \in 0 .. Number(cur.block) :
                     ReadCanonicalHash(n) = At(cur.block, n)

(* The same as long as no crash cut a reorganisation short.                *)
CanonOK == crashes = 0 => CanonWhole

(* Across crashes: such an entry may be missing, but it never names a      *)
(* block of another chain.                                                 *)
CanonAgrees ==
    pc = "idle" => \A n \in 0 .. Number(cur.block) :
                     ReadCanonicalHash(n) \in {NoBlock, At(cur.block, n)}

(* reorg leaves no canonical hash above the new head, as long as the head  *)
(* block was never rewound below the head header.                          *)
NoStale ==
    pc = "idle" /\ crashes = 0 /\ rewinds = 0 =>
      \A n \in Numbers : n > Number(cur.header) => ReadCanonicalHash(n) = NoBlock

(* The head has its state whenever no writer is at work: what garbage      *)
(* collection and a crash took away, startup rewinds past.                 *)
HeadState == pc = "idle" => HasState(cur.block)

(* The finalized block is an ancestor of the head.                         *)
FinalOK ==
    pc = "idle" /\ cur.final # NoBlock => Extends(cur.block, cur.final)

(* Whoever takes txLookupLock has given it back when chainmu is released.  *)
LockFree == pc = "idle" => ~locked

(* The freezer never runs ahead of the head block, although it reads the   *)
(* head without holding chainmu.                                           *)
AncientsBelow == pc = "idle" => Frozen <= Number(cur.block) + 1

(* Startup accepts the database that a clean shutdown left: it reports no  *)
(* gap between the freezer and the key-value store, misses no head block.  *)
StopAccepted == crashes = 0 => pc \notin {"refused", "stuck"}

(* What the three nodes of the safety run keep: the head has its data,  *)
(* and its state whenever no writer is at work.                         *)
HeadSound == TypeOK /\ HeadData /\ HeadState

(* The canonical index is exact, nothing above the head is frozen, and  *)
(* no reorganisation, failed or not, leaves the transaction lookup lock *)
(* held.                                                                *)
CanonSound == CanonOK /\ NoStale /\ AncientsBelow /\ LockFree

(* What a restart finds after a power failure or a clean shutdown: a    *)
(* head with its state and an index that names no other chain; a clean  *)
(* shutdown is never followed by a start that is refused.               *)
RestartSound == HeadState /\ CanonAgrees /\ StopAccepted

(* A clean shutdown loses no block: the next startup never has to rewind   *)
(* the head to find a state, for Stop has written those it needs.          *)
StopKeepsHead ==
    [][pc = "repair" /\ crashes' = 0 => cur'.block = cur.block]_vars

(* newPayload inserts a block "without setting the head": the head block   *)
(* is the same after it.                                                   *)
PayloadKeepsHead ==
    [][job.by = "payload" /\ pc' # "down" => cur'.block = cur.block]_vars

(* Every restart comes to an end, with the chain loaded or an error: the   *)
(* rewinds of NewBlockChain terminate and none of them blocks.             *)
Restarts == pc = "down" ~> pc \in {"idle", "refused"}

(* A block that is deep enough is frozen in the end, however the freezer's *)
(* batches interleave with imports and with clean restarts.                *)
EventuallyFrozen ==
    \A n \in Numbers :
      n > 0 /\ FreezeThreshold >= n ~> Frozen > n \/ crashes > 0
=============================================================================
