---- MODULE FreezerTable ----
(***************************************************************************)
(* One table of the ancient store (core/rawdb/freezer_table.go and         *)
(* freezer_batch.go): an index file, numbered data files and a metadata    *)
(* file, written by batches, truncated at both ends, and repaired when     *)
(* they are opened after a crash.                                          *)
(*                                                                         *)
(* Files.  idx is the index file.  Its first entry holds the number of the *)
(* earliest data file and the count of deleted items; entry i+1 gives the  *)
(* data file of the i-th remaining item and the offset at which the item   *)
(* ends.  dat maps the numbers of the data files on disk to their bytes.   *)
(* meta is the virtual tail.  What an fsync has covered is idxSync (index  *)
(* entries), datSync (bytes of the head file; older files are flushed when *)
(* they are left) and metaOld (the values the metadata file may still have *)
(* on disk).                                                               *)
(*                                                                         *)
(* Steps.  A truncation and the fsync that follows it are one step, and so *)
(* are the flush of the data file and the write of the index: a power      *)
(* failure before such a step may keep any part of the volatile contents,  *)
(* which includes every outcome of a failure inside it.                    *)
(***************************************************************************)
EXTENDS Integers, Sequences, FiniteSetsExt

CONSTANTS Values,        \* item contents
          Size,          \* encoded size of each content, at least one byte
          MaxFileSize,   \* maxFileSize
          BufferLimit,   \* freezerBatchBufferLimit
          MaxItems,      \* bound: item numbers are below MaxItems
          MaxCrashes     \* bound: power failures in a behaviour

ASSUME SizeAssumption ==
    /\ MaxFileSize \in Nat /\ BufferLimit \in Nat /\ MaxItems \in Nat /\ MaxCrashes \in Nat
    /\ Size \in [Values -> 1 .. MaxFileSize]

VARIABLES idx, idxSync, dat, datSync, meta, metaOld,   \* files
          mem,      \* freezerTable: items, itemOffset, itemHidden, headId, tailId, headBytes
          batch,    \* freezerTableBatch: dataBuffer, indexBuffer, curItem, and ModifyAncients' prevItem
          pc,       \* step of the running operation, "idle" when there is none
          arg,      \* its argument: an item's content, or an item number
          mode,     \* "open", "down", or "failed" when newTable returned an error
          crashes

files == <<idx, idxSync, dat, datSync, meta, metaOld>>
vars == <<idx, idxSync, dat, datSync, meta, metaOld, mem, batch, pc, arg, mode, crashes>>

----
(***************************************************************************)
(* Reading the files.                                                      *)
(***************************************************************************)
\* The bytes of an item.
Bytes(v) == [k \in 1 .. Size[v] |-> <<v, k>>]
Entry(f, o) == [filenum |-> f, offset |-> o]
\* What a file system may leave in space it allocated and never wrote.
ZeroByte == <<"zero", 0>>
ZeroEntry == Entry(0, 0)

\* The bytes of data file f; opening a missing file for append creates it.
File(D, f) == IF f \in DOMAIN D THEN D[f] ELSE <<>>

\* The data files with the contents of file f replaced; f is created if it is missing.
WithFile(D, f, bs) == [g \in DOMAIN D \cup {f} |-> IF g = f THEN bs ELSE D[g]]

\* The last entry of an index, or the default of an index without items.
LastEntry(I) == IF Len(I) = 1 THEN Entry(I[1].filenum, 0) ELSE I[Len(I)]

\* getIndices and retrieveItems for the i-th remaining item: an item that
\* crosses into a new file lies in the new file from its start.
ReadItem(I, D, i) ==
    LET a == IF i = 1 THEN Entry(I[2].filenum, 0) ELSE I[i]
        b == I[i + 1]
        from == IF a.filenum = b.filenum THEN a.offset ELSE 0
    IN  IF b.offset <= Len(File(D, b.filenum)) THEN SubSeq(File(D, b.filenum), from + 1, b.offset) ELSE <<>>

\* The content whose encoding the bytes are; "corrupt" when there is none.
Decode(bs) == IF \E v \in Values : Bytes(v) = bs
              THEN CHOOSE v \in Values : Bytes(v) = bs
              ELSE "corrupt"

----
(***************************************************************************)
(* newTable: repairIndex and repair.                                       *)
(***************************************************************************)
\* Mutant: offsets within a file may decrease.
checkIndexItems_AnyOffset(a, b) ==
    /\ b.filenum \in {a.filenum, a.filenum + 1}
    /\ b.filenum = a.filenum + 1 => b.offset /= 0

checkIndexItems(a, b) ==
    /\ b.filenum \in {a.filenum, a.filenum + 1}
    /\ b.filenum = a.filenum => b.offset >= a.offset
    /\ b.filenum = a.filenum + 1 => b.offset /= 0

IndexItemOK(I, k) ==
    IF k = 2 THEN I[2].filenum \in {I[1].filenum, I[1].filenum + 1}
             ELSE checkIndexItems(I[k - 1], I[k])

\* The index is cut at its first entry that is out of order.
repairIndex(I) ==
    SubSeq(I, 1, Max({n \in 1 .. Len(I) : \A k \in 2 .. n : IndexItemOK(I, k)}))

\* Index entries are dropped until the last one ends within its data file; the
\* loop stops there, because data beyond the entry is cut off.
repairLoop(I, D) ==
    LET fits(n) == LET e == LastEntry(SubSeq(I, 1, n)) IN e.offset <= Len(File(D, e.filenum))
    IN  SubSeq(I, 1, Max({n \in 1 .. Len(I) : fits(n)}))

RepairedIndex(I, D) == repairLoop(repairIndex(I), D)

\* loadMetadata raises the virtual tail to the actual one.
RepairedTail(I, m) == Max({m, I[1].offset})

----
\* The buffers between two write operations: reset empties them before they are used.
NoBatch == [data |-> <<>>, index |-> <<>>, cur |-> 0, prevItem |-> 0]
\* The fields of a table that was just created, or is not open.
NoFields == [items |-> 0, itemOffset |-> 0, itemHidden |-> 0, headId |-> 0, tailId |-> 0, headBytes |-> 0]

Init ==
    /\ idx = <<ZeroEntry>> /\ idxSync = 1
    /\ dat = [f \in {0} |-> <<>>] /\ datSync = 0
    /\ meta = 0 /\ metaOld = {}
    /\ mem = NoFields
    /\ batch = NoBatch
    /\ pc = "idle" /\ arg = 0 /\ mode = "open" /\ crashes = 0

Idle == mode = "open" /\ pc = "idle"

(***************************************************************************)
(* freezerTableBatch.                                                      *)
(***************************************************************************)
reset ==
    /\ Idle
    /\ batch' = [data |-> <<>>, index |-> <<>>, cur |-> mem.items, prevItem |-> mem.items]
    /\ pc' = "batch"
    /\ UNCHANGED <<files, mem, arg, mode, crashes>>

\* The batch with item v put into its buffers, at the given offset of file f.
Buffered(v, f, offset) ==
    [batch EXCEPT !.data = @ \o Bytes(v), !.index = Append(@, Entry(f, offset + Size[v])), !.cur = @ + 1]

\* maybeCommit after the item was buffered.
AfterBuffering(b) == IF Len(b.data) > BufferLimit THEN "flush" ELSE "batch"

\* Mutant: the bytes still in the buffer are not counted.
ItemFits_NoBuffer(v) == mem.headBytes + Size[v] <= MaxFileSize

ItemFits(v) == mem.headBytes + Len(batch.data) + Size[v] <= MaxFileSize

appendItem(v) ==
    /\ mode = "open" /\ pc = "batch" /\ batch.cur < MaxItems
    /\ IF ItemFits(v)
       THEN /\ batch' = Buffered(v, mem.headId, mem.headBytes + Len(batch.data))
            /\ pc' = AfterBuffering(batch')
            /\ UNCHANGED arg
       ELSE pc' = "full" /\ arg' = v /\ UNCHANGED batch
    /\ UNCHANGED <<files, mem, mode, crashes>>

\* commit, first half: the data is written to the head file.
NextWrite(p) == CASE p = "full" -> "fullIndex" [] p = "flush" -> "flushIndex" [] p = "batch" -> "doneIndex"
commitWrite ==
    /\ mode = "open" /\ pc \in {"full", "flush", "batch"}
    /\ dat' = [dat EXCEPT ![mem.headId] = @ \o batch.data]
    /\ pc' = NextWrite(pc)
    /\ UNCHANGED <<idx, idxSync, datSync, meta, metaOld, mem, batch, arg, mode, crashes>>

\* commit, second half: the data is flushed, then the index is written and left
\* to the operating system.
NextIndex(p) == CASE p = "fullIndex" -> "advance" [] p = "flushIndex" -> "batch" [] p = "doneIndex" -> "idle"
commitIndex ==
    /\ mode = "open" /\ pc \in {"fullIndex", "flushIndex", "doneIndex"}
    /\ datSync' = Len(dat[mem.headId])
    /\ idx' = idx \o batch.index
    /\ mem' = [mem EXCEPT !.headBytes = @ + Len(batch.data), !.items = batch.cur]
    /\ batch' = IF pc = "doneIndex" THEN NoBatch ELSE [batch EXCEPT !.data = <<>>, !.index = <<>>]
    /\ pc' = NextIndex(pc)
    /\ UNCHANGED <<idxSync, dat, meta, metaOld, arg, mode, crashes>>

\* advanceHead, and the rest of appendItem: a file of the next number that is
\* already there is emptied.
advanceHead ==
    /\ mode = "open" /\ pc = "advance"
    /\ dat' = WithFile(dat, mem.headId + 1, <<>>)
    /\ datSync' = 0
    /\ mem' = [mem EXCEPT !.headBytes = 0, !.headId = @ + 1]
    /\ batch' = Buffered(arg, mem.headId + 1, 0)
    /\ pc' = AfterBuffering(batch')
    /\ arg' = 0
    /\ UNCHANGED <<idx, idxSync, meta, metaOld, mode, crashes>>

----
(***************************************************************************)
(* truncateHead, also the roll-back of a write operation that failed.      *)
(***************************************************************************)
CutIndex(n) ==
    /\ idx' = SubSeq(idx, 1, n - mem.itemOffset + 1)
    /\ idxSync' = Len(idx')
    /\ pc' = "headFiles" /\ arg' = n
    /\ batch' = NoBatch
    /\ UNCHANGED <<dat, datSync, meta, metaOld, mem, mode, crashes>>

truncateHead(n) ==
    /\ Idle
    /\ n < mem.items /\ n >= mem.itemHidden
    /\ CutIndex(n)

\* The deferred roll-back of ModifyAncients, when its callback has failed.
rollback ==
    /\ mode = "open" /\ pc = "batch"
    /\ IF batch.prevItem < mem.items
       THEN CutIndex(batch.prevItem)
       ELSE pc' = "idle" /\ batch' = NoBatch /\ UNCHANGED <<files, mem, arg, mode, crashes>>

\* The open data files are those from tailId to headId.
Open(f) == f \in mem.tailId .. mem.headId

\* The open files after the new head are removed.
truncateHeadFiles ==
    /\ mode = "open" /\ pc = "headFiles"
    /\ LET e == LastEntry(idx) IN
       /\ dat' = [f \in {g \in DOMAIN dat : ~(Open(g) /\ g > e.filenum)} |-> dat[f]]
       /\ mem' = [mem EXCEPT !.headId = e.filenum]
       /\ datSync' = IF e.filenum = mem.headId THEN datSync ELSE Len(File(dat, e.filenum))
    /\ pc' = "headData"
    /\ UNCHANGED <<idx, idxSync, meta, metaOld, batch, arg, mode, crashes>>

\* Mutant: headBytes is not set back.
truncateHeadData_KeepBytes ==
    /\ mode = "open" /\ pc = "headData"
    /\ LET e == LastEntry(idx) IN
       /\ dat' = [dat EXCEPT ![e.filenum] = SubSeq(@, 1, e.offset)]
       /\ datSync' = e.offset
       /\ mem' = [mem EXCEPT !.items = arg]
    /\ pc' = "idle" /\ arg' = 0
    /\ UNCHANGED <<idx, idxSync, meta, metaOld, batch, mode, crashes>>

truncateHeadData ==
    /\ mode = "open" /\ pc = "headData"
    /\ LET e == LastEntry(idx) IN
       /\ dat' = [dat EXCEPT ![e.filenum] = SubSeq(@, 1, e.offset)]
       /\ datSync' = e.offset
       /\ mem' = [mem EXCEPT !.headBytes = e.offset, !.items = arg]
    /\ pc' = "idle" /\ arg' = 0
    /\ UNCHANGED <<idx, idxSync, meta, metaOld, batch, mode, crashes>>

----
(***************************************************************************)
(* truncateTail: items are hidden by the metadata file; data files are     *)
(* deleted when all their items are hidden.                                *)
(***************************************************************************)
NewTailId(n) == IF mem.items = n THEN mem.headId ELSE idx[n - mem.itemOffset + 2].filenum

truncateTail(n) ==
    /\ Idle
    /\ mem.itemHidden < n /\ n <= mem.items
    /\ mem' = [mem EXCEPT !.itemHidden = n]
    /\ meta' = n /\ metaOld' = metaOld \cup {meta}
    /\ IF mem.tailId = NewTailId(n) THEN UNCHANGED <<pc, arg>> ELSE pc' = "tailIndex" /\ arg' = n
    /\ UNCHANGED <<idx, idxSync, dat, datSync, batch, mode, crashes>>

\* newDeleted: the items before the first one of the new tail file.
NewDeleted(n) ==
    Min({n} \cup {c \in mem.itemOffset .. n - 1 :
                    \A k \in c .. n - 1 : idx[k - mem.itemOffset + 2].filenum = NewTailId(n)})

\* The metadata is flushed, and the shortened index is copied, renamed over the
\* old one and flushed.
truncateTailIndex ==
    /\ mode = "open" /\ pc = "tailIndex"
    /\ metaOld' = {}
    /\ LET d == NewDeleted(arg) IN
       idx' = <<Entry(NewTailId(arg), d)>> \o SubSeq(idx, d - mem.itemOffset + 2, Len(idx))
    /\ idxSync' = Len(idx')
    /\ pc' = "tailFiles"
    /\ UNCHANGED <<dat, datSync, meta, mem, batch, arg, mode, crashes>>

\* Mutant: the new tail file is removed too.
truncateTailFiles_OneMore ==
    /\ mode = "open" /\ pc = "tailFiles"
    /\ mem' = [mem EXCEPT !.tailId = idx[1].filenum, !.itemOffset = idx[1].offset]
    /\ dat' = [f \in {g \in DOMAIN dat : ~(Open(g) /\ g <= idx[1].filenum /\ g < mem.headId)} |-> dat[f]]
    /\ pc' = "idle" /\ arg' = 0
    /\ UNCHANGED <<idx, idxSync, datSync, meta, metaOld, batch, mode, crashes>>

truncateTailFiles ==
    /\ mode = "open" /\ pc = "tailFiles"
    /\ mem' = [mem EXCEPT !.tailId = idx[1].filenum, !.itemOffset = idx[1].offset]
    /\ dat' = [f \in {g \in DOMAIN dat : ~(Open(g) /\ g < idx[1].filenum)} |-> dat[f]]
    /\ pc' = "idle" /\ arg' = 0
    /\ UNCHANGED <<idx, idxSync, datSync, meta, metaOld, batch, mode, crashes>>

----
(***************************************************************************)
(* Sync takes the table's lock, which a batch does not: it may run between *)
(* the writes of a batch, and never inside a truncation.                   *)
(***************************************************************************)
Flush ==
    /\ idxSync' = Len(idx) /\ datSync' = Len(dat[mem.headId]) /\ metaOld' = {}
    /\ UNCHANGED <<idx, dat, meta>>

Locked == pc \in {"headFiles", "headData", "tailIndex", "tailFiles"}

Sync ==
    /\ mode = "open" /\ ~Locked
    /\ Flush
    /\ UNCHANGED <<mem, batch, pc, arg, mode, crashes>>

Close ==
    /\ Idle
    /\ Flush
    /\ mode' = "down"
    /\ UNCHANGED <<mem, batch, pc, arg, crashes>>

\* A prefix of s that covers its flushed part, followed by space never written.
Torn(s, flushed, zero) ==
    UNION { { [k \in 1 .. l |-> IF k <= m THEN s[k] ELSE zero] : l \in m .. Len(s) } : m \in flushed .. Len(s) }

\* The one case repairIndex documents as undetectable: zero entries right after
\* the zero head entry of a table of which no item was ever flushed.
Undetectable(I) == Len(I) > 1 /\ I[1] = ZeroEntry /\ I[2] = ZeroEntry

\* A power failure, at any step of any operation.
Crash ==
    /\ mode = "open" /\ crashes < MaxCrashes
    /\ idx' \in {I \in Torn(idx, idxSync, ZeroEntry) : ~Undetectable(I)}
    /\ \E bs \in Torn(dat[mem.headId], datSync, ZeroByte) : dat' = [dat EXCEPT ![mem.headId] = bs]
    /\ meta' \in metaOld \cup {meta}
    /\ mode' = "down" /\ crashes' = crashes + 1
    /\ idxSync' = Len(idx') /\ datSync' = 0 /\ metaOld' = {}
    /\ mem' = NoFields
    /\ batch' = NoBatch
    /\ pc' = "idle" /\ arg' = 0

\* newTable and repair.  sizeNolock reads the entry before the virtual tail, and
\* fails when the index no longer has it.
newTable ==
    /\ mode = "down"
    /\ LET I == RepairedIndex(idx, dat)
           e == LastEntry(I)
           bs == SubSeq(File(dat, e.filenum), 1, e.offset)
           items == I[1].offset + Len(I) - 1
           tail == RepairedTail(I, meta)
       IN  /\ idx' = I /\ idxSync' = Len(I)
           /\ dat' = WithFile(dat, e.filenum, bs) /\ datSync' = Len(bs)
           /\ meta' = tail /\ metaOld' = {}
           /\ mem' = [items |-> items, itemOffset |-> I[1].offset, itemHidden |-> tail,
                      headId |-> e.filenum, tailId |-> I[1].filenum, headBytes |-> e.offset]
           /\ mode' = IF tail > I[1].offset /\ tail > items THEN "failed" ELSE "open"
    /\ UNCHANGED <<batch, pc, arg, crashes>>

Next ==
    \/ reset \/ commitWrite \/ commitIndex \/ advanceHead \/ rollback
    \/ \E v \in Values : appendItem(v)
    \/ \E n \in 0 .. MaxItems : truncateHead(n) \/ truncateTail(n)
    \/ truncateHeadFiles \/ truncateHeadData \/ truncateTailIndex \/ truncateTailFiles
    \/ Sync \/ Close \/ Crash \/ newTable

Spec == Init /\ [][Next]_vars

----
(***************************************************************************)
(* Properties.                                                             *)
(***************************************************************************)
\* Type invariant of the table's files and fields.
TypeOK ==
    /\ idx \in Seq([filenum : Nat, offset : Nat]) /\ idxSync \in 1 .. Len(idx)
    /\ \A f \in DOMAIN dat : f \in Nat /\ Len(dat[f]) <= MaxFileSize
    /\ meta \in 0 .. MaxItems /\ metaOld \subseteq 0 .. MaxItems
    /\ mem \in [items : Nat, itemOffset : Nat, itemHidden : Nat, headId : Nat, tailId : Nat, headBytes : Nat]
    /\ mode \in {"open", "down", "failed"} /\ crashes \in 0 .. MaxCrashes

\* The table a reader would find if the files were opened now.
View(index, D, m, old, flushed, isOpen) ==
    LET I == RepairedIndex(index, D)
        lo == I[1].offset
        head == lo + Len(I) - 1
    IN  [lo |-> lo, head |-> head,
         val |-> [i \in lo .. head - 1 |-> Decode(ReadItem(I, D, i - lo + 1))],
         hid |-> RepairedTail(I, m),
         dur |-> IF isOpen THEN lo + flushed - 1 ELSE head,
         hidDur |-> Max({lo, Min(old \cup {m})})]

\* Between two operations the fields in memory say what the files hold, so that
\* opening the table again would change nothing: the next append goes to the end
\* of the data the index describes.
MemoryMatchesFiles ==
    Idle => /\ RepairedIndex(idx, dat) = idx
            /\ mem.items = mem.itemOffset + Len(idx) - 1
            /\ mem.itemOffset = idx[1].offset /\ mem.tailId = idx[1].filenum
            /\ mem.itemHidden = meta
            /\ mem.headBytes = Len(dat[mem.headId])
            /\ mem.headId = LastEntry(idx).filenum \/ mem.headBytes = 0

\* Every data file between the tail and the head is there: preopen fails, and
\* with it the node's start, when one is missing.
NoFileMissing ==
    LET I == RepairedIndex(idx, dat) IN
    mode /= "failed" => \A f \in I[1].filenum .. LastEntry(I).filenum - 1 : f \in DOMAIN dat

\* What the table believes of its files is true of them, after every
\* operation, crash and repair.
FilesSound == TypeOK /\ MemoryMatchesFiles /\ NoFileMissing
====
