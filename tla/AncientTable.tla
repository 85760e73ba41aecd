---- MODULE AncientTable ----
(***************************************************************************)
(* What one table of the ancient store promises: a sequence of numbered    *)
(* items of which a prefix is hidden or deleted, that only grows at its    *)
(* head, and of which a power failure may take a suffix that no fsync has  *)
(* covered, and nothing else.  FreezerTable implements Spec with index,    *)
(* data and metadata files; Freezer is built from tables of this kind and  *)
(* implements StoreSpec: its tables together behave as one table.          *)
(*                                                                         *)
(* A table is a record:                                                    *)
(*   lo      number of items physically deleted from the tail              *)
(*   head    number of the next item                                       *)
(*   val     the stored items, a function on lo .. head-1                  *)
(*   hid     the virtual tail: items below it cannot be read               *)
(*   dur     items below dur survive a power failure                       *)
(*   hidDur  the virtual tail is at least hidDur after a power failure     *)
(***************************************************************************)
EXTENDS Integers, Sequences

CONSTANTS Values,      \* contents an item may have
          MaxItems     \* bound: item numbers are below MaxItems

\* The items are a function on lo .. head-1, and the bounds are ordered.
Items == UNION {[S -> Values] : S \in SUBSET (0 .. MaxItems - 1)}
Table == [lo : 0 .. MaxItems, head : 0 .. MaxItems, val : Items,
          hid : 0 .. MaxItems, dur : 0 .. MaxItems, hidDur : 0 .. MaxItems]
Ordered(T) ==
    /\ T.val \in [T.lo .. T.head - 1 -> Values]
    /\ T.lo <= T.hidDur /\ T.hidDur <= T.hid
    /\ T.lo <= T.dur /\ T.dur <= T.head

EmptyTable == [lo |-> 0, head |-> 0, val |-> <<>>, hid |-> 0, dur |-> 0, hidDur |-> 0]

\* The items of table T numbered below h, from number l on.
Cut(T, l, h) == [i \in l .. h - 1 |-> T.val[i]]

Appended(T, vs) ==
    [T EXCEPT !.head = @ + Len(vs),
              !.val  = [i \in T.lo .. T.head + Len(vs) - 1 |->
                            IF i < T.head THEN T.val[i] ELSE vs[i - T.head + 1]]]

\* A head truncation flushes the index at once.
HeadTruncated(T, n) ==
    [T EXCEPT !.head = n, !.val = Cut(T, T.lo, n), !.dur = n]

TailTruncated(T, n) == [T EXCEPT !.hid = n]

\* Deleting whole data files of hidden items flushes the table's metadata and index.
Dropped(T, l) ==
    [T EXCEPT !.lo = l, !.val = Cut(T, l, T.head), !.dur = T.head, !.hidDur = T.hid]

Synced(T) == [T EXCEPT !.dur = T.head, !.hidDur = T.hid]

\* The tables a power failure may leave behind.
AfterCrash(T) ==
    { [lo |-> T.lo, head |-> h, val |-> Cut(T, T.lo, h), hid |-> d, dur |-> h, hidDur |-> d] :
        h \in T.dur .. T.head, d \in T.hidDur .. T.hid }

\* The table cannot be opened again when its virtual tail outlived its items.
Openable(T) == T.hid <= T.head

----
VARIABLES tab,     \* the table
          mode     \* "open", "down" or "failed" (open returned an error)

Init == tab = EmptyTable /\ mode = "open"

AppendItems ==
    /\ mode = "open"
    /\ \E n \in 1 .. MaxItems - tab.head : \E vs \in [1 .. n -> Values] : tab' = Appended(tab, vs)
    /\ UNCHANGED mode

TruncateHead ==
    /\ mode = "open"
    /\ \E n \in tab.hid .. tab.head - 1 : tab' = HeadTruncated(tab, n)
    /\ UNCHANGED mode

TruncateTail ==
    /\ mode = "open"
    /\ \E n \in tab.hid + 1 .. tab.head : tab' = TailTruncated(tab, n)
    /\ UNCHANGED mode

Drop ==
    /\ mode = "open"
    /\ \E l \in tab.lo .. tab.hid : tab' = Dropped(tab, l)
    /\ UNCHANGED mode

Sync ==
    /\ mode = "open"
    /\ tab' = Synced(tab)
    /\ UNCHANGED mode

Crash ==
    /\ mode = "open"
    /\ tab' \in AfterCrash(tab)
    /\ mode' = "down"

Close ==
    /\ mode = "open"
    /\ tab' = Synced(tab)
    /\ mode' = "down"

Open ==
    /\ mode = "down"
    /\ mode' = IF Openable(tab) THEN "open" ELSE "failed"
    /\ UNCHANGED tab

Next == AppendItems \/ TruncateHead \/ TruncateTail \/ Drop \/ Sync \/ Crash \/ Close \/ Open

Spec == Init /\ [][Next]_<<tab, mode>>

----
(***************************************************************************)
(* The same for a store of several tables, of which the rows are the items.*)
(* Its tables are truncated, flushed and repaired one after the other, so  *)
(* durability advances by parts, and a crash may interrupt the repair.     *)
(***************************************************************************)
\* U is T, of which at least as much is flushed.
FlushedFrom(T, U) ==
    /\ U.dur \in T.dur .. T.head /\ U.hidDur \in T.hidDur .. T.hid
    /\ U = [T EXCEPT !.dur = U.dur, !.hidDur = U.hidDur]

Flush ==
    /\ mode = "open"
    /\ FlushedFrom(tab, tab')
    /\ UNCHANGED mode

CutHead ==
    /\ mode = "open"
    /\ tab'.head \in tab.hid .. tab.head - 1
    /\ FlushedFrom([HeadTruncated(tab, tab'.head) EXCEPT !.dur = IF tab.dur <= tab'.head THEN tab.dur ELSE tab'.head], tab')
    /\ UNCHANGED mode

CutTail ==
    /\ mode /= "failed"
    /\ tab'.hid \in {tab.hid} \cup tab.hid .. tab.head
    /\ tab'.lo \in tab.lo .. tab'.hid
    /\ FlushedFrom([tab EXCEPT !.hid = tab'.hid, !.lo = tab'.lo, !.val = Cut(tab, tab'.lo, tab.head)], tab')
    /\ UNCHANGED mode

CrashAgain ==
    /\ mode = "down"
    /\ tab' \in AfterCrash(tab)
    /\ UNCHANGED mode

\* Reset deletes the store's directory.
Clear ==
    /\ mode = "open"
    /\ tab' = EmptyTable
    /\ UNCHANGED mode

StoreNext ==
    AppendItems \/ CutHead \/ CutTail \/ Flush \/ Crash \/ CrashAgain \/ Close \/ Clear \/ Open

StoreSpec == Init /\ [][StoreNext]_<<tab, mode>>
====
