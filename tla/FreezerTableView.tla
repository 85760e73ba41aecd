---- MODULE FreezerTableView ----
(***************************************************************************)
(* FreezerTable with the table its files hold, the refinement mapping      *)
(* under which it implements AncientTable's Spec.  view is the value of    *)
(* View, kept in a variable so that TLC computes it once for a state.      *)
(***************************************************************************)
EXTENDS FreezerTable

VARIABLE view

ViewInit == Init /\ view = View(idx, dat, meta, metaOld, idxSync, TRUE)
ViewNext == Next /\ view' = View(idx', dat', meta', metaOld', idxSync', mode' = "open")
ViewSpec == ViewInit /\ [][ViewNext]_<<vars, view>>

Abstract == INSTANCE AncientTable WITH tab <- view

\* The files implement the table AncientTable describes: whatever step a power
\* failure interrupts, opening the files gives the items that were written, in
\* order and undamaged, without those a truncation removed, and loses at most a
\* suffix that no fsync has covered.
ImplementsTable == Abstract!Spec
====
