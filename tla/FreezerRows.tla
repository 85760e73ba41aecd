---- MODULE FreezerRows ----
(***************************************************************************)
(* Freezer with the rows its tables hold together, the refinement mapping  *)
(* under which it implements AncientTable's StoreSpec.  view is the value  *)
(* of View, kept in a variable so that TLC computes it once for a state.   *)
(***************************************************************************)
EXTENDS Freezer

VARIABLE view

RowsInit == Init /\ view = View(tabs, TRUE)
RowsNext == Next /\ view' = View(tabs', mode' = "open")
RowsSpec == RowsInit /\ [][RowsNext]_<<vars, view>>

Rows == INSTANCE AncientTable WITH tab <- view

\* The tables together behave as one table of rows: a power failure during a
\* write, a truncation, a flush or a repair leaves, once the freezer is open
\* again, a prefix of the rows with the same content in every table.
ImplementsStore == Rows!StoreSpec
====
