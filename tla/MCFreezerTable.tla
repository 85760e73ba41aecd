---- MODULE MCFreezerTable ----
(***************************************************************************)
(* Two item contents, of one and of two bytes, in data files of three: an  *)
(* item may fill a file exactly, leave room, or not fit.                   *)
(***************************************************************************)
EXTENDS FreezerTableView

MCSize == [v \in Values |-> IF v = "a" THEN 1 ELSE 2]
====
