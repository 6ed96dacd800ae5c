---------------------------- MODULE MCCellTools ----------------------------
(***************************************************************************)
(* Small instances of CellTools for TLC.                                   *)
(***************************************************************************)
EXTENDS CellTools

To(field, value) == [field |-> field, value |-> value]

\* Values within the documented ranges, num_args itself, and one that a byte wraps.
AnyEdits == {To("fitness", v) : v \in {0, 5}} \cup {To("has", v) : v \in {0, 1, 2, 5}}
============================================================================
