----------------------------- MODULE MCCellFile -----------------------------
(***************************************************************************)
(* Small instances of CellFile for TLC.                                    *)
(***************************************************************************)
EXTENDS CellFile

CONSTANTS young, old, ret, nop

CellOf(attr, dna, body) ==
  [attr |-> attr, num |-> Len(dna), size |-> Len(body), dna |-> dna, body |-> body]

\* Cells of no, one and two codons, that differ in a byte or in their length.
SmallVersions ==
  {CellOf(young, <<ret>>, <<ret>>), CellOf(old, <<ret>>, <<ret>>),
   CellOf(young, <<nop, ret>>, <<ret, nop>>), CellOf(old, <<>>, <<nop>>)}
============================================================================
