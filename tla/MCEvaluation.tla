---------------------------- MODULE MCEvaluation ----------------------------
(***************************************************************************)
(* Instances of Evaluation for TLC: the cells of samples/ that end with    *)
(* the exit block, and those whose evaluator has the guard.                *)
(***************************************************************************)
EXTENDS Evaluation

\* A descendant of the puta cell: add 34 has become add 41, and add 33 and a
\* second write were inserted.  It prints Hi.
HiDna ==
  WriteCodons(41) \o <<Codn("add_33_rsi", {}), Codn("write", {})>> \o ExitDna

\* A late descendant of the hello cell, whose codons have no flag: one removal
\* takes away the last.
LastCodon == <<Codn("exit", {})>>

SampleCells == {LastCodon, ExitDna, Exit1Dna, PutaDna, HiDna, HelloDna, InitDna}
SampleCodes == UNION {CodesOf(d) : d \in SampleCells} \cup {"sub_1_rsi"}

\* The long line of the hello cell is followed for one mutation only.
FewForLong(n) == IF n <= 9 THEN 2 ELSE 1
=============================================================================
