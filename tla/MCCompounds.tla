---------------------------- MODULE MCCompounds ----------------------------
(***************************************************************************)
(* Small instances of Compounds for TLC.                                   *)
(***************************************************************************)
EXTENDS Compounds

CONSTANTS a, b, c, d, e, u, ret, nop

\* One file each of two instructions.
TwoFiles == {[n \in Name |-> IF n = a THEN ret ELSE IF n = b THEN nop ELSE Absent]}

\* What a new process may still have to put back.
OneEach == {Empty, [x \in Code |-> 1]}
============================================================================
