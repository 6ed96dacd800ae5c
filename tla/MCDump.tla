------------------------------- MODULE MCDump -------------------------------
(***************************************************************************)
(* Instances of Dump for TLC: short DNAs character by character, cells up  *)
(* to the length that fits by the number of characters.                    *)
(***************************************************************************)
EXTENDS Dump

ShortLists == SeqX!BoundedSeq(1..3, 3) \cup {<<8>>, <<7, 8>>}
============================================================================
