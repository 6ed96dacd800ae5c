-------------------------------- MODULE Seqs ---------------------------------
(***************************************************************************)
(* The operators on sequences that the project takes from the community    *)
(* module SequencesExt, under one name for the modules that share them.    *)
(***************************************************************************)
EXTENDS Integers, Sequences

SeqX == INSTANCE SequencesExt
=============================================================================
