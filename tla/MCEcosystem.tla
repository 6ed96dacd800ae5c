---------------------------- MODULE MCEcosystem ----------------------------
(***************************************************************************)
(* Small instances of Ecosystem for TLC.  The founders are a cell like     *)
(* that of samples/create-exit-cell.c (a protected block of two codons)    *)
(* and one without protected codons.                                       *)
(***************************************************************************)
EXTENDS Ecosystem, TLC

CONSTANTS n1, n2, n3, n4, ret, sys, nop

Gene0(x, dis) == [code |-> x, dis |-> dis]
Fresh(gene) == [code |-> gene.code, buffered |-> FALSE, dis |-> gene.dis]

Born(genes, life) ==
  LET dna == [i \in DOMAIN genes |-> Fresh(genes[i])] IN
  [dna |-> dna, body |-> Protein(dna), life |-> life, left |-> life]

Alone(c) == [n \in Name |-> IF n = n1 THEN c ELSE Absent]

\* samples/create-exit-cell.c: nothing may come inside the exit block.
ExitTail == <<Gene0(sys, {"insn", "mod", "rem"}), Gene0(ret, Flag)>>
ExitColonies == {Alone(Born(ExitTail, 3))}

\* samples/create-hello-cell-code.c: codons without any flag.
NoTail == <<>>
BareColonies == {Alone(Born(<<Gene0(ret, {})>>, 2))}

StoresOf(least, most) == [Code -> least..most]
\* A cell placed later brings an instruction that may not be there yet.  It comes
\* from an earlier run, where its mutation removed a codon.
ExitVisitors ==
  {[Born(<<Gene0(nop, {})>> \o ExitTail, 1) EXCEPT !.body = <<nop, ret, sys, ret>>]}
NoVisitors == {}

SmallStores == StoresOf(0, 2)
PoorStores == StoresOf(0, 1)

Others == Permutations(Name \ {n1})
============================================================================
