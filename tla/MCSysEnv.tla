----------------------------- MODULE MCSysEnv -----------------------------
(***************************************************************************)
(* Small instances of SysEnv for TLC.                                      *)
(***************************************************************************)
EXTENDS SysEnv, TLC

CONSTANTS n1, n2, n3, ret, nop

Gene0(x, dis) == [code |-> x, dis |-> dis]
Fresh(gene) == [code |-> gene.code, buffered |-> FALSE, dis |-> gene.dis]

\* A cell that takes args arguments and returns a value if retval.
Born(genes, life, args, retval) ==
  LET dna == [i \in DOMAIN genes |-> Fresh(genes[i])] IN
  [dna |-> dna, body |-> Protein(dna), life |-> life, left |-> life,
   fitness |-> 1, numArgs |-> args, hasArgs |-> 0, retval |-> retval]

Alone(c) == [n \in Name |-> IF n = n1 THEN c ELSE Absent]

\* samples/create-init-cell.c: a ret that only allows insertion before it.
InitTail == <<Gene0(ret, {"insn", "mod", "rem"})>>
InitColonies == {Alone(Born(InitTail, 2, 0, FALSE))}

\* samples/create-hello-cell-code.c has codons without any flag.  REMOVE may leave
\* of such a cell one that has no codon, and a life that has wrapped around; this
\* one takes two arguments and has its last turn ahead.
NoTail == <<>>
EmptyCell ==
  [Born(<<Gene0(ret, {})>>, LifeOf(0), 2, FALSE) EXCEPT !.dna = <<>>, !.left = 1]
EmptyColonies == {Alone(EmptyCell)}

\* samples/create-incr-cell-data.c, placed later: one argument, one return value.
IncrVisitors == {Born(InitTail, 1, 1, TRUE)}
NoVisitors == {}

NoStores == {[x \in Code |-> 0]}
RetStores == {[x \in Code |-> IF x = ret THEN 1 ELSE 0]}

Others == Permutations(Name \ {n1})
===========================================================================
