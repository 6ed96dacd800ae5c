------------------------------- MODULE Dna -------------------------------
(***************************************************************************)
(* The DNA of a cell and what cell.c does to it.  Nothing here has state:  *)
(* the modules that keep cells (Ecosystem, SysEnv) apply these operators.  *)
(*                                                                         *)
(* A codon (cell.h:61) carries one machine instruction.  Its eight bytes   *)
(* and its length are abstracted to an element of Code, the identity the   *)
(* code compares (int64).  mutate_flg becomes the set of the mutations the *)
(* codon forbids.                                                          *)
(***************************************************************************)
EXTENDS Seqs

CONSTANTS
  Code,                 \* machine instructions: the values of codon.int64
  MutationProbability,  \* CELL_MUTATION_PROBABILITY, a percentage
  LifeSlope,            \* a new life is LifeSlope * codons - LifeOffset ...
  LifeOffset,
  Word                  \* ... in an unsigned integer of Word values

ASSUME DnaAssumption ==
  /\ MutationProbability \in 0..100
  /\ LifeSlope \in Nat
  /\ LifeOffset \in Nat
  /\ Word \in Nat \ {0}

Flag == {"insp", "insn", "mod", "rem"}

Codon == [code : Code, buffered : BOOLEAN, dis : SUBSET Flag]

\* The instructions of a DNA.
Codes(dna) == {dna[i].code : i \in DOMAIN dna}

(***************************************************************************)
(* Growth: the compound taken from the environment bonds to the first      *)
(* codon of its instruction that has no compound yet.                      *)
(***************************************************************************)
IsFirstFree(dna, x, i) ==
  /\ i \in DOMAIN dna
  /\ dna[i].code = x
  /\ ~dna[i].buffered
  /\ \A j \in 1..i-1 : dna[j].code = x => dna[j].buffered

HasFree(dna, x) == \E i \in DOMAIN dna : dna[i].code = x /\ ~dna[i].buffered

\* Mutant: the loop of growth has no break.
BondedAll(dna, i) ==
  [j \in DOMAIN dna |-> [dna[j] EXCEPT !.buffered = @ \/ dna[j].code = dna[i].code]]

Bonded(dna, i) == [dna EXCEPT ![i].buffered = TRUE]

\* The DNA before a compound bonded to the codon i.
Unbonded(dna, i) == [dna EXCEPT ![i].buffered = FALSE]

Dividable(dna) == \A i \in DOMAIN dna : dna[i].buffered

(***************************************************************************)
(* Central dogma: the protein of the child is the list of instructions of  *)
(* the PARENT's DNA, and the parent's compounds are used up.               *)
(***************************************************************************)
Protein(dna) == [i \in DOMAIN dna |-> dna[i].code]

Unbuffered(c) == [c EXCEPT !.buffered = FALSE]

Cleared(dna) == [i \in DOMAIN dna |-> Unbuffered(dna[i])]

(***************************************************************************)
(* The four mutations, each at the codon idx, with x the instruction drawn *)
(* from the list of all codes.  An instruction that mutation brings in has *)
(* no flag set, a copied codon keeps its flags.                            *)
(***************************************************************************)
Drawn(x) == [code |-> x, buffered |-> FALSE, dis |-> {}]

InsertPrev(dna, idx, x) ==
  [i \in 1..Len(dna) + 1 |->
     IF i < idx THEN Unbuffered(dna[i])
     ELSE IF i = idx THEN Drawn(x) ELSE Unbuffered(dna[i - 1])]

InsertNext(dna, idx, x) ==
  [i \in 1..Len(dna) + 1 |->
     IF i <= idx THEN Unbuffered(dna[i])
     ELSE IF i = idx + 1 THEN Drawn(x) ELSE Unbuffered(dna[i - 1])]

Modify(dna, idx, x) ==
  [i \in 1..Len(dna) |-> IF i = idx THEN Drawn(x) ELSE Unbuffered(dna[i])]

\* Mutant: the copy loop before the removed codon runs one codon too far.
RemoveNext(dna, idx) ==
  [i \in 1..Len(dna) - 1 |->
     IF i <= idx THEN Unbuffered(dna[i]) ELSE Unbuffered(dna[i + 1])]

Remove(dna, idx) ==
  [i \in 1..Len(dna) - 1 |->
     IF i < idx THEN Unbuffered(dna[i]) ELSE Unbuffered(dna[i + 1])]

\* Mutant: the flags are not looked at.
AllowingAny(dna, act) == DOMAIN dna

\* The codons that allow the mutation act.
Allowing(dna, act) == {i \in DOMAIN dna : act \notin dna[i].dis}

Insertions(dna, list) ==
  {InsertPrev(dna, i, x) : i \in Allowing(dna, "insp"), x \in list}
    \cup {InsertNext(dna, i, x) : i \in Allowing(dna, "insn"), x \in list}

Modifications(dna, list) == {Modify(dna, i, x) : i \in Allowing(dna, "mod"), x \in list}

Removals(dna) == {Remove(dna, i) : i \in Allowing(dna, "rem")}

\* mutation() draws a codon and an action before it looks at the flags: a DNA
\* is copied unchanged only when the draw meets a flag (or the percentage).
MayCopy(dna) ==
  \/ MutationProbability < 100
  \/ \E i \in DOMAIN dna : dna[i].dis # {}

MayMutate == MutationProbability > 0

\* Some mutation of the DNA asks for an instruction of the list of all codes.
Draws(dna) == \E act \in {"insp", "insn", "mod"} : Allowing(dna, act) # {}

\* The unsigned life of a mutated child of n codons: it wraps at n = 0.
LifeOf(n) == (LifeSlope * n - LifeOffset) % Word

(***************************************************************************)
(* division(): the child of the cell c with the DNA d.  Any other field of *)
(* the record is inherited as it is.                                       *)
(***************************************************************************)
\* Mutant: the child inherits the protein instead of building it.
ChildOldBody(c, d, life) == [c EXCEPT !.dna = d, !.life = life, !.left = life]

Child(c, d, life) ==
  [c EXCEPT !.dna = d, !.body = Protein(c.dna), !.life = life, !.left = life]

Copies(c) == IF MayCopy(c.dna) THEN {Child(c, Cleared(c.dna), c.life)} ELSE {}

Mutants(c, dnas) ==
  IF MayMutate THEN {Child(c, d, LifeOf(Len(d))) : d \in dnas} ELSE {}

\* The children c can have, with the instructions in list; growing says
\* whether the bounds of the model leave room for a longer DNA.
Children(c, list, growing) ==
  Copies(c)
    \cup Mutants(c, Modifications(c.dna, list))
    \cup Mutants(c, Removals(c.dna))
    \cup (IF growing THEN Mutants(c, Insertions(c.dna, list)) ELSE {})

\* The DNA is the protein with at most one codon inserted, changed or removed.
OneEdit(body, genes) ==
  \/ genes = body
  \/ \E i \in 1..Len(genes) : SeqX!RemoveAt(genes, i) = body
  \/ \E i \in 1..Len(body) : SeqX!RemoveAt(body, i) = genes
  \/ \E i \in 1..Len(body) : \E x \in Code : genes = SeqX!ReplaceAt(body, i, x)

(***************************************************************************)
(* A protected tail: the last codons of the genome, written so that no     *)
(* mutation may touch them or come between them (the block the samples put *)
(* at the end of a cell so that every descendant ends by returning or by   *)
(* exit(2)).                                                               *)
(***************************************************************************)
Gene == [code : Code, dis : SUBSET Flag]

SealsTail(tail) ==
  /\ \A k \in DOMAIN tail : {"mod", "rem", "insn"} \subseteq tail[k].dis
  /\ \A k \in DOMAIN tail : k > 1 => "insp" \in tail[k].dis

EndsWith(dna, tail) ==
  /\ Len(tail) <= Len(dna)
  /\ \A k \in 1..Len(tail) :
        LET c == dna[Len(dna) - Len(tail) + k] IN
        c.code = tail[k].code /\ c.dis = tail[k].dis
==========================================================================
