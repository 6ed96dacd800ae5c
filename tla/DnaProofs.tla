----------------------------- MODULE DnaProofs -----------------------------
(***************************************************************************)
(* What the operators of Dna return and preserve, for every DNA, every     *)
(* codon and every instruction: the lemmas on which the proofs about       *)
(* Ecosystem rest.                                                         *)
(***************************************************************************)
EXTENDS Dna, SequenceTheorems, TLAPS

\* A function on 1..n with values in S is a sequence of length n.
LEMMA SeqOfFunction ==
  ASSUME NEW S, NEW n \in Nat, NEW f \in [1..n -> S]
  PROVE  f \in Seq(S) /\ Len(f) = n /\ DOMAIN f = 1..n
OBVIOUS

\* Clearing or copying a codon keeps its instruction and its flags.
LEMMA UnbufferedCodon ==
  ASSUME NEW c \in Codon
  PROVE  /\ Unbuffered(c) \in Codon
         /\ Unbuffered(c).code = c.code
         /\ Unbuffered(c).dis = c.dis
         /\ Unbuffered(c).buffered = FALSE
BY DEF Unbuffered, Codon

\* A codon that mutation brings in is a codon.
LEMMA DrawnCodon ==
  ASSUME NEW x \in Code
  PROVE  Drawn(x) \in Codon /\ Drawn(x).code = x
BY DEF Drawn, Codon

\* Bonding a compound changes no instruction and no flag (growth).
LEMMA BondedDna ==
  ASSUME NEW dna \in Seq(Codon), NEW i \in DOMAIN dna
  PROVE  /\ Bonded(dna, i) \in Seq(Codon)
         /\ Len(Bonded(dna, i)) = Len(dna)
         /\ \A j \in 1..Len(dna) : /\ Bonded(dna, i)[j].code = dna[j].code
                                   /\ Bonded(dna, i)[j].dis = dna[j].dis
<1> DEFINE d == Bonded(dna, i)
<1>1. DOMAIN d = 1..Len(dna)
  BY DEF Bonded
<1>2. \A j \in 1..Len(dna) : /\ d[j] \in Codon
                             /\ d[j].code = dna[j].code
                             /\ d[j].dis = dna[j].dis
  <2> SUFFICES ASSUME NEW j \in 1..Len(dna)
               PROVE  d[j] \in Codon /\ d[j].code = dna[j].code /\ d[j].dis = dna[j].dis
    OBVIOUS
  <2>1. dna[j] \in Codon
    OBVIOUS
  <2>2. j \in DOMAIN dna
    OBVIOUS
  <2>3. CASE j = i
    <3>1. d[j] = [dna[j] EXCEPT !.buffered = TRUE]
      BY <2>2, <2>3 DEF Bonded
    <3> QED
      BY <2>1, <3>1 DEF Codon
  <2>4. CASE j # i
    BY <2>1, <2>2, <2>4 DEF Bonded
  <2> QED
    BY <2>3, <2>4
<1>3. d \in [1..Len(dna) -> Codon]
  BY <1>1, <1>2 DEF Bonded
<1> QED
  BY <1>2, <1>3, SeqOfFunction

\* Nor does a compound that is lost.
LEMMA UnbondedDna ==
  ASSUME NEW dna \in Seq(Codon), NEW i \in DOMAIN dna
  PROVE  /\ Unbonded(dna, i) \in Seq(Codon)
         /\ Len(Unbonded(dna, i)) = Len(dna)
         /\ \A j \in 1..Len(dna) : /\ Unbonded(dna, i)[j].code = dna[j].code
                                   /\ Unbonded(dna, i)[j].dis = dna[j].dis
<1> DEFINE d == Unbonded(dna, i)
<1>1. DOMAIN d = 1..Len(dna)
  BY DEF Unbonded
<1>2. \A j \in 1..Len(dna) : /\ d[j] \in Codon
                             /\ d[j].code = dna[j].code
                             /\ d[j].dis = dna[j].dis
  <2> SUFFICES ASSUME NEW j \in 1..Len(dna)
               PROVE  d[j] \in Codon /\ d[j].code = dna[j].code /\ d[j].dis = dna[j].dis
    OBVIOUS
  <2>1. dna[j] \in Codon
    OBVIOUS
  <2>2. j \in DOMAIN dna
    OBVIOUS
  <2>3. CASE j = i
    <3>1. d[j] = [dna[j] EXCEPT !.buffered = FALSE]
      BY <2>2, <2>3 DEF Unbonded
    <3> QED
      BY <2>1, <3>1 DEF Codon
  <2>4. CASE j # i
    BY <2>1, <2>2, <2>4 DEF Unbonded
  <2> QED
    BY <2>3, <2>4
<1>3. d \in [1..Len(dna) -> Codon]
  BY <1>1, <1>2 DEF Unbonded
<1> QED
  BY <1>2, <1>3, SeqOfFunction

\* A cell all of whose codons hold a compound has bonded any of them last.
LEMMA UnbondedLast ==
  ASSUME NEW dna \in Seq(Codon), Dividable(dna), NEW i \in DOMAIN dna
  PROVE  /\ Bonded(Unbonded(dna, i), i) = dna
         /\ IsFirstFree(Unbonded(dna, i), dna[i].code, i)
<1> DEFINE e == Unbonded(dna, i)
<1>1. \A j \in DOMAIN dna : dna[j] \in Codon /\ dna[j].buffered
  BY DEF Dividable
<1>2. /\ DOMAIN e = DOMAIN dna /\ e[i] = [dna[i] EXCEPT !.buffered = FALSE]
      /\ \A j \in DOMAIN dna \ {i} : e[j] = dna[j]
  BY DEF Unbonded
<1>3. e[i].code = dna[i].code /\ ~e[i].buffered /\ [e[i] EXCEPT !.buffered = TRUE] = dna[i]
  BY <1>1, <1>2 DEF Codon
<1>4. IsFirstFree(e, dna[i].code, i)
  <2>1. i \in 1..Len(dna) /\ Len(dna) \in Nat /\ DOMAIN dna = 1..Len(dna)
    OBVIOUS
  <2>2. \A j \in 1..i-1 : j \in DOMAIN dna \ {i}
    BY <2>1
  <2> HIDE DEF e
  <2> QED
    BY <1>1, <1>2, <1>3, <2>2 DEF IsFirstFree
<1>5. Bonded(e, i) = dna
  <2>1. Bonded(e, i) = [e EXCEPT ![i] = dna[i]]
    BY <1>2, <1>3 DEF Bonded
  <2>2. DOMAIN Bonded(e, i) = DOMAIN dna
    BY <1>2, <2>1
  <2>3. \A j \in DOMAIN dna : Bonded(e, i)[j] = dna[j]
    BY <1>2, <2>1
  <2>4. Bonded(e, i) = [j \in DOMAIN dna |-> dna[j]]
    BY <1>2, <2>1, <2>3
  <2>5. dna = [j \in DOMAIN dna |-> dna[j]]
    OBVIOUS
  <2> QED
    BY <2>4, <2>5
<1> QED
  BY <1>4, <1>5

\* To lose the compound bonded last is to have bonded nothing.
LEMMA BondedUndone ==
  ASSUME NEW dna \in Seq(Codon), NEW i \in DOMAIN dna, ~dna[i].buffered
  PROVE  Unbonded(Bonded(dna, i), i) = dna
<1> DEFINE e == Bonded(dna, i)
<1>1. \A j \in DOMAIN dna : dna[j] \in Codon
  OBVIOUS
<1>2. /\ DOMAIN e = DOMAIN dna /\ e[i] = [dna[i] EXCEPT !.buffered = TRUE]
      /\ \A j \in DOMAIN dna \ {i} : e[j] = dna[j]
  BY DEF Bonded
<1>3. [e[i] EXCEPT !.buffered = FALSE] = dna[i]
  BY <1>1, <1>2 DEF Codon
<1>4. Unbonded(e, i) = [e EXCEPT ![i] = dna[i]]
  BY <1>2, <1>3 DEF Unbonded
<1>5. Unbonded(e, i) = [j \in DOMAIN dna |-> dna[j]]
  <2> HIDE DEF e
  <2>1. \A j \in DOMAIN dna : Unbonded(e, i)[j] = dna[j]
    BY <1>2, <1>4
  <2> QED
    BY <1>2, <1>4, <2>1
<1>6. dna = [j \in DOMAIN dna |-> dna[j]]
  OBVIOUS
<1> QED
  BY <1>5, <1>6

\* Copying, or using up the compounds, changes no instruction and no flag.
LEMMA ClearedDna ==
  ASSUME NEW dna \in Seq(Codon)
  PROVE  /\ Cleared(dna) \in Seq(Codon)
         /\ Len(Cleared(dna)) = Len(dna)
         /\ \A j \in 1..Len(dna) : /\ Cleared(dna)[j].code = dna[j].code
                                   /\ Cleared(dna)[j].dis = dna[j].dis
<1>1. DOMAIN dna = 1..Len(dna)
  OBVIOUS
<1>2. \A j \in 1..Len(dna) : dna[j] \in Codon
  OBVIOUS
<1>3. \A j \in 1..Len(dna) : /\ Unbuffered(dna[j]) \in Codon
                             /\ Unbuffered(dna[j]).code = dna[j].code
                             /\ Unbuffered(dna[j]).dis = dna[j].dis
  BY <1>2, UnbufferedCodon
<1>4. Cleared(dna) = [j \in 1..Len(dna) |-> Unbuffered(dna[j])]
  BY <1>1 DEF Cleared
<1>5. Cleared(dna) \in [1..Len(dna) -> Codon]
  BY <1>3, <1>4
<1>6. Cleared(dna) \in Seq(Codon) /\ Len(Cleared(dna)) = Len(dna)
  BY <1>5, SeqOfFunction
<1> QED
  BY <1>3, <1>4, <1>6

\* The protein of a DNA is its list of instructions.
LEMMA ProteinSeq ==
  ASSUME NEW dna \in Seq(Codon)
  PROVE  Protein(dna) \in Seq(Code) /\ Len(Protein(dna)) = Len(dna)
<1>0. DOMAIN dna = 1..Len(dna) /\ \A j \in 1..Len(dna) : dna[j] \in Codon
  OBVIOUS
<1>1. \A j \in 1..Len(dna) : dna[j].code \in Code
  BY <1>0 DEF Codon
<1>2. Protein(dna) \in [1..Len(dna) -> Code]
  BY <1>0, <1>1 DEF Protein
<1> QED
  BY <1>2, SeqOfFunction

\* INSERT_PREV and INSERT_NEXT make the DNA one codon longer.
LEMMA InsertPrevDna ==
  ASSUME NEW dna \in Seq(Codon), NEW idx \in DOMAIN dna, NEW x \in Code
  PROVE  /\ InsertPrev(dna, idx, x) \in Seq(Codon)
         /\ Len(InsertPrev(dna, idx, x)) = Len(dna) + 1
<1>1. idx \in 1..Len(dna) /\ \A j \in 1..Len(dna) : Unbuffered(dna[j]) \in Codon
  <2>1. idx \in 1..Len(dna) /\ \A j \in 1..Len(dna) : dna[j] \in Codon
    OBVIOUS
  <2>2. \A j \in 1..Len(dna) : Unbuffered(dna[j]) \in Codon
    BY <2>1, UnbufferedCodon
  <2> QED
    BY <2>1, <2>2
<1>2. \A i \in 1..Len(dna) + 1 :
        (IF i < idx THEN Unbuffered(dna[i])
         ELSE IF i = idx THEN Drawn(x) ELSE Unbuffered(dna[i - 1])) \in Codon
  BY <1>1, DrawnCodon
<1>3. InsertPrev(dna, idx, x) \in [1..Len(dna) + 1 -> Codon]
  BY <1>2 DEF InsertPrev
<1> QED
  BY <1>3, SeqOfFunction

LEMMA InsertNextDna ==
  ASSUME NEW dna \in Seq(Codon), NEW idx \in DOMAIN dna, NEW x \in Code
  PROVE  /\ InsertNext(dna, idx, x) \in Seq(Codon)
         /\ Len(InsertNext(dna, idx, x)) = Len(dna) + 1
<1>1. idx \in 1..Len(dna) /\ \A j \in 1..Len(dna) : Unbuffered(dna[j]) \in Codon
  <2>1. idx \in 1..Len(dna) /\ \A j \in 1..Len(dna) : dna[j] \in Codon
    OBVIOUS
  <2>2. \A j \in 1..Len(dna) : Unbuffered(dna[j]) \in Codon
    BY <2>1, UnbufferedCodon
  <2> QED
    BY <2>1, <2>2
<1>2. \A i \in 1..Len(dna) + 1 :
        (IF i <= idx THEN Unbuffered(dna[i])
         ELSE IF i = idx + 1 THEN Drawn(x) ELSE Unbuffered(dna[i - 1])) \in Codon
  BY <1>1, DrawnCodon
<1>3. InsertNext(dna, idx, x) \in [1..Len(dna) + 1 -> Codon]
  BY <1>2 DEF InsertNext
<1> QED
  BY <1>3, SeqOfFunction

\* MODIFY keeps the length.
LEMMA ModifyDna ==
  ASSUME NEW dna \in Seq(Codon), NEW idx \in DOMAIN dna, NEW x \in Code
  PROVE  /\ Modify(dna, idx, x) \in Seq(Codon)
         /\ Len(Modify(dna, idx, x)) = Len(dna)
<1>1. idx \in 1..Len(dna) /\ \A j \in 1..Len(dna) : Unbuffered(dna[j]) \in Codon
  <2>1. idx \in 1..Len(dna) /\ \A j \in 1..Len(dna) : dna[j] \in Codon
    OBVIOUS
  <2>2. \A j \in 1..Len(dna) : Unbuffered(dna[j]) \in Codon
    BY <2>1, UnbufferedCodon
  <2> QED
    BY <2>1, <2>2
<1>2. \A i \in 1..Len(dna) :
        (IF i = idx THEN Drawn(x) ELSE Unbuffered(dna[i])) \in Codon
  BY <1>1, DrawnCodon
<1>3. Modify(dna, idx, x) \in [1..Len(dna) -> Codon]
  BY <1>2 DEF Modify
<1> QED
  BY <1>3, SeqOfFunction

\* REMOVE makes it one codon shorter.
LEMMA RemoveDna ==
  ASSUME NEW dna \in Seq(Codon), NEW idx \in DOMAIN dna
  PROVE  /\ Remove(dna, idx) \in Seq(Codon)
         /\ Len(Remove(dna, idx)) = Len(dna) - 1
<1>1. idx \in 1..Len(dna) /\ \A j \in 1..Len(dna) : Unbuffered(dna[j]) \in Codon
  <2>1. idx \in 1..Len(dna) /\ \A j \in 1..Len(dna) : dna[j] \in Codon
    OBVIOUS
  <2>2. \A j \in 1..Len(dna) : Unbuffered(dna[j]) \in Codon
    BY <2>1, UnbufferedCodon
  <2> QED
    BY <2>1, <2>2
<1>2. \A i \in 1..Len(dna) - 1 :
        (IF i < idx THEN Unbuffered(dna[i]) ELSE Unbuffered(dna[i + 1])) \in Codon
  BY <1>1
<1>3. Remove(dna, idx) \in [1..Len(dna) - 1 -> Codon]
  BY <1>2 DEF Remove
<1>4. Len(dna) - 1 \in Nat
  OBVIOUS
<1> QED
  BY <1>3, <1>4, SeqOfFunction

-----------------------------------------------------------------------------

\* A DNA that agrees with dna on its last codons ends with the same tail.
LEMMA SameEnd ==
  ASSUME NEW tail \in Seq(Gene), NEW dna \in Seq(Codon), NEW d \in Seq(Codon),
         EndsWith(dna, tail), Len(tail) <= Len(d),
         \A k \in 1..Len(tail) :
           /\ d[Len(d) - Len(tail) + k].code = dna[Len(dna) - Len(tail) + k].code
           /\ d[Len(d) - Len(tail) + k].dis = dna[Len(dna) - Len(tail) + k].dis
  PROVE  EndsWith(d, tail)
BY DEF EndsWith

\* A codon that forbids no act forbidden all over the tail lies before the tail.
LEMMA BeforeTail ==
  ASSUME NEW tail \in Seq(Gene), NEW dna \in Seq(Codon), EndsWith(dna, tail),
         NEW act, NEW idx \in Allowing(dna, act),
         \A k \in DOMAIN tail : act \in tail[k].dis
  PROVE  idx \in 1..Len(dna) /\ idx <= Len(dna) - Len(tail)
<1>1. idx \in 1..Len(dna) /\ act \notin dna[idx].dis
  BY DEF Allowing
<1>2. ASSUME idx > Len(dna) - Len(tail)
      PROVE  FALSE
  <2> DEFINE k == idx - (Len(dna) - Len(tail))
  <2>1. k \in 1..Len(tail) /\ k \in DOMAIN tail
    BY <1>1, <1>2
  <2>2. Len(dna) - Len(tail) + k = idx
    BY <1>1
  <2>3. dna[idx].dis = tail[k].dis
    BY <2>1, <2>2 DEF EndsWith
  <2> QED
    BY <1>1, <2>1, <2>3
<1> QED
  BY <1>1, <1>2

\* Cell.c:214-259: nothing is inserted before a codon of the tail but the first.
LEMMA InsertPrevTail ==
  ASSUME NEW tail \in Seq(Gene), SealsTail(tail),
         NEW dna \in Seq(Codon), EndsWith(dna, tail),
         NEW idx \in Allowing(dna, "insp"), NEW x \in Code
  PROVE  EndsWith(InsertPrev(dna, idx, x), tail)
<1> DEFINE d == InsertPrev(dna, idx, x)
<1>1. idx \in DOMAIN dna /\ idx \in 1..Len(dna) /\ "insp" \notin dna[idx].dis
  BY DEF Allowing
<1>2. d \in Seq(Codon) /\ Len(d) = Len(dna) + 1
  BY <1>1, InsertPrevDna
<1>3. ASSUME idx > Len(dna) - Len(tail) + 1
      PROVE  FALSE
  <2> DEFINE k == idx - (Len(dna) - Len(tail))
  <2>1. k \in 1..Len(tail) /\ k \in DOMAIN tail /\ k > 1
    BY <1>1, <1>3 DEF EndsWith
  <2>2. Len(dna) - Len(tail) + k = idx
    BY <1>1
  <2>3. dna[idx].dis = tail[k].dis
    BY <2>1, <2>2 DEF EndsWith
  <2> QED
    BY <1>1, <2>1, <2>3 DEF SealsTail
<1>4. ASSUME NEW k \in 1..Len(tail)
      PROVE  /\ d[Len(d) - Len(tail) + k].code = dna[Len(dna) - Len(tail) + k].code
             /\ d[Len(d) - Len(tail) + k].dis = dna[Len(dna) - Len(tail) + k].dis
  <2> DEFINE j == Len(dna) - Len(tail) + k
  <2>1. j \in 1..Len(dna) /\ j + 1 > idx /\ Len(d) - Len(tail) + k = j + 1
    BY <1>1, <1>2, <1>3 DEF EndsWith
  <2>2. d[Len(d) - Len(tail) + k] = Unbuffered(dna[j])
    BY <1>1, <2>1 DEF InsertPrev
  <2>3. dna[j] \in Codon
    BY <2>1
  <2>4. Unbuffered(dna[j]).code = dna[j].code /\ Unbuffered(dna[j]).dis = dna[j].dis
    BY <2>3, UnbufferedCodon
  <2> QED
    BY <2>2, <2>4
<1> QED
  BY <1>2, <1>4, SameEnd DEF EndsWith

\* Cell.c:288-333: nothing is inserted after a codon of the tail.
LEMMA InsertNextTail ==
  ASSUME NEW tail \in Seq(Gene), SealsTail(tail),
         NEW dna \in Seq(Codon), EndsWith(dna, tail),
         NEW idx \in Allowing(dna, "insn"), NEW x \in Code
  PROVE  EndsWith(InsertNext(dna, idx, x), tail)
<1> DEFINE d == InsertNext(dna, idx, x)
<1>1. idx \in 1..Len(dna) /\ idx <= Len(dna) - Len(tail) /\ idx \in DOMAIN dna
  BY BeforeTail DEF SealsTail
<1>2. d \in Seq(Codon) /\ Len(d) = Len(dna) + 1
  BY <1>1, InsertNextDna
<1>3. ASSUME NEW k \in 1..Len(tail)
      PROVE  /\ d[Len(d) - Len(tail) + k].code = dna[Len(dna) - Len(tail) + k].code
             /\ d[Len(d) - Len(tail) + k].dis = dna[Len(dna) - Len(tail) + k].dis
  <2> DEFINE j == Len(dna) - Len(tail) + k
  <2>1. j \in 1..Len(dna) /\ j > idx /\ Len(d) - Len(tail) + k = j + 1
    BY <1>1, <1>2 DEF EndsWith
  <2>2. d[Len(d) - Len(tail) + k] = Unbuffered(dna[j])
    BY <1>1, <2>1 DEF InsertNext
  <2>3. dna[j] \in Codon
    BY <2>1
  <2>4. Unbuffered(dna[j]).code = dna[j].code /\ Unbuffered(dna[j]).dis = dna[j].dis
    BY <2>3, UnbufferedCodon
  <2> QED
    BY <2>2, <2>4
<1> QED
  BY <1>2, <1>3, SameEnd DEF EndsWith

\* Cell.c:362-392: no codon of the tail is changed.
LEMMA ModifyTail ==
  ASSUME NEW tail \in Seq(Gene), SealsTail(tail),
         NEW dna \in Seq(Codon), EndsWith(dna, tail),
         NEW idx \in Allowing(dna, "mod"), NEW x \in Code
  PROVE  EndsWith(Modify(dna, idx, x), tail)
<1> DEFINE d == Modify(dna, idx, x)
<1>1. idx \in 1..Len(dna) /\ idx <= Len(dna) - Len(tail) /\ idx \in DOMAIN dna
  BY BeforeTail DEF SealsTail
<1>2. d \in Seq(Codon) /\ Len(d) = Len(dna)
  BY <1>1, ModifyDna
<1>3. ASSUME NEW k \in 1..Len(tail)
      PROVE  /\ d[Len(d) - Len(tail) + k].code = dna[Len(dna) - Len(tail) + k].code
             /\ d[Len(d) - Len(tail) + k].dis = dna[Len(dna) - Len(tail) + k].dis
  <2> DEFINE j == Len(dna) - Len(tail) + k
  <2>1. j \in 1..Len(dna) /\ j > idx /\ Len(d) - Len(tail) + k = j
    BY <1>1, <1>2 DEF EndsWith
  <2>2. d[Len(d) - Len(tail) + k] = Unbuffered(dna[j])
    BY <1>1, <2>1 DEF Modify
  <2>3. dna[j] \in Codon
    BY <2>1
  <2>4. Unbuffered(dna[j]).code = dna[j].code /\ Unbuffered(dna[j]).dis = dna[j].dis
    BY <2>3, UnbufferedCodon
  <2> QED
    BY <2>2, <2>4
<1> QED
  BY <1>2, <1>3, SameEnd DEF EndsWith

\* Cell.c:421-456: no codon of the tail is removed.
LEMMA RemoveTail ==
  ASSUME NEW tail \in Seq(Gene), SealsTail(tail),
         NEW dna \in Seq(Codon), EndsWith(dna, tail),
         NEW idx \in Allowing(dna, "rem")
  PROVE  EndsWith(Remove(dna, idx), tail)
<1> DEFINE d == Remove(dna, idx)
<1>1. idx \in 1..Len(dna) /\ idx <= Len(dna) - Len(tail) /\ idx \in DOMAIN dna
  BY BeforeTail DEF SealsTail
<1>2. d \in Seq(Codon) /\ Len(d) = Len(dna) - 1
  BY <1>1, RemoveDna
<1>3. ASSUME NEW k \in 1..Len(tail)
      PROVE  /\ d[Len(d) - Len(tail) + k].code = dna[Len(dna) - Len(tail) + k].code
             /\ d[Len(d) - Len(tail) + k].dis = dna[Len(dna) - Len(tail) + k].dis
  <2> DEFINE j == Len(dna) - Len(tail) + k
  <2>1. j \in 1..Len(dna) /\ j > idx /\ Len(d) - Len(tail) + k = j - 1
    BY <1>1, <1>2 DEF EndsWith
  <2>2. d[Len(d) - Len(tail) + k] = Unbuffered(dna[j])
    BY <1>1, <2>1 DEF Remove
  <2>3. dna[j] \in Codon
    BY <2>1
  <2>4. Unbuffered(dna[j]).code = dna[j].code /\ Unbuffered(dna[j]).dis = dna[j].dis
    BY <2>3, UnbufferedCodon
  <2> QED
    BY <2>2, <2>4
<1> QED
  BY <1>1, <1>2, <1>3, SameEnd DEF EndsWith

-----------------------------------------------------------------------------
(* Which instructions a DNA has *)

\* A DNA is made of any set that contains each of its instructions.
LEMMA CodesWithin ==
  ASSUME NEW dna, NEW all, \A i \in DOMAIN dna : dna[i].code \in all
  PROVE  Codes(dna) \subseteq all
BY DEF Codes

\* Copying brings in no instruction and drops none.
LEMMA ClearedCodes ==
  ASSUME NEW dna \in Seq(Codon)
  PROVE  Codes(Cleared(dna)) = Codes(dna)
<1>1. Cleared(dna) \in Seq(Codon) /\ Len(Cleared(dna)) = Len(dna)
  BY ClearedDna
<1>2. DOMAIN Cleared(dna) = 1..Len(dna) /\ DOMAIN dna = 1..Len(dna)
  BY <1>1
<1>3. \A i \in 1..Len(dna) : Cleared(dna)[i].code = dna[i].code
  BY ClearedDna
<1> QED
  BY <1>2, <1>3 DEF Codes

\* Bonding a compound brings in no instruction and drops none.
LEMMA BondedCodes ==
  ASSUME NEW dna \in Seq(Codon), NEW k \in DOMAIN dna
  PROVE  Codes(Bonded(dna, k)) = Codes(dna)
<1>1. Bonded(dna, k) \in Seq(Codon) /\ Len(Bonded(dna, k)) = Len(dna)
  BY BondedDna
<1>2. DOMAIN Bonded(dna, k) = 1..Len(dna) /\ DOMAIN dna = 1..Len(dna)
  BY <1>1
<1>3. \A i \in 1..Len(dna) : Bonded(dna, k)[i].code = dna[i].code
  BY BondedDna
<1> QED
  BY <1>2, <1>3 DEF Codes

\* Losing a compound brings in no instruction and drops none.
LEMMA UnbondedCodes ==
  ASSUME NEW dna \in Seq(Codon), NEW k \in DOMAIN dna
  PROVE  Codes(Unbonded(dna, k)) = Codes(dna)
<1>1. Unbonded(dna, k) \in Seq(Codon) /\ Len(Unbonded(dna, k)) = Len(dna)
  BY UnbondedDna
<1>2. DOMAIN Unbonded(dna, k) = 1..Len(dna) /\ DOMAIN dna = 1..Len(dna)
  BY <1>1
<1>3. \A i \in 1..Len(dna) : Unbonded(dna, k)[i].code = dna[i].code
  BY UnbondedDna
<1> QED
  BY <1>2, <1>3 DEF Codes

\* A mutation brings in at most the instruction it draws.
LEMMA MutantCodes ==
  ASSUME NEW dna \in Seq(Codon), NEW idx \in DOMAIN dna, NEW x \in Code
  PROVE  /\ Codes(InsertPrev(dna, idx, x)) \subseteq Codes(dna) \cup {x}
         /\ Codes(InsertNext(dna, idx, x)) \subseteq Codes(dna) \cup {x}
         /\ Codes(Modify(dna, idx, x)) \subseteq Codes(dna) \cup {x}
         /\ Codes(Remove(dna, idx)) \subseteq Codes(dna)
<1>1. DOMAIN dna = 1..Len(dna) /\ Len(dna) \in Nat /\ idx \in 1..Len(dna)
  OBVIOUS
<1>2. \A i \in 1..Len(dna) : dna[i] \in Codon
  OBVIOUS
<1>3. \A i \in 1..Len(dna) : Unbuffered(dna[i]).code \in Codes(dna)
  BY <1>1, <1>2, UnbufferedCodon DEF Codes
<1>4. Drawn(x).code = x
  BY DrawnCodon
<1>5. Codes(InsertPrev(dna, idx, x)) \subseteq Codes(dna) \cup {x}
  <2> DEFINE d == InsertPrev(dna, idx, x)
  <2>1. DOMAIN d = 1..Len(dna) + 1
    BY DEF InsertPrev
  <2>2. ASSUME NEW j \in 1..Len(dna) + 1
        PROVE  d[j].code \in Codes(dna) \cup {x}
    <3>1. j < idx => d[j] = Unbuffered(dna[j])
      BY <1>1 DEF InsertPrev
    <3>2. j = idx => d[j] = Drawn(x)
      BY <1>1 DEF InsertPrev
    <3>3. j > idx => d[j] = Unbuffered(dna[j - 1])
      BY <1>1 DEF InsertPrev
    <3>4. (j < idx => j \in 1..Len(dna)) /\ (j > idx => j - 1 \in 1..Len(dna))
      BY <1>1
    <3> HIDE DEF d
    <3> QED
      BY <1>1, <1>3, <1>4, <3>1, <3>2, <3>3, <3>4
  <2> QED
    BY <2>1, <2>2, CodesWithin
<1>6. Codes(InsertNext(dna, idx, x)) \subseteq Codes(dna) \cup {x}
  <2> DEFINE d == InsertNext(dna, idx, x)
  <2>1. DOMAIN d = 1..Len(dna) + 1
    BY DEF InsertNext
  <2>2. ASSUME NEW j \in 1..Len(dna) + 1
        PROVE  d[j].code \in Codes(dna) \cup {x}
    <3>1. j <= idx => d[j] = Unbuffered(dna[j])
      BY <1>1 DEF InsertNext
    <3>2. j = idx + 1 => d[j] = Drawn(x)
      BY <1>1 DEF InsertNext
    <3>3. j > idx + 1 => d[j] = Unbuffered(dna[j - 1])
      BY <1>1 DEF InsertNext
    <3>4. (j <= idx => j \in 1..Len(dna)) /\ (j > idx + 1 => j - 1 \in 1..Len(dna))
      BY <1>1
    <3> HIDE DEF d
    <3> QED
      BY <1>1, <1>3, <1>4, <3>1, <3>2, <3>3, <3>4
  <2> QED
    BY <2>1, <2>2, CodesWithin
<1>7. Codes(Modify(dna, idx, x)) \subseteq Codes(dna) \cup {x}
  <2> DEFINE d == Modify(dna, idx, x)
  <2>1. DOMAIN d = 1..Len(dna)
    BY DEF Modify
  <2>2. ASSUME NEW j \in 1..Len(dna)
        PROVE  d[j].code \in Codes(dna) \cup {x}
    <3>1. j = idx => d[j] = Drawn(x)
      BY <1>1 DEF Modify
    <3>2. j # idx => d[j] = Unbuffered(dna[j])
      BY <1>1 DEF Modify
    <3> HIDE DEF d
    <3> QED
      BY <1>1, <1>3, <1>4, <3>1, <3>2
  <2> QED
    BY <2>1, <2>2, CodesWithin
<1>8. Codes(Remove(dna, idx)) \subseteq Codes(dna)
  <2> DEFINE d == Remove(dna, idx)
  <2>1. DOMAIN d = 1..Len(dna) - 1
    BY DEF Remove
  <2>2. ASSUME NEW j \in 1..Len(dna) - 1
        PROVE  d[j].code \in Codes(dna)
    <3>1. j < idx => d[j] = Unbuffered(dna[j])
      BY <1>1 DEF Remove
    <3>2. j >= idx => d[j] = Unbuffered(dna[j + 1])
      BY <1>1 DEF Remove
    <3>3. (j < idx => j \in 1..Len(dna)) /\ (j >= idx => j + 1 \in 1..Len(dna))
      BY <1>1
    <3> HIDE DEF d
    <3> QED
      BY <1>1, <1>3, <3>1, <3>2, <3>3
  <2> QED
    BY <2>1, <2>2, CodesWithin
<1> QED
  BY <1>5, <1>6, <1>7, <1>8

-----------------------------------------------------------------------------
(* Which mutations the codons of a DNA forbid *)

\* The flags of the codons of a DNA.
FlagSets(dna) == {dna[i].dis : i \in DOMAIN dna}

LEMMA FlagsWithin ==
  ASSUME NEW dna, NEW all, \A i \in DOMAIN dna : dna[i].dis \in all
  PROVE  FlagSets(dna) \subseteq all
BY DEF FlagSets

\* The codon that a mutation brings in has no flag, the others keep theirs.
LEMMA MutantFlags ==
  ASSUME NEW dna \in Seq(Codon), NEW idx \in DOMAIN dna, NEW x \in Code
  PROVE  /\ FlagSets(InsertPrev(dna, idx, x)) \subseteq FlagSets(dna) \cup {{}}
         /\ FlagSets(InsertNext(dna, idx, x)) \subseteq FlagSets(dna) \cup {{}}
         /\ FlagSets(Modify(dna, idx, x)) \subseteq FlagSets(dna) \cup {{}}
         /\ FlagSets(Remove(dna, idx)) \subseteq FlagSets(dna)
<1>1. DOMAIN dna = 1..Len(dna) /\ Len(dna) \in Nat /\ idx \in 1..Len(dna)
  OBVIOUS
<1>2. \A i \in 1..Len(dna) : dna[i] \in Codon
  OBVIOUS
<1>3. \A i \in 1..Len(dna) : Unbuffered(dna[i]).dis \in FlagSets(dna)
  BY <1>1, <1>2, UnbufferedCodon DEF FlagSets
<1>4. Drawn(x).dis = {}
  BY DEF Drawn
<1>5. FlagSets(InsertPrev(dna, idx, x)) \subseteq FlagSets(dna) \cup {{}}
  <2> DEFINE d == InsertPrev(dna, idx, x)
  <2>1. DOMAIN d = 1..Len(dna) + 1
    BY DEF InsertPrev
  <2>2. ASSUME NEW j \in 1..Len(dna) + 1
        PROVE  d[j].dis \in FlagSets(dna) \cup {{}}
    <3>1. j < idx => d[j] = Unbuffered(dna[j])
      BY <1>1 DEF InsertPrev
    <3>2. j = idx => d[j] = Drawn(x)
      BY <1>1 DEF InsertPrev
    <3>3. j > idx => d[j] = Unbuffered(dna[j - 1])
      BY <1>1 DEF InsertPrev
    <3>4. (j < idx => j \in 1..Len(dna)) /\ (j > idx => j - 1 \in 1..Len(dna))
      BY <1>1
    <3> HIDE DEF d
    <3> QED
      BY <1>1, <1>3, <1>4, <3>1, <3>2, <3>3, <3>4
  <2> QED
    BY <2>1, <2>2, FlagsWithin
<1>6. FlagSets(InsertNext(dna, idx, x)) \subseteq FlagSets(dna) \cup {{}}
  <2> DEFINE d == InsertNext(dna, idx, x)
  <2>1. DOMAIN d = 1..Len(dna) + 1
    BY DEF InsertNext
  <2>2. ASSUME NEW j \in 1..Len(dna) + 1
        PROVE  d[j].dis \in FlagSets(dna) \cup {{}}
    <3>1. j <= idx => d[j] = Unbuffered(dna[j])
      BY <1>1 DEF InsertNext
    <3>2. j = idx + 1 => d[j] = Drawn(x)
      BY <1>1 DEF InsertNext
    <3>3. j > idx + 1 => d[j] = Unbuffered(dna[j - 1])
      BY <1>1 DEF InsertNext
    <3>4. (j <= idx => j \in 1..Len(dna)) /\ (j > idx + 1 => j - 1 \in 1..Len(dna))
      BY <1>1
    <3> HIDE DEF d
    <3> QED
      BY <1>1, <1>3, <1>4, <3>1, <3>2, <3>3, <3>4
  <2> QED
    BY <2>1, <2>2, FlagsWithin
<1>7. FlagSets(Modify(dna, idx, x)) \subseteq FlagSets(dna) \cup {{}}
  <2> DEFINE d == Modify(dna, idx, x)
  <2>1. DOMAIN d = 1..Len(dna)
    BY DEF Modify
  <2>2. ASSUME NEW j \in 1..Len(dna)
        PROVE  d[j].dis \in FlagSets(dna) \cup {{}}
    <3>1. j = idx => d[j] = Drawn(x)
      BY <1>1 DEF Modify
    <3>2. j # idx => d[j] = Unbuffered(dna[j])
      BY <1>1 DEF Modify
    <3> HIDE DEF d
    <3> QED
      BY <1>1, <1>3, <1>4, <3>1, <3>2
  <2> QED
    BY <2>1, <2>2, FlagsWithin
<1>8. FlagSets(Remove(dna, idx)) \subseteq FlagSets(dna)
  <2> DEFINE d == Remove(dna, idx)
  <2>1. DOMAIN d = 1..Len(dna) - 1
    BY DEF Remove
  <2>2. ASSUME NEW j \in 1..Len(dna) - 1
        PROVE  d[j].dis \in FlagSets(dna)
    <3>1. j < idx => d[j] = Unbuffered(dna[j])
      BY <1>1 DEF Remove
    <3>2. j >= idx => d[j] = Unbuffered(dna[j + 1])
      BY <1>1 DEF Remove
    <3>3. (j < idx => j \in 1..Len(dna)) /\ (j >= idx => j + 1 \in 1..Len(dna))
      BY <1>1
    <3> HIDE DEF d
    <3> QED
      BY <1>1, <1>3, <3>1, <3>2, <3>3
  <2> QED
    BY <2>1, <2>2, FlagsWithin
<1> QED
  BY <1>5, <1>6, <1>7, <1>8

\* Copying changes no flag.
LEMMA ClearedFlags ==
  ASSUME NEW dna \in Seq(Codon)
  PROVE  FlagSets(Cleared(dna)) = FlagSets(dna)
<1>1. Cleared(dna) \in Seq(Codon) /\ Len(Cleared(dna)) = Len(dna)
  BY ClearedDna
<1>2. DOMAIN Cleared(dna) = 1..Len(dna) /\ DOMAIN dna = 1..Len(dna)
  BY <1>1
<1>3. \A i \in 1..Len(dna) : Cleared(dna)[i].dis = dna[i].dis
  BY ClearedDna
<1> QED
  BY <1>2, <1>3 DEF FlagSets

\* A codon that must be neither changed nor removed.
Anchored(dna) == \E i \in DOMAIN dna : {"mod", "rem"} \subseteq dna[i].dis

\* A copy has it.
LEMMA ClearedAnchor ==
  ASSUME NEW dna \in Seq(Codon), Anchored(dna)
  PROVE  Anchored(Cleared(dna))
<1>1. Cleared(dna) \in Seq(Codon) /\ Len(Cleared(dna)) = Len(dna)
  BY ClearedDna
<1>2. DOMAIN Cleared(dna) = 1..Len(dna) /\ DOMAIN dna = 1..Len(dna)
  BY <1>1
<1>3. \A i \in 1..Len(dna) : Cleared(dna)[i].dis = dna[i].dis
  BY ClearedDna
<1> QED
  BY <1>2, <1>3 DEF Anchored

\* So has every mutant.
LEMMA InsertAnchor ==
  ASSUME NEW dna \in Seq(Codon), Anchored(dna), NEW idx \in DOMAIN dna, NEW x
  PROVE  Anchored(InsertPrev(dna, idx, x)) /\ Anchored(InsertNext(dna, idx, x))
<1>1. PICK i \in DOMAIN dna : {"mod", "rem"} \subseteq dna[i].dis
  BY DEF Anchored
<1>2. Len(dna) \in Nat /\ i \in 1..Len(dna) /\ idx \in 1..Len(dna) /\ dna[i] \in Codon
  OBVIOUS
<1>3. Unbuffered(dna[i]).dis = dna[i].dis
  BY <1>2, UnbufferedCodon
<1>4. i \in 1..Len(dna) + 1 /\ i + 1 \in 1..Len(dna) + 1 /\ i + 1 - 1 = i
  BY <1>2
<1>5. Anchored(InsertPrev(dna, idx, x))
  <2> DEFINE d == InsertPrev(dna, idx, x)
  <2>1. DOMAIN d = 1..Len(dna) + 1
    BY DEF InsertPrev
  <2>2. CASE i < idx
    <3>1. d[i] = Unbuffered(dna[i])
      BY <1>4, <2>2 DEF InsertPrev
    <3> HIDE DEF d
    <3> QED
      BY <1>1, <1>3, <1>4, <2>1, <3>1 DEF Anchored, d
  <2>3. CASE ~(i < idx)
    <3>1. d[i + 1] = Unbuffered(dna[i])
      <4>1. ~(i + 1 < idx) /\ i + 1 # idx
        BY <1>2, <2>3
      <4> QED
        BY <1>4, <4>1 DEF InsertPrev
    <3> HIDE DEF d
    <3> QED
      BY <1>1, <1>3, <1>4, <2>1, <3>1 DEF Anchored, d
  <2> QED
    BY <2>2, <2>3
<1>6. Anchored(InsertNext(dna, idx, x))
  <2> DEFINE d == InsertNext(dna, idx, x)
  <2>1. DOMAIN d = 1..Len(dna) + 1
    BY DEF InsertNext
  <2>2. CASE i <= idx
    <3>1. d[i] = Unbuffered(dna[i])
      BY <1>4, <2>2 DEF InsertNext
    <3> HIDE DEF d
    <3> QED
      BY <1>1, <1>3, <1>4, <2>1, <3>1 DEF Anchored, d
  <2>3. CASE ~(i <= idx)
    <3>1. d[i + 1] = Unbuffered(dna[i])
      <4>1. ~(i + 1 <= idx) /\ i + 1 # idx + 1
        BY <1>2, <2>3
      <4> QED
        BY <1>4, <4>1 DEF InsertNext
    <3> HIDE DEF d
    <3> QED
      BY <1>1, <1>3, <1>4, <2>1, <3>1 DEF Anchored, d
  <2> QED
    BY <2>2, <2>3
<1> QED
  BY <1>5, <1>6

LEMMA ModifyAnchor ==
  ASSUME NEW dna \in Seq(Codon), Anchored(dna), NEW idx \in Allowing(dna, "mod"), NEW x
  PROVE  Anchored(Modify(dna, idx, x))
<1>1. PICK i \in DOMAIN dna : {"mod", "rem"} \subseteq dna[i].dis
  BY DEF Anchored
<1>2. i \in 1..Len(dna) /\ dna[i] \in Codon /\ i # idx
  BY <1>1 DEF Allowing
<1>3. Unbuffered(dna[i]).dis = dna[i].dis
  BY <1>2, UnbufferedCodon
<1>4. DOMAIN Modify(dna, idx, x) = 1..Len(dna) /\ Modify(dna, idx, x)[i] = Unbuffered(dna[i])
  BY <1>2 DEF Modify
<1> QED
  BY <1>1, <1>2, <1>3, <1>4 DEF Anchored

LEMMA RemoveAnchor ==
  ASSUME NEW dna \in Seq(Codon), Anchored(dna), NEW idx \in Allowing(dna, "rem")
  PROVE  Anchored(Remove(dna, idx))
<1>1. PICK i \in DOMAIN dna : {"mod", "rem"} \subseteq dna[i].dis
  BY DEF Anchored
<1>2. /\ Len(dna) \in Nat /\ i \in 1..Len(dna) /\ idx \in 1..Len(dna)
      /\ dna[i] \in Codon /\ i # idx
  BY <1>1 DEF Allowing
<1>3. Unbuffered(dna[i]).dis = dna[i].dis
  BY <1>2, UnbufferedCodon
<1> DEFINE d == Remove(dna, idx)
<1>4. DOMAIN d = 1..Len(dna) - 1
  BY DEF Remove
<1>5. CASE i < idx
  <2>1. i \in 1..Len(dna) - 1
    BY <1>2, <1>5
  <2>2. d[i] = Unbuffered(dna[i])
    BY <1>5, <2>1 DEF Remove
  <2> HIDE DEF d
  <2> QED
    BY <1>1, <1>3, <1>4, <2>1, <2>2 DEF Anchored, d
<1>6. CASE ~(i < idx)
  <2>1. i - 1 \in 1..Len(dna) - 1 /\ ~(i - 1 < idx) /\ i - 1 + 1 = i
    BY <1>2, <1>6
  <2>2. d[i - 1] = Unbuffered(dna[i])
    BY <2>1 DEF Remove
  <2> HIDE DEF d
  <2> QED
    BY <1>1, <1>3, <1>4, <2>1, <2>2 DEF Anchored, d
<1> QED
  BY <1>5, <1>6

-----------------------------------------------------------------------------
(* What a child can be *)

\* A copy has no compound bonded.
LEMMA ClearedFresh ==
  ASSUME NEW dna \in Seq(Codon)
  PROVE  \A j \in DOMAIN Cleared(dna) : ~Cleared(dna)[j].buffered
<1>1. \A j \in DOMAIN dna : dna[j] \in Codon
  OBVIOUS
<1> QED
  BY <1>1, UnbufferedCodon DEF Cleared

\* Nor has what a mutation returns.
LEMMA MutantFresh ==
  ASSUME NEW dna \in Seq(Codon), NEW idx \in DOMAIN dna, NEW x \in Code
  PROVE  /\ \A j \in DOMAIN InsertPrev(dna, idx, x) : ~InsertPrev(dna, idx, x)[j].buffered
         /\ \A j \in DOMAIN InsertNext(dna, idx, x) : ~InsertNext(dna, idx, x)[j].buffered
         /\ \A j \in DOMAIN Modify(dna, idx, x) : ~Modify(dna, idx, x)[j].buffered
         /\ \A j \in DOMAIN Remove(dna, idx) : ~Remove(dna, idx)[j].buffered
<1>1. /\ Len(dna) \in Nat /\ idx \in 1..Len(dna) /\ DOMAIN dna = 1..Len(dna)
      /\ \A j \in 1..Len(dna) : dna[j] \in Codon
  OBVIOUS
<1>2. \A j \in 1..Len(dna) : ~Unbuffered(dna[j]).buffered
  BY <1>1, UnbufferedCodon
<1>3. ~Drawn(x).buffered
  BY DEF Drawn
<1> HIDE DEF Unbuffered, Drawn
<1>5. \A j \in DOMAIN InsertPrev(dna, idx, x) : ~InsertPrev(dna, idx, x)[j].buffered
  BY <1>1, <1>2, <1>3 DEF InsertPrev
<1>6. \A j \in DOMAIN InsertNext(dna, idx, x) : ~InsertNext(dna, idx, x)[j].buffered
  BY <1>1, <1>2, <1>3 DEF InsertNext
<1>7. \A j \in DOMAIN Modify(dna, idx, x) : ~Modify(dna, idx, x)[j].buffered
  BY <1>1, <1>2, <1>3 DEF Modify
<1>8. \A j \in DOMAIN Remove(dna, idx) : ~Remove(dna, idx)[j].buffered
  BY <1>1, <1>2 DEF Remove
<1> QED
  BY <1>5, <1>6, <1>7, <1>8

\* A new life is a value of the unsigned integer.
LEMMA LifeOfWord ==
  ASSUME NEW n \in Nat
  PROVE  LifeOf(n) \in 0..Word-1
<1>1. LifeSlope * n - LifeOffset \in Int
  BY DnaAssumption
<1> QED
  BY <1>1, DnaAssumption DEF LifeOf

\* The DNA a child of a cell with this DNA can have.
NewDnas(dna, all, growing) ==
  {Cleared(dna)} \cup Modifications(dna, all) \cup Removals(dna)
    \cup (IF growing THEN Insertions(dna, all) ELSE {})

\* It is longer only by an insertion, it is made of the instructions of the
\* parent and of the list, and it holds no compound.
LEMMA NewDna ==
  ASSUME NEW dna \in Seq(Codon), NEW all \in SUBSET Code, NEW growing,
         NEW d \in NewDnas(dna, all, growing)
  PROVE  /\ d \in Seq(Codon)
         /\ Len(d) <= Len(dna) + 1 /\ (growing \/ Len(d) <= Len(dna))
         /\ Codes(d) \subseteq Codes(dna) \cup all
         /\ \A j \in DOMAIN d : ~d[j].buffered
<1>0. Len(dna) \in Nat /\ \A i \in DOMAIN dna : dna[i].code \in Code
  <2>1. \A i \in DOMAIN dna : dna[i] \in Codon
    OBVIOUS
  <2> QED
    BY <2>1 DEF Codon
<1>1. CASE d = Cleared(dna)
  BY <1>0, <1>1, ClearedDna, ClearedCodes, ClearedFresh
<1>2. CASE d \in Modifications(dna, all)
  <2>1. PICK i \in DOMAIN dna, x \in all : d = Modify(dna, i, x)
    BY <1>2 DEF Modifications, Allowing
  <2>2. x \in Code
    BY <2>1
  <2>3. d \in Seq(Codon) /\ Len(d) = Len(dna)
    BY <2>1, <2>2, ModifyDna
  <2>4. Codes(d) \subseteq Codes(dna) \cup {x}
    BY <2>1, <2>2, MutantCodes
  <2>5. \A j \in DOMAIN d : ~d[j].buffered
    BY <2>1, <2>2, MutantFresh
  <2> QED
    BY <1>0, <2>1, <2>3, <2>4, <2>5
<1>3. CASE d \in Removals(dna)
  <2>1. PICK i \in DOMAIN dna : d = Remove(dna, i)
    BY <1>3 DEF Removals, Allowing
  <2>2. dna[i].code \in Code
    BY <1>0, <2>1
  <2>3. d \in Seq(Codon) /\ Len(d) = Len(dna) - 1
    BY <2>1, RemoveDna
  <2>4. Codes(d) \subseteq Codes(dna)
    BY <2>1, <2>2, MutantCodes
  <2>5. \A j \in DOMAIN d : ~d[j].buffered
    BY <2>1, <2>2, MutantFresh
  <2> QED
    BY <1>0, <2>3, <2>4, <2>5
<1>4. CASE growing /\ d \in Insertions(dna, all)
  <2>1. PICK i \in DOMAIN dna, x \in all : d = InsertPrev(dna, i, x) \/ d = InsertNext(dna, i, x)
    BY <1>4 DEF Insertions, Allowing
  <2>2. CASE d = InsertPrev(dna, i, x)
    <3>1. x \in Code
      BY <2>1
    <3>2. d \in Seq(Codon) /\ Len(d) = Len(dna) + 1
      BY <2>2, <3>1, InsertPrevDna
    <3>3. Codes(d) \subseteq Codes(dna) \cup {x}
      BY <2>2, <3>1, MutantCodes
    <3>4. \A j \in DOMAIN d : ~d[j].buffered
      BY <2>2, <3>1, MutantFresh
    <3> QED
      BY <1>0, <1>4, <2>1, <3>2, <3>3, <3>4
  <2>3. CASE d = InsertNext(dna, i, x)
    <3>1. x \in Code
      BY <2>1
    <3>2. d \in Seq(Codon) /\ Len(d) = Len(dna) + 1
      BY <2>3, <3>1, InsertNextDna
    <3>3. Codes(d) \subseteq Codes(dna) \cup {x}
      BY <2>3, <3>1, MutantCodes
    <3>4. \A j \in DOMAIN d : ~d[j].buffered
      BY <2>3, <3>1, MutantFresh
    <3> QED
      BY <1>0, <1>4, <2>1, <3>2, <3>3, <3>4
  <2> QED
    BY <2>1, <2>2, <2>3
<1> QED
  BY <1>1, <1>2, <1>3, <1>4 DEF NewDnas

\* division() makes a child of one of these, with the life of its length or,
\* when nothing mutated, of its parent.
LEMMA ChildOfDna ==
  ASSUME NEW c, NEW all, NEW growing, NEW child \in Children(c, all, growing)
  PROVE  \E d, life :
           /\ d \in NewDnas(c.dna, all, growing)
           /\ child = Child(c, d, life) /\ (life = c.life \/ life = LifeOf(Len(d)))
BY DEF Children, Copies, Mutants, NewDnas

\* The tail of the parent is the tail of the child.
LEMMA NewDnaTail ==
  ASSUME NEW tail \in Seq(Gene), SealsTail(tail),
         NEW dna \in Seq(Codon), EndsWith(dna, tail),
         NEW all \in SUBSET Code, NEW growing, NEW d \in NewDnas(dna, all, growing)
  PROVE  EndsWith(d, tail)
<1>1. CASE d = Cleared(dna)
  <2>1. Cleared(dna) \in Seq(Codon) /\ Len(Cleared(dna)) = Len(dna)
    BY ClearedDna
  <2>2. \A k \in 1..Len(tail) : Len(dna) - Len(tail) + k \in 1..Len(dna)
    BY DEF EndsWith
  <2>3. \A k \in 1..Len(tail) :
          /\ Cleared(dna)[Len(dna) - Len(tail) + k].code = dna[Len(dna) - Len(tail) + k].code
          /\ Cleared(dna)[Len(dna) - Len(tail) + k].dis = dna[Len(dna) - Len(tail) + k].dis
    BY <2>2, ClearedDna
  <2> QED
    BY <1>1, <2>1, <2>3 DEF EndsWith
<1>2. CASE d \in Modifications(dna, all)
  <2>1. PICK i \in Allowing(dna, "mod"), x \in all : d = Modify(dna, i, x)
    BY <1>2 DEF Modifications
  <2> QED
    BY <2>1, ModifyTail
<1>3. CASE d \in Removals(dna)
  <2>1. PICK i \in Allowing(dna, "rem") : d = Remove(dna, i)
    BY <1>3 DEF Removals
  <2> QED
    BY <2>1, RemoveTail
<1>4. CASE growing /\ d \in Insertions(dna, all)
  <2>1. CASE \E i \in Allowing(dna, "insp"), x \in all : d = InsertPrev(dna, i, x)
    BY <2>1, InsertPrevTail
  <2>2. CASE \E i \in Allowing(dna, "insn"), x \in all : d = InsertNext(dna, i, x)
    BY <2>2, InsertNextTail
  <2> QED
    BY <1>4, <2>1, <2>2 DEF Insertions
<1> QED
  BY <1>1, <1>2, <1>3, <1>4 DEF NewDnas

\* A child has no flags but those of its parent, and keeps the codons that must
\* be neither changed nor removed.
LEMMA NewDnaFlags ==
  ASSUME NEW dna \in Seq(Codon), NEW all \in SUBSET Code, NEW growing,
         NEW d \in NewDnas(dna, all, growing)
  PROVE  /\ FlagSets(d) \subseteq FlagSets(dna) \cup {{}}
         /\ Anchored(dna) => Anchored(d)
<1>1. CASE d = Cleared(dna)
  BY <1>1, ClearedFlags, ClearedAnchor
<1>2. CASE d \in Modifications(dna, all)
  <2>1. PICK i \in Allowing(dna, "mod"), x \in all : d = Modify(dna, i, x)
    BY <1>2 DEF Modifications
  <2>2. i \in DOMAIN dna /\ x \in Code
    BY <2>1 DEF Allowing
  <2> QED
    BY <2>1, <2>2, MutantFlags, ModifyAnchor
<1>3. CASE d \in Removals(dna)
  <2>1. PICK i \in Allowing(dna, "rem") : d = Remove(dna, i)
    BY <1>3 DEF Removals
  <2>2. i \in DOMAIN dna /\ dna[i] \in Codon /\ dna[i].code \in Code
    <3>1. i \in DOMAIN dna
      BY <2>1 DEF Allowing
    <3>2. dna[i] \in Codon
      BY <3>1
    <3> QED
      BY <3>1, <3>2 DEF Codon
  <2>3. FlagSets(d) \subseteq FlagSets(dna)
    BY <2>1, <2>2, MutantFlags
  <2> QED
    BY <2>1, <2>3, RemoveAnchor
<1>4. CASE growing /\ d \in Insertions(dna, all)
  <2>1. PICK i \in DOMAIN dna, x \in all : d = InsertPrev(dna, i, x) \/ d = InsertNext(dna, i, x)
    BY <1>4 DEF Insertions, Allowing
  <2>2. x \in Code
    BY <2>1
  <2> QED
    BY <2>1, <2>2, MutantFlags, InsertAnchor
<1> QED
  BY <1>1, <1>2, <1>3, <1>4 DEF NewDnas

-----------------------------------------------------------------------------
(***************************************************************************)
(* Each mutation is one edit of the protein in the sense of the sequence   *)
(* operators of the community modules (SequencesExt).                      *)
(***************************************************************************)

\* Sequences of the same length with the same elements are equal.
LEMMA SameSeq ==
  ASSUME NEW S, NEW s \in Seq(S), NEW t \in Seq(S), Len(s) = Len(t),
         \A k \in 1..Len(s) : s[k] = t[k]
  PROVE  s = t
<1>1. s \in [1..Len(s) -> S] /\ t \in [1..Len(s) -> S]
  OBVIOUS
<1> QED
  BY <1>1

\* What the removal of one element returns.
LEMMA RemoveAtSeq ==
  ASSUME NEW S, NEW s \in Seq(S), NEW i \in 1..Len(s)
  PROVE  /\ SeqX!RemoveAt(s, i) \in Seq(S)
         /\ Len(SeqX!RemoveAt(s, i)) = Len(s) - 1
         /\ \A k \in 1..Len(s) - 1 :
              SeqX!RemoveAt(s, i)[k] = IF k < i THEN s[k] ELSE s[k + 1]
<1> DEFINE a == SubSeq(s, 1, i - 1)
           b == SubSeq(s, i + 1, Len(s))
<1>0. Len(s) \in Nat /\ \A k \in 1..Len(s) : s[k] \in S
  OBVIOUS
<1>1. /\ a \in Seq(S)
      /\ Len(a) = i - 1
      /\ \A k \in 1..i - 1 : a[k] = s[k]
  <2>1. \A k \in 1..i - 1 : s[k] \in S
    BY <1>0
  <2>2. /\ a \in Seq(S)
        /\ Len(a) = IF 1 <= i - 1 THEN i - 1 - 1 + 1 ELSE 0
        /\ \A k \in 1..i - 1 - 1 + 1 : a[k] = s[1 + k - 1]
    BY <1>0, <2>1, SubSeqProperties
  <2> HIDE DEF a
  <2>3. Len(a) = i - 1
    BY <1>0, <2>2
  <2>4. \A k \in 1..i - 1 : k \in 1..i - 1 - 1 + 1 /\ 1 + k - 1 = k
    BY <1>0
  <2> QED
    BY <2>2, <2>3, <2>4
<1>2. /\ b \in Seq(S)
      /\ Len(b) = Len(s) - i
      /\ \A k \in 1..Len(s) - i : b[k] = s[i + k]
  <2>1. \A k \in i + 1..Len(s) : s[k] \in S
    BY <1>0
  <2>2. /\ b \in Seq(S)
        /\ Len(b) = IF i + 1 <= Len(s) THEN Len(s) - (i + 1) + 1 ELSE 0
        /\ \A k \in 1..Len(s) - (i + 1) + 1 : b[k] = s[i + 1 + k - 1]
    BY <1>0, <2>1, SubSeqProperties
  <2> HIDE DEF b
  <2>3. Len(b) = Len(s) - i
    BY <1>0, <2>2
  <2>4. \A k \in 1..Len(s) - i : k \in 1..Len(s) - (i + 1) + 1 /\ i + 1 + k - 1 = i + k
    BY <1>0
  <2> QED
    BY <2>2, <2>3, <2>4
<1>3. SeqX!RemoveAt(s, i) = a \o b
  BY DEF SeqX!RemoveAt
<1> HIDE DEF a, b
<1>4. /\ a \o b \in Seq(S)
      /\ Len(a \o b) = Len(a) + Len(b)
      /\ \A k \in 1..Len(a) + Len(b) :
           (a \o b)[k] = IF k <= Len(a) THEN a[k] ELSE b[k - Len(a)]
  BY <1>1, <1>2, ConcatProperties
<1>5. \A k \in 1..Len(s) - 1 : (a \o b)[k] = IF k < i THEN s[k] ELSE s[k + 1]
  <2> SUFFICES ASSUME NEW k \in 1..Len(s) - 1
               PROVE  (a \o b)[k] = IF k < i THEN s[k] ELSE s[k + 1]
    OBVIOUS
  <2>1. CASE k < i
    BY <1>0, <1>1, <1>2, <1>4, <2>1
  <2>2. CASE ~(k < i)
    <3>1. (a \o b)[k] = b[k - (i - 1)]
      BY <1>0, <1>1, <1>2, <1>4, <2>2
    <3>2. k - (i - 1) \in 1..Len(s) - i /\ i + (k - (i - 1)) = k + 1
      BY <1>0, <2>2
    <3>3. b[k - (i - 1)] = s[i + (k - (i - 1))]
      BY <1>2, <3>2
    <3> QED
      BY <2>2, <3>1, <3>2, <3>3
  <2> QED
    BY <2>1, <2>2
<1>6. Len(a \o b) = Len(s) - 1
  BY <1>0, <1>1, <1>2, <1>4
<1> QED
  BY <1>3, <1>4, <1>5, <1>6

-----------------------------------------------------------------------------

\* The protein of a DNA is the list of its instructions, element by element.
LEMMA ProteinAt ==
  ASSUME NEW dna \in Seq(Codon)
  PROVE  /\ Protein(dna) \in Seq(Code)
         /\ Len(Protein(dna)) = Len(dna)
         /\ \A k \in 1..Len(dna) : Protein(dna)[k] = dna[k].code
         /\ \A k \in 1..Len(dna) : Unbuffered(dna[k]).code = dna[k].code
<1>1. \A k \in 1..Len(dna) : dna[k] \in Codon /\ k \in DOMAIN dna
  OBVIOUS
<1>2. \A k \in 1..Len(dna) : Protein(dna)[k] = dna[k].code
  BY <1>1 DEF Protein
<1> QED
  BY <1>1, <1>2, ProteinSeq, UnbufferedCodon

\* Copying, bonding and letting a compound go do not change the protein a DNA
\* stands for.
LEMMA SameProtein ==
  ASSUME NEW dna \in Seq(Codon)
  PROVE  /\ Protein(Cleared(dna)) = Protein(dna)
         /\ \A i \in DOMAIN dna : Protein(Bonded(dna, i)) = Protein(dna)
         /\ \A i \in DOMAIN dna : Protein(Unbonded(dna, i)) = Protein(dna)
<1>1. Protein(Cleared(dna)) = Protein(dna)
  <2>1. /\ Cleared(dna) \in Seq(Codon)
        /\ Len(Cleared(dna)) = Len(dna)
        /\ \A k \in 1..Len(dna) : Cleared(dna)[k].code = dna[k].code
    BY ClearedDna
  <2> QED
    BY <2>1, ProteinAt, SameSeq
<1>2. ASSUME NEW i \in DOMAIN dna
      PROVE  Protein(Bonded(dna, i)) = Protein(dna)
  <2>1. /\ Bonded(dna, i) \in Seq(Codon)
        /\ Len(Bonded(dna, i)) = Len(dna)
        /\ \A k \in 1..Len(dna) : Bonded(dna, i)[k].code = dna[k].code
    BY BondedDna
  <2> QED
    BY <2>1, ProteinAt, SameSeq
<1>3. ASSUME NEW i \in DOMAIN dna
      PROVE  Protein(Unbonded(dna, i)) = Protein(dna)
  <2>1. /\ Unbonded(dna, i) \in Seq(Codon)
        /\ Len(Unbonded(dna, i)) = Len(dna)
        /\ \A k \in 1..Len(dna) : Unbonded(dna, i)[k].code = dna[k].code
    BY UnbondedDna
  <2> QED
    BY <2>1, ProteinAt, SameSeq
<1> QED
  BY <1>1, <1>2, <1>3

\* A change replaces one instruction of the protein the DNA stands for.
LEMMA ModifyEdit ==
  ASSUME NEW dna \in Seq(Codon), NEW i \in DOMAIN dna, NEW x \in Code
  PROVE  Protein(Modify(dna, i, x)) = SeqX!ReplaceAt(Protein(dna), i, x)
<1> DEFINE d == Modify(dna, i, x)
           p == Protein(dna)
           e == [p EXCEPT ![i] = x]
<1>1. d \in Seq(Codon) /\ Len(d) = Len(dna)
  BY ModifyDna
<1>2. p \in Seq(Code) /\ Len(p) = Len(dna) /\ i \in 1..Len(dna)
  BY ProteinAt
<1>3. e \in Seq(Code) /\ Len(e) = Len(dna)
        /\ \A k \in 1..Len(dna) : e[k] = IF k = i THEN x ELSE p[k]
  <2> HIDE DEF p
  <2> QED
    BY <1>2
<1>4. \A k \in 1..Len(dna) : d[k].code = e[k]
  <2> SUFFICES ASSUME NEW k \in 1..Len(dna)
               PROVE  d[k].code = e[k]
    OBVIOUS
  <2>1. d[k] = IF k = i THEN Drawn(x) ELSE Unbuffered(dna[k])
    BY DEF Modify
  <2> HIDE DEF d, e, p
  <2>2. p[k] = dna[k].code /\ Unbuffered(dna[k]).code = dna[k].code
    BY ProteinAt DEF p
  <2> QED
    BY <1>3, <2>1, <2>2, DrawnCodon
<1>5. Protein(d) = e
  <2> HIDE DEF d, e
  <2> QED
    BY <1>1, <1>3, <1>4, ProteinAt, SameSeq
<1> QED
  BY <1>5 DEF SeqX!ReplaceAt

\* A removal removes one.
LEMMA RemoveEdit ==
  ASSUME NEW dna \in Seq(Codon), NEW i \in DOMAIN dna
  PROVE  Protein(Remove(dna, i)) = SeqX!RemoveAt(Protein(dna), i)
<1> DEFINE d == Remove(dna, i)
           p == Protein(dna)
           e == SeqX!RemoveAt(p, i)
<1>0. i \in 1..Len(dna) /\ Len(dna) \in Nat
  OBVIOUS
<1>1. d \in Seq(Codon) /\ Len(d) = Len(dna) - 1
  BY RemoveDna
<1>2. p \in Seq(Code) /\ Len(p) = Len(dna)
        /\ \A k \in 1..Len(dna) : p[k] = dna[k].code /\ Unbuffered(dna[k]).code = dna[k].code
  BY ProteinAt
<1>3. e \in Seq(Code) /\ Len(e) = Len(dna) - 1
        /\ \A k \in 1..Len(dna) - 1 : e[k] = IF k < i THEN p[k] ELSE p[k + 1]
  <2> HIDE DEF p
  <2>1. i \in 1..Len(p) /\ Len(p) - 1 = Len(dna) - 1
    BY <1>0, <1>2
  <2> QED
    BY <1>2, <2>1, RemoveAtSeq
<1>4. \A k \in 1..Len(dna) - 1 : d[k].code = e[k]
  <2> SUFFICES ASSUME NEW k \in 1..Len(dna) - 1
               PROVE  d[k].code = e[k]
    OBVIOUS
  <2>1. d[k] = IF k < i THEN Unbuffered(dna[k]) ELSE Unbuffered(dna[k + 1])
    BY DEF Remove
  <2>2. k \in 1..Len(dna) /\ k + 1 \in 1..Len(dna)
    BY <1>0
  <2> HIDE DEF d, e, p
  <2> QED
    BY <1>2, <1>3, <2>1, <2>2
<1> HIDE DEF d, e, p
<1>5. Protein(d) = e
  BY <1>1, <1>3, <1>4, ProteinAt, SameSeq
<1> QED
  BY <1>5 DEF d, e, p

\* An insertion before a codon is undone by removing the new instruction.
LEMMA InsertPrevEdit ==
  ASSUME NEW dna \in Seq(Codon), NEW i \in DOMAIN dna, NEW x \in Code
  PROVE  /\ i \in 1..Len(Protein(InsertPrev(dna, i, x)))
         /\ SeqX!RemoveAt(Protein(InsertPrev(dna, i, x)), i) = Protein(dna)
<1> DEFINE d == InsertPrev(dna, i, x)
           p == Protein(dna)
           q == Protein(d)
           e == SeqX!RemoveAt(q, i)
<1>0. i \in 1..Len(dna) /\ Len(dna) \in Nat
  OBVIOUS
<1>1. d \in Seq(Codon) /\ Len(d) = Len(dna) + 1
  BY InsertPrevDna
<1>2. p \in Seq(Code) /\ Len(p) = Len(dna)
        /\ \A k \in 1..Len(dna) : p[k] = dna[k].code /\ Unbuffered(dna[k]).code = dna[k].code
  BY ProteinAt
<1>3. q \in Seq(Code) /\ Len(q) = Len(dna) + 1
        /\ \A k \in 1..Len(dna) + 1 : q[k] = d[k].code
  <2> HIDE DEF d
  <2> QED
    BY <1>1, ProteinAt
<1>4. e \in Seq(Code) /\ Len(e) = Len(dna)
        /\ \A k \in 1..Len(dna) : e[k] = IF k < i THEN q[k] ELSE q[k + 1]
  <2> HIDE DEF q
  <2>1. i \in 1..Len(q) /\ Len(q) - 1 = Len(dna)
    BY <1>0, <1>3
  <2> QED
    BY <1>3, <2>1, RemoveAtSeq
<1>5. \A k \in 1..Len(dna) : e[k] = p[k]
  <2> SUFFICES ASSUME NEW k \in 1..Len(dna)
               PROVE  e[k] = p[k]
    OBVIOUS
  <2>1. k < i => d[k] = Unbuffered(dna[k])
    BY <1>0 DEF InsertPrev
  <2>2. k >= i => d[k + 1] = Unbuffered(dna[k])
    BY <1>0 DEF InsertPrev
  <2>3. k \in 1..Len(dna) + 1 /\ k + 1 \in 1..Len(dna) + 1 /\ (k < i \/ k >= i)
    BY <1>0
  <2>4. k >= i => ~(k < i)
    BY <1>0
  <2> HIDE DEF d, e, p, q
  <2> QED
    BY <1>2, <1>3, <1>4, <2>1, <2>2, <2>3, <2>4
<1> HIDE DEF d, e, p, q
<1>6. e = p
  BY <1>2, <1>4, <1>5, SameSeq
<1>7. i \in 1..Len(q)
  BY <1>0, <1>3
<1> QED
  BY <1>6, <1>7 DEF d, e, p, q

\* So is an insertion after a codon.
LEMMA InsertNextEdit ==
  ASSUME NEW dna \in Seq(Codon), NEW i \in DOMAIN dna, NEW x \in Code
  PROVE  /\ i + 1 \in 1..Len(Protein(InsertNext(dna, i, x)))
         /\ SeqX!RemoveAt(Protein(InsertNext(dna, i, x)), i + 1) = Protein(dna)
<1> DEFINE d == InsertNext(dna, i, x)
           p == Protein(dna)
           q == Protein(d)
           e == SeqX!RemoveAt(q, i + 1)
<1>0. i \in 1..Len(dna) /\ Len(dna) \in Nat
  OBVIOUS
<1>1. d \in Seq(Codon) /\ Len(d) = Len(dna) + 1
  BY InsertNextDna
<1>2. p \in Seq(Code) /\ Len(p) = Len(dna)
        /\ \A k \in 1..Len(dna) : p[k] = dna[k].code /\ Unbuffered(dna[k]).code = dna[k].code
  BY ProteinAt
<1>3. q \in Seq(Code) /\ Len(q) = Len(dna) + 1
        /\ \A k \in 1..Len(dna) + 1 : q[k] = d[k].code
  <2> HIDE DEF d
  <2> QED
    BY <1>1, ProteinAt
<1>4. e \in Seq(Code) /\ Len(e) = Len(dna)
        /\ \A k \in 1..Len(dna) : e[k] = IF k < i + 1 THEN q[k] ELSE q[k + 1]
  <2> HIDE DEF q
  <2>1. i + 1 \in 1..Len(q) /\ Len(q) - 1 = Len(dna)
    BY <1>0, <1>3
  <2> QED
    BY <1>3, <2>1, RemoveAtSeq
<1>5. \A k \in 1..Len(dna) : e[k] = p[k]
  <2> SUFFICES ASSUME NEW k \in 1..Len(dna)
               PROVE  e[k] = p[k]
    OBVIOUS
  <2>1. k < i + 1 => d[k] = Unbuffered(dna[k])
    BY <1>0 DEF InsertNext
  <2>2. k >= i + 1 => d[k + 1] = Unbuffered(dna[k])
    BY <1>0 DEF InsertNext
  <2>3. k \in 1..Len(dna) + 1 /\ k + 1 \in 1..Len(dna) + 1 /\ (k < i + 1 \/ k >= i + 1)
    BY <1>0
  <2>4. k >= i + 1 => ~(k < i + 1)
    BY <1>0
  <2> HIDE DEF d, e, p, q
  <2> QED
    BY <1>2, <1>3, <1>4, <2>1, <2>2, <2>3, <2>4
<1> HIDE DEF d, e, p, q
<1>6. e = p
  BY <1>2, <1>4, <1>5, SameSeq
<1>7. i + 1 \in 1..Len(q)
  BY <1>0, <1>3
<1> QED
  BY <1>6, <1>7 DEF d, e, p, q

\* The protein of a parent is one edit away from the DNA of a child.
LEMMA NewDnaEdit ==
  ASSUME NEW dna \in Seq(Codon), NEW all \in SUBSET Code, NEW growing,
         NEW d \in NewDnas(dna, all, growing)
  PROVE  OneEdit(Protein(dna), Protein(d))
<1> DEFINE p == Protein(dna)
<1>1. p \in Seq(Code) /\ Len(p) = Len(dna) /\ DOMAIN dna = 1..Len(dna)
  BY ProteinAt
<1>2. CASE d = Cleared(dna)
  BY <1>2, SameProtein DEF OneEdit
<1>3. CASE d \in Modifications(dna, all)
  <2>1. PICK i \in DOMAIN dna, x \in all : d = Modify(dna, i, x)
    BY <1>3 DEF Modifications, Allowing
  <2>2. i \in 1..Len(p) /\ x \in Code
    BY <1>1, <2>1
  <2>3. Protein(d) = SeqX!ReplaceAt(p, i, x)
    BY <2>1, <2>2, ModifyEdit
  <2> HIDE DEF p
  <2>4. OneEdit(p, Protein(d))
    BY <2>2, <2>3 DEF OneEdit
  <2> QED
    BY <2>4 DEF p
<1>4. CASE d \in Removals(dna)
  <2>1. PICK i \in DOMAIN dna : d = Remove(dna, i)
    BY <1>4 DEF Removals, Allowing
  <2>2. i \in 1..Len(p)
    BY <1>1, <2>1
  <2>3. SeqX!RemoveAt(p, i) = Protein(d)
    BY <2>1, RemoveEdit
  <2> HIDE DEF p
  <2>4. OneEdit(p, Protein(d))
    BY <2>2, <2>3 DEF OneEdit
  <2> QED
    BY <2>4 DEF p
<1>5. CASE growing /\ d \in Insertions(dna, all)
  <2>1. PICK i \in DOMAIN dna, x \in all : d = InsertPrev(dna, i, x) \/ d = InsertNext(dna, i, x)
    BY <1>5 DEF Insertions, Allowing
  <2>2. \E k \in 1..Len(Protein(d)) : SeqX!RemoveAt(Protein(d), k) = p
    BY <2>1, InsertPrevEdit, InsertNextEdit
  <2> QED
    BY <2>2 DEF OneEdit
<1> QED
  BY <1>2, <1>3, <1>4, <1>5 DEF NewDnas
============================================================================
