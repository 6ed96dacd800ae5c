-------------------------- MODULE EcosystemProofs --------------------------
(***************************************************************************)
(* Theorems about Ecosystem, for every set of names and instructions,      *)
(* every protected tail, every population the user starts with and every   *)
(* bound.                                                                  *)
(***************************************************************************)
EXTENDS Ecosystem, DnaProofs, FiniteSetTheorems, SequenceTheorems

USE DnaAssumption, EcosystemAssumption, AbsentAssumption

\* The bound of the model on the length of a DNA holds.
DnaBound == \A n \in Living : Len(cells[n].dna) <= MaxDna

\* The inductive invariant: a new life is positive only while genomes are
\* bounded, and an insertion keeps the tail only if the parent has it.
IInv == TypeOK /\ DnaBound /\ TailIntact /\ LifeLeft

-----------------------------------------------------------------------------

\* The life of a mutant is a value of the unsigned integer, and not zero.
LEMMA LifeOfType ==
  ASSUME NEW n \in 0..MaxDna
  PROVE  LifeOf(n) \in 1..Word-1
<1>1. LifeOf(n) \in 0..Word-1
  <2>1. LifeSlope * n - LifeOffset \in Int
    OBVIOUS
  <2> QED
    BY <2>1 DEF LifeOf
<1> QED
  BY <1>1

\* A DNA that a mutation may give to a child of dna.
Heir(d) ==
  /\ d \in Seq(Codon)
  /\ Len(d) <= MaxDna
  /\ EndsWith(d, Tail0)

\* A copy is one, and what a mutation returns is.
LEMMA NewDnaHeir ==
  ASSUME NEW dna \in Seq(Codon), Len(dna) <= MaxDna, EndsWith(dna, Tail0),
         NEW all \in SUBSET Code, NEW growing \in BOOLEAN, growing => Len(dna) < MaxDna
  PROVE  \A d \in NewDnas(dna, all, growing) : Heir(d)
<1>0. Len(dna) \in Nat /\ MaxDna \in Nat /\ Tail0 \in Seq(Gene) /\ SealsTail(Tail0)
  OBVIOUS
<1>1. ASSUME NEW d \in NewDnas(dna, all, growing)
      PROVE  Heir(d)
  <2>1. d \in Seq(Codon) /\ Len(d) <= Len(dna) + 1 /\ (growing \/ Len(d) <= Len(dna))
    BY NewDna
  <2>2. Len(d) \in Nat
    BY <2>1
  <2>3. EndsWith(d, Tail0)
    BY <1>0, NewDnaTail
  <2> QED
    BY <1>0, <2>1, <2>2, <2>3 DEF Heir
<1> QED
  BY <1>1

\* Every child is a cell with an heir's DNA and a whole positive life, made of
\* the instructions of its parent and of the list, its protein near its DNA.
LEMMA ChildOfCell ==
  ASSUME NEW c \in Cell, NEW all \in SUBSET Code, NEW growing \in BOOLEAN,
         NEW child \in Children(c, all, growing)
  PROVE  /\ Codes(child.dna) \subseteq Codes(c.dna) \cup all
         /\ OneEdit(child.body, Protein(child.dna))
         /\ /\ Len(c.dna) <= MaxDna /\ EndsWith(c.dna, Tail0) /\ c.life # 0
            /\ growing => Len(c.dna) < MaxDna
            => child \in Cell /\ Heir(child.dna) /\ child.left \in 1..child.life
<1>0. c.dna \in Seq(Codon) /\ c.life \in 0..Word-1
  BY DEF Cell
<1>1. PICK d, life : /\ d \in NewDnas(c.dna, all, growing)
                     /\ child = Child(c, d, life) /\ (life = c.life \/ life = LifeOf(Len(d)))
  BY ChildOfDna
<1>2. d \in Seq(Codon) /\ Codes(d) \subseteq Codes(c.dna) \cup all
  BY <1>0, <1>1, NewDna
<1>3. child = [dna |-> d, body |-> Protein(c.dna), life |-> life, left |-> life]
  BY <1>1 DEF Child, Cell
<1>4. OneEdit(Protein(c.dna), Protein(d))
  BY <1>0, <1>1, NewDnaEdit
<1>5. ASSUME Len(c.dna) <= MaxDna, EndsWith(c.dna, Tail0), c.life # 0,
             growing => Len(c.dna) < MaxDna
      PROVE  child \in Cell /\ Heir(child.dna) /\ child.left \in 1..child.life
  <2>1. Heir(d)
    BY <1>0, <1>1, <1>5, NewDnaHeir
  <2>2. Len(d) \in 0..MaxDna
    BY <2>1 DEF Heir
  <2>3. life \in 1..Word-1
    BY <1>0, <1>1, <1>5, <2>2, LifeOfType
  <2>4. Protein(c.dna) \in Seq(Code)
    BY <1>0, ProteinSeq
  <2> QED
    BY <1>2, <1>3, <2>1, <2>3, <2>4 DEF Cell
<1> QED
  BY <1>2, <1>3, <1>4, <1>5

-----------------------------------------------------------------------------

\* The cells the user starts with satisfy the invariant.
LEMMA InitIInv == Init => IInv
<1> SUFFICES ASSUME Init
             PROVE  IInv
  OBVIOUS
<1>1. cells \in Colonies /\ code \in Stores /\ list = {} /\ brought = {}
  BY DEF Init
<1>2. TypeOK
  BY <1>1 DEF TypeOK
<1>3. ASSUME NEW n \in Living
      PROVE  Founder(cells[n])
  BY <1>1 DEF Living
<1> QED
  BY <1>2, <1>3 DEF IInv, DnaBound, TailIntact, LifeLeft, Founder

\* A step that replaces living cells by cells that satisfy the invariant's
\* parts keeps them all; every action is such a step.
CellOK(c) ==
  /\ c \in Cell
  /\ Len(c.dna) <= MaxDna
  /\ EndsWith(c.dna, Tail0)
  /\ c.left \in 1..c.life

LEMMA CellsOK ==
  ASSUME TypeOK
  PROVE  IInv <=> \A n \in Living : CellOK(cells[n])
BY DEF IInv, DnaBound, TailIntact, LifeLeft, CellOK, TypeOK, Living

\* The instructions of a DNA are instructions.
LEMMA CodesType ==
  ASSUME NEW dna \in Seq(Codon)
  PROVE  Codes(dna) \subseteq Code
<1>1. \A i \in DOMAIN dna : dna[i] \in Codon
  OBVIOUS
<1> QED
  BY <1>1 DEF Codes, Codon

\* A death releases an instruction exactly if the DNA has it.
LEMMA RemainsPositive ==
  ASSUME NEW dna \in Seq(Codon), NEW x
  PROVE  Remains(dna, x) \in Nat /\ (Remains(dna, x) > 0 <=> x \in Codes(dna))
<1> DEFINE A == {i \in DOMAIN dna : dna[i].code = x}
           B == {i \in DOMAIN dna : dna[i].code = x /\ dna[i].buffered}
<1>1. IsFiniteSet(DOMAIN dna)
  <2>1. DOMAIN dna = 1..Len(dna) /\ 1 \in Int /\ Len(dna) \in Int
    OBVIOUS
  <2>2. IsFiniteSet(1..Len(dna))
    BY <2>1, FS_Interval
  <2> QED
    BY <2>1, <2>2
<1>2. IsFiniteSet(A) /\ IsFiniteSet(B)
  BY <1>1, FS_Subset
<1>3. Cardinality(A) \in Nat /\ Cardinality(B) \in Nat
  BY <1>2, FS_CardinalityType
<1>4. Cardinality(A) = 0 <=> A = {}
  BY <1>2, FS_EmptySet
<1>5. B \subseteq A /\ (x \in Codes(dna) <=> A # {})
  BY DEF Codes
<1>6. A = {} => Cardinality(B) = 0
  BY <1>2, <1>5, FS_EmptySet
<1>7. Remains(dna, x) = Cardinality(A) + Cardinality(B)
  BY DEF Remains
<1> HIDE DEF A, B
<1> QED
  BY <1>3, <1>4, <1>5, <1>6, <1>7

\* What is present is a set of instructions.
LEMMA PresentType ==
  ASSUME TypeOK
  PROVE  InDna \in SUBSET Code /\ Present \in SUBSET Code
<1>1. ASSUME NEW n \in Living
      PROVE  Codes(cells[n].dna) \subseteq Code
  <2>1. cells[n] \in Cell
    BY DEF TypeOK, Living
  <2>2. cells[n].dna \in Seq(Codon)
    BY <2>1 DEF Cell
  <2> QED
    BY <2>2, CodesType
<1> QED
  BY <1>1 DEF InDna, Present

\* One step preserves the invariant: one step of the proof per action.
LEMMA NextIInv == IInv /\ [Next]_vars => IInv'
<1> SUFFICES ASSUME IInv, [Next]_vars
             PROVE  IInv'
  OBVIOUS
<1>1. TypeOK /\ \A n \in Living : CellOK(cells[n])
  BY CellsOK DEF IInv
<1> DEFINE CellsGoal == \A n \in Name : cells'[n] # Absent => CellOK(cells'[n])
           Goal == /\ cells' \in [Name -> Cell \cup {Absent}]
                   /\ code' \in [Code -> Nat]
                   /\ list' \in SUBSET Code
                   /\ brought' \in SUBSET Code
                   /\ CellsGoal
<1>2. SUFFICES Goal
  BY DEF IInv, DnaBound, TailIntact, LifeLeft, CellOK, TypeOK, Living
<1> USE DEF TypeOK, Living
<1>3. CASE Refresh
  <2>1. Present \subseteq Code
    BY <1>1, PresentType
  <2> QED
    BY <1>1, <1>3, <2>1 DEF Refresh
<1>4. CASE Restart
  BY <1>1, <1>4 DEF Restart
<1>5. ASSUME NEW x \in Code, Supply(x)
      PROVE  Goal
  BY <1>1, <1>5 DEF Supply
<1>6. ASSUME NEW n \in Name, Bond(n)
      PROVE  Goal
  <2> DEFINE c == cells[n]
  <2>1. n \in Living /\ c \in Cell /\ CellOK(c)
    BY <1>1, <1>6 DEF Bond, CellOK
  <2>2. PICK x \in Code, i \in DOMAIN c.dna :
          /\ code[x] > 0
          /\ code' = [code EXCEPT ![x] = @ - 1]
          /\ cells' = [cells EXCEPT ![n].dna = Bonded(@, i)]
    BY <1>6 DEF Bond
  <2>3. c.dna \in Seq(Codon) /\ i \in 1..Len(c.dna)
    BY <2>1 DEF Cell
  <2> DEFINE b == [c EXCEPT !.dna = Bonded(c.dna, i)]
  <2>4. /\ Bonded(c.dna, i) \in Seq(Codon)
        /\ Len(Bonded(c.dna, i)) = Len(c.dna)
        /\ \A k \in 1..Len(c.dna) : /\ Bonded(c.dna, i)[k].code = c.dna[k].code
                                    /\ Bonded(c.dna, i)[k].dis = c.dna[k].dis
    BY <2>3, BondedDna
  <2>5. EndsWith(Bonded(c.dna, i), Tail0)
    <3>1. EndsWith(c.dna, Tail0) /\ Len(Tail0) \in Nat /\ Len(c.dna) \in Nat
      BY <2>1, <2>3 DEF CellOK
    <3>2. \A k \in 1..Len(Tail0) : Len(c.dna) - Len(Tail0) + k \in 1..Len(c.dna)
      BY <3>1 DEF EndsWith
    <3> QED
      BY <2>4, <3>1, <3>2 DEF EndsWith
  <2>6. CellOK(b) /\ b \in Cell
    BY <2>1, <2>4, <2>5 DEF CellOK, Cell
  <2>7. cells' = [cells EXCEPT ![n] = b]
    BY <2>2
  <2>8. code' \in [Code -> Nat]
    BY <1>1, <2>2
  <2> HIDE DEF b, c
  <2> QED
    BY <1>1, <1>6, <2>6, <2>7, <2>8 DEF Bond
<1>7. ASSUME NEW n \in Name, Age(n)
      PROVE  Goal
  <2> DEFINE c == cells[n]
             b == [c EXCEPT !.left = @ - 1]
  <2>1. n \in Living /\ c \in Cell /\ CellOK(c) /\ c.left > 1
    BY <1>1, <1>7 DEF Age, CellOK
  <2>2. b = [dna |-> c.dna, body |-> c.body, life |-> c.life, left |-> c.left - 1]
    <3>1. c = [dna |-> c.dna, body |-> c.body, life |-> c.life, left |-> c.left]
      <4> HIDE DEF c
      <4> QED
        BY <2>1 DEF Cell
    <3> HIDE DEF c
    <3> QED
      BY <3>1
  <2>3. CellOK(b) /\ b \in Cell
    <3>1. c.dna \in Seq(Codon) /\ c.body \in Seq(Code) /\ c.life \in 0..Word-1
            /\ c.left \in 2..c.life
      BY <2>1 DEF CellOK, Cell
    <3>2. c.left - 1 \in 0..Word-1 /\ c.left - 1 \in 1..c.life
      BY <3>1
    <3>3. b \in Cell
      BY <2>2, <3>1, <3>2 DEF Cell
    <3> QED
      BY <2>1, <2>2, <3>2, <3>3 DEF CellOK
  <2>4. cells' = [cells EXCEPT ![n] = b]
    BY <1>7 DEF Age
  <2> HIDE DEF b, c
  <2> QED
    BY <1>1, <1>7, <2>3, <2>4 DEF Age
<1>8. ASSUME NEW n \in Name, Die(n)
      PROVE  Goal
  <2>1. \A x \in Code : Remains(cells[n].dna, x) \in Nat
    <3> SUFFICES ASSUME NEW x \in Code
                 PROVE  Remains(cells[n].dna, x) \in Nat
      OBVIOUS
    <3>1. cells[n].dna \in Seq(Codon)
      BY <1>1, <1>8 DEF Die, Cell
    <3> QED
      BY <3>1, RemainsPositive
  <2>2. code' \in [Code -> Nat]
    BY <1>1, <1>8, <2>1 DEF Die, Released
  <2> QED
    BY <1>1, <1>8, <2>2 DEF Die
<1>9. ASSUME NEW n \in Name, NEW m \in Name, Divide(n, m)
      PROVE  Goal
  <2> DEFINE c == cells[n]
             growing == Len(c.dna) < MaxDna /\ Matter < MaxMatter
             p == [c EXCEPT !.dna = Cleared(@)]
  <2>1. n \in Living /\ m \in Name \ Living /\ c \in Cell /\ CellOK(c)
    BY <1>1, <1>9 DEF Divide, CellOK
  <2>2. PICK child \in Children(c, list, growing) :
          cells' = [cells EXCEPT ![n].dna = Cleared(@), ![m] = child]
    BY <1>9 DEF Divide
  <2>3. c.dna \in Seq(Codon) /\ c.life # 0 /\ growing \in BOOLEAN
    BY <2>1 DEF CellOK, Cell
  <2>4. CellOK(child)
    <3>1. child \in Cell /\ Heir(child.dna) /\ child.left \in 1..child.life
      <4> HIDE DEF c
      <4> QED
        BY <1>1, <2>1, <2>2, <2>3, ChildOfCell DEF CellOK
    <3> QED
      BY <3>1 DEF CellOK, Heir
  <2>5. CellOK(p)
    <3>1. Heir(Cleared(c.dna))
      <4>1. Cleared(c.dna) \in NewDnas(c.dna, {}, FALSE)
        BY DEF NewDnas
      <4> HIDE DEF c
      <4> QED
        BY <2>1, <2>3, <4>1, NewDnaHeir DEF CellOK
    <3> QED
      BY <2>1, <3>1 DEF CellOK, Cell, Heir
  <2>6. cells' = [[cells EXCEPT ![n] = p] EXCEPT ![m] = child]
    BY <2>2
  <2>7. p \in Cell /\ child \in Cell
    BY <2>4, <2>5 DEF CellOK
  <2> HIDE DEF p, c
  <2> QED
    BY <1>1, <1>9, <2>4, <2>5, <2>6, <2>7 DEF Divide
<1>10. ASSUME NEW n \in Name, Arrive(n)
       PROVE  Goal
  <2>1. PICK c \in Visitors : /\ cells' = [cells EXCEPT ![n] = c]
                              /\ brought' = brought \cup Codes(c.dna)
    BY <1>10 DEF Arrive
  <2>2. Founder(c)
    OBVIOUS
  <2>3. c \in Cell /\ CellOK(c) /\ c.dna \in Seq(Codon)
    BY <2>2 DEF Founder, CellOK, Cell
  <2>4. Codes(c.dna) \subseteq Code
    BY <2>3, CodesType
  <2> QED
    BY <1>1, <1>10, <2>1, <2>3, <2>4 DEF Arrive
<1>11. ASSUME NEW n \in Name, DrawFails(n)
       PROVE  Goal
  <2> DEFINE c == cells[n]
  <2>1. n \in Living /\ c \in Cell /\ CellOK(c)
    BY <1>1, <1>11 DEF DrawFails, CellOK
  <2>2. PICK i \in DOMAIN c.dna : cells' = [cells EXCEPT ![n].dna = Unbonded(@, i)]
    BY <1>11 DEF DrawFails
  <2>3. c.dna \in Seq(Codon) /\ i \in 1..Len(c.dna)
    BY <2>1 DEF Cell
  <2> DEFINE b == [c EXCEPT !.dna = Unbonded(c.dna, i)]
  <2>4. /\ Unbonded(c.dna, i) \in Seq(Codon)
        /\ Len(Unbonded(c.dna, i)) = Len(c.dna)
        /\ \A k \in 1..Len(c.dna) : /\ Unbonded(c.dna, i)[k].code = c.dna[k].code
                                    /\ Unbonded(c.dna, i)[k].dis = c.dna[k].dis
    BY <2>3, UnbondedDna
  <2>5. EndsWith(Unbonded(c.dna, i), Tail0)
    <3>1. EndsWith(c.dna, Tail0) /\ Len(Tail0) \in Nat /\ Len(c.dna) \in Nat
      BY <2>1, <2>3 DEF CellOK
    <3>2. \A k \in 1..Len(Tail0) : Len(c.dna) - Len(Tail0) + k \in 1..Len(c.dna)
      BY <3>1 DEF EndsWith
    <3> QED
      BY <2>4, <3>1, <3>2 DEF EndsWith
  <2>6. CellOK(b) /\ b \in Cell
    BY <2>1, <2>4, <2>5 DEF CellOK, Cell
  <2>7. cells' = [cells EXCEPT ![n] = b]
    BY <2>2
  <2> HIDE DEF b, c
  <2> QED
    BY <1>1, <1>11, <2>6, <2>7 DEF DrawFails
<1>12. CASE UNCHANGED vars
  BY <1>1, <1>12 DEF vars
<1> QED
  BY <1>3, <1>4, <1>5, <1>6, <1>7, <1>8, <1>9, <1>10, <1>11, <1>12 DEF Next

\* The invariant holds in every behaviour.
THEOREM Invariance == Spec => []IInv
BY InitIInv, NextIInv, PTL DEF Spec

\* The variables keep their types.
THEOREM TypeCorrect == Spec => []TypeOK
BY Invariance, PTL DEF IInv

\* The protected tail of a genome survives every mutation of every descendant.
THEOREM TailTheorem == Spec => []TailIntact
BY Invariance, PTL DEF IInv

\* A living cell has between one cycle and its whole life left.
THEOREM LifeTheorem == Spec => []LifeLeft
BY Invariance, PTL DEF IInv

-----------------------------------------------------------------------------
(***************************************************************************)
(* Which instructions exist: the list of all codes is sound, and no        *)
(* instruction is ever lost or invented.  Both follow from what a child    *)
(* can be made of: the instructions of its parent and of the list.         *)
(***************************************************************************)

\* The instructions of which code/ has a compound.
InStore == {x \in Code : code[x] > 0}

\* What a step must do for the list to stay sound and the species to stay.
Kept ==
  /\ list' \subseteq Present'
  /\ list' # {} => InDna' \subseteq list' \cup brought'
  /\ Present \subseteq Present'
  /\ Present' # Present => \A n \in Living : cells'[n] = cells[n]

\* Every step does: one step of the proof per action.
LEMMA StepKeeps == IInv /\ ListSound /\ [Next]_vars => Kept
<1> SUFFICES ASSUME IInv, ListSound, [Next]_vars
             PROVE  Kept
  OBVIOUS
<1>1. TypeOK
  BY DEF IInv
<1>2. /\ Present = InDna \cup InStore
      /\ Present' = InDna' \cup InStore'
  BY DEF Present, InStore
<1>3. /\ \A x : x \in InDna <=> \E n \in Name : cells[n] # Absent /\ x \in Codes(cells[n].dna)
      /\ \A x : x \in InDna' <=> \E n \in Name : cells'[n] # Absent /\ x \in Codes(cells'[n].dna)
  BY DEF InDna, Living
<1>4. list \subseteq Present /\ (list # {} => InDna \subseteq list \cup brought)
  BY DEF ListSound
<1>5. ASSUME NEW n \in Living
      PROVE  cells[n] \in Cell /\ cells[n].dna \in Seq(Codon)
  BY <1>1 DEF TypeOK, Living, Cell
<1>6. CASE Refresh
  <2>1. InDna' = InDna /\ InStore' = InStore /\ cells' = cells
    BY <1>6 DEF Refresh, InDna, Living, InStore
  <2>2. list' \subseteq Present /\ Present \subseteq list' \cup brought'
    BY <1>6 DEF Refresh
  <2> QED
    BY <1>2, <2>1, <2>2 DEF Kept
<1>7. CASE Restart
  <2>1. InDna' = InDna /\ InStore' = InStore /\ list' = {} /\ cells' = cells
    BY <1>7 DEF Restart, InDna, Living, InStore
  <2> QED
    BY <1>2, <2>1 DEF Kept
<1>8. CASE UNCHANGED vars
  <2>1. InDna' = InDna /\ InStore' = InStore /\ cells' = cells
          /\ list' = list /\ brought' = brought
    BY <1>8 DEF vars, InDna, Living, InStore
  <2> QED
    BY <1>2, <1>4, <2>1 DEF Kept
<1>9. ASSUME NEW y \in Code, Supply(y)
      PROVE  Kept
  <2>1. InDna' = InDna /\ list' = list /\ brought' = brought /\ cells' = cells
    BY <1>9 DEF Supply, InDna, Living
  <2>2. InStore \subseteq InStore'
    BY <1>1, <1>9 DEF Supply, InStore, TypeOK
  <2> QED
    BY <1>2, <1>4, <2>1, <2>2 DEF Kept
<1>10. ASSUME NEW n \in Name, Bond(n)
       PROVE  Kept
  <2>1. n \in Living /\ list' = list /\ brought' = brought
    BY <1>10 DEF Bond
  <2>2. PICK y \in Code, i \in DOMAIN cells[n].dna :
          /\ IsFirstFree(cells[n].dna, y, i)
          /\ code' = [code EXCEPT ![y] = @ - 1]
          /\ cells' = [cells EXCEPT ![n].dna = Bonded(@, i)]
    BY <1>10 DEF Bond
  <2>3. y \in Codes(cells[n].dna)
    BY <2>2 DEF IsFirstFree, Codes
  <2>4. cells'[n] # Absent /\ Codes(cells'[n].dna) = Codes(cells[n].dna)
    <3>1. cells'[n] = [cells[n] EXCEPT !.dna = Bonded(cells[n].dna, i)]
      BY <1>1, <2>2 DEF TypeOK
    <3>2. cells'[n].dna = Bonded(cells[n].dna, i)
      BY <1>5, <2>1, <3>1 DEF Cell
    <3>3. Bonded(cells[n].dna, i) \in Seq(Codon)
      BY <1>5, <2>1, BondedDna
    <3>4. cells'[n] \in Cell
      BY <1>5, <2>1, <3>1, <3>3 DEF Cell
    <3>5. Codes(Bonded(cells[n].dna, i)) = Codes(cells[n].dna)
      BY <1>5, <2>1, BondedCodes
    <3> QED
      BY <3>2, <3>4, <3>5, AbsentAssumption
  <2>5. \A m \in Name : m # n => cells'[m] = cells[m]
    BY <1>1, <2>2 DEF TypeOK
  <2>6. InDna' = InDna /\ y \in InDna
    BY <1>3, <2>1, <2>3, <2>4, <2>5 DEF Living
  <2>7. InStore' \subseteq InStore /\ InStore \subseteq InStore' \cup {y}
    BY <1>1, <2>2 DEF InStore, TypeOK
  <2> QED
    BY <1>2, <1>4, <2>1, <2>6, <2>7 DEF Kept
<1>11. ASSUME NEW n \in Name, Age(n)
       PROVE  Kept
  <2>1. n \in Living /\ list' = list /\ brought' = brought /\ code' = code
    BY <1>11 DEF Age
  <2>2. cells'[n] = [cells[n] EXCEPT !.left = cells[n].left - 1]
    BY <1>1, <1>11 DEF Age, TypeOK
  <2>3. cells'[n].dna = cells[n].dna
    BY <1>5, <2>1, <2>2 DEF Cell
  <2>4. cells'[n] # Absent
    <3>1. cells[n].left - 1 \in 0..Word-1
      BY <1>5, <1>11, <2>1 DEF Age, Cell
    <3>2. cells'[n] \in Cell
      BY <1>5, <2>1, <2>2, <3>1 DEF Cell
    <3> QED
      BY <3>2, AbsentAssumption
  <2>5. \A m \in Name : m # n => cells'[m] = cells[m]
    BY <1>1, <1>11 DEF Age, TypeOK
  <2>6. InDna' = InDna /\ InStore' = InStore
    BY <1>3, <2>1, <2>3, <2>4, <2>5 DEF Living, InStore
  <2> QED
    BY <1>2, <1>4, <2>1, <2>6 DEF Kept
<1>12. ASSUME NEW n \in Name, Die(n)
       PROVE  Kept
  <2>1. n \in Living /\ list' = list /\ brought' = brought /\ cells'[n] = Absent
    BY <1>1, <1>12 DEF Die, TypeOK
  <2>2. \A m \in Name : m # n => cells'[m] = cells[m]
    BY <1>1, <1>12 DEF Die, TypeOK
  <2>3. InDna' \subseteq InDna /\ InDna \subseteq InDna' \cup Codes(cells[n].dna)
    BY <1>3, <2>1, <2>2
  <2>4. Codes(cells[n].dna) \subseteq InDna
    BY <1>3, <2>1 DEF Living
  <2>5. InDna \subseteq Code
    BY <1>1, PresentType
  <2>6. \A x \in Code : x \in InStore' <=> x \in InStore \/ x \in Codes(cells[n].dna)
    <3> SUFFICES ASSUME NEW x \in Code
                 PROVE  x \in InStore' <=> x \in InStore \/ x \in Codes(cells[n].dna)
      OBVIOUS
    <3>1. code'[x] = code[x] + Remains(cells[n].dna, x)
      BY <1>12 DEF Die, Released
    <3>2. code[x] \in Nat
      BY <1>1 DEF TypeOK
    <3>3. Remains(cells[n].dna, x) \in Nat
            /\ (Remains(cells[n].dna, x) > 0 <=> x \in Codes(cells[n].dna))
      BY <1>5, <2>1, RemainsPositive
    <3> QED
      BY <3>1, <3>2, <3>3 DEF InStore
  <2>7. InStore \subseteq Code /\ InStore' \subseteq Code
    BY DEF InStore
  <2> QED
    BY <1>2, <1>4, <2>1, <2>3, <2>4, <2>5, <2>6, <2>7 DEF Kept
<1>13. ASSUME NEW n \in Name, NEW m \in Name, Divide(n, m)
       PROVE  Kept
  <2> DEFINE c == cells[n]
             growing == Len(c.dna) < MaxDna /\ Matter < MaxMatter
  <2>1. n \in Living /\ m \in Name \ Living /\ list' = list /\ brought' = brought /\ code' = code
    BY <1>13 DEF Divide
  <2>2. PICK child \in Children(c, list, growing) :
          cells' = [cells EXCEPT ![n].dna = Cleared(@), ![m] = child]
    BY <1>13 DEF Divide
  <2>3. c \in Cell /\ c.dna \in Seq(Codon) /\ list \in SUBSET Code /\ growing \in BOOLEAN
    BY <1>1, <1>5, <2>1 DEF TypeOK
  <2>4. Codes(child.dna) \subseteq Codes(c.dna) \cup list
    <3> HIDE DEF c, growing
    <3> QED
      BY <2>2, <2>3, ChildOfCell
  <2>5. m # n /\ c # Absent
    BY <2>1 DEF Living
  <2>6. cells'[m] = child
    BY <1>1, <2>2, <2>5 DEF TypeOK
  <2>7. cells'[n] = [c EXCEPT !.dna = Cleared(c.dna)]
    BY <1>1, <2>2, <2>5 DEF TypeOK
  <2>8. cells'[n] # Absent /\ Codes(cells'[n].dna) = Codes(c.dna)
    <3>1. cells'[n].dna = Cleared(c.dna) /\ cells'[n] \in Cell
      BY <2>3, <2>7, ClearedDna DEF Cell
    <3> QED
      BY <2>3, <3>1, ClearedCodes, AbsentAssumption
  <2>9. \A k \in Name : k # n /\ k # m => cells'[k] = cells[k]
    BY <1>1, <2>2 DEF TypeOK
  <2>10. Codes(c.dna) \subseteq InDna
    BY <1>3, <2>5
  <2>11. InDna' \subseteq InDna \cup Codes(child.dna) /\ InDna \subseteq InDna'
    <3>1. \A x \in InDna' : x \in InDna \cup Codes(child.dna)
      <4> SUFFICES ASSUME NEW x \in InDna'
                   PROVE  x \in InDna \cup Codes(child.dna)
        OBVIOUS
      <4>1. PICK k \in Name : cells'[k] # Absent /\ x \in Codes(cells'[k].dna)
        BY <1>3
      <4>2. CASE k = m
        BY <2>6, <4>1, <4>2
      <4>3. CASE k = n
        BY <2>8, <2>10, <4>1, <4>3
      <4>4. CASE k # n /\ k # m
        BY <1>3, <2>9, <4>1, <4>4
      <4> QED
        BY <4>2, <4>3, <4>4
    <3>2. \A x \in InDna : x \in InDna'
      <4> SUFFICES ASSUME NEW x \in InDna
                   PROVE  x \in InDna'
        OBVIOUS
      <4>1. PICK k \in Living : x \in Codes(cells[k].dna)
        BY <1>3 DEF Living
      <4>2. k # m /\ cells'[k] # Absent /\ x \in Codes(cells'[k].dna)
        BY <2>1, <2>8, <2>9, <4>1 DEF Living
      <4> QED
        BY <1>3, <4>1, <4>2 DEF Living
    <3> QED
      BY <3>1, <3>2
  <2>12. InStore' = InStore
    BY <2>1 DEF InStore
  <2> QED
    BY <1>2, <1>4, <2>1, <2>4, <2>10, <2>11, <2>12 DEF Kept
<1>14. ASSUME NEW n \in Name, Arrive(n)
       PROVE  Kept
  <2>1. n \notin Living /\ list' = list /\ code' = code
    BY <1>14 DEF Arrive
  <2>2. PICK c \in Visitors : /\ cells' = [cells EXCEPT ![n] = c]
                              /\ brought' = brought \cup Codes(c.dna)
    BY <1>14 DEF Arrive
  <2>3. cells'[n] = c /\ c # Absent
    <3>1. c \in Cell
      BY DEF Founder
    <3> QED
      BY <1>1, <2>2, <3>1, AbsentAssumption DEF TypeOK
  <2>4. \A m \in Name : m # n => cells'[m] = cells[m]
    BY <1>1, <2>2 DEF TypeOK
  <2>5. \A m \in Living : m \in Name /\ m # n
    BY <2>1 DEF Living
  <2>6. InDna \subseteq InDna' /\ InDna' \subseteq InDna \cup Codes(c.dna)
    BY <1>3, <2>3, <2>4, <2>5 DEF Living
  <2>7. InStore' = InStore
    BY <2>1 DEF InStore
  <2> QED
    BY <1>2, <1>4, <2>1, <2>2, <2>4, <2>5, <2>6, <2>7 DEF Kept
<1>15. ASSUME NEW n \in Name, DrawFails(n)
       PROVE  Kept
  <2>1. n \in Living /\ list' = {} /\ code' = code
    BY <1>15 DEF DrawFails
  <2>2. PICK i \in DOMAIN cells[n].dna : cells' = [cells EXCEPT ![n].dna = Unbonded(@, i)]
    BY <1>15 DEF DrawFails
  <2>4. cells'[n] # Absent /\ Codes(cells'[n].dna) = Codes(cells[n].dna)
    <3>1. cells'[n] = [cells[n] EXCEPT !.dna = Unbonded(cells[n].dna, i)]
      BY <1>1, <2>2 DEF TypeOK
    <3>2. cells'[n].dna = Unbonded(cells[n].dna, i)
      BY <1>5, <2>1, <3>1 DEF Cell
    <3>3. Unbonded(cells[n].dna, i) \in Seq(Codon)
      BY <1>5, <2>1, UnbondedDna
    <3>4. cells'[n] \in Cell
      BY <1>5, <2>1, <3>1, <3>3 DEF Cell
    <3>5. Codes(Unbonded(cells[n].dna, i)) = Codes(cells[n].dna)
      BY <1>5, <2>1, UnbondedCodes
    <3> QED
      BY <3>2, <3>4, <3>5, AbsentAssumption
  <2>5. \A m \in Name : m # n => cells'[m] = cells[m]
    BY <1>1, <2>2 DEF TypeOK
  <2>6. InDna' = InDna
    BY <1>3, <2>1, <2>4, <2>5 DEF Living
  <2>7. InStore' = InStore
    BY <2>1 DEF InStore
  <2> QED
    BY <1>2, <2>1, <2>6, <2>7 DEF Kept
<1> QED
  BY <1>6, <1>7, <1>8, <1>9, <1>10, <1>11, <1>12, <1>13, <1>14, <1>15 DEF Next

-----------------------------------------------------------------------------

\* A list of all codes that is not empty holds every instruction of every living
\* DNA except those of cells placed since it was made, and nothing that does not
\* exist (update_all_code_list, sysenv_get_mutated_codon, docs/tips.md:54-56).
THEOREM ListTheorem == Spec => []ListSound
<1>1. Init => ListSound
  BY DEF Init, ListSound
<1>2. IInv /\ ListSound /\ [Next]_vars => ListSound'
  BY StepKeeps DEF Kept, ListSound
<1> QED
  BY <1>1, <1>2, Invariance, PTL DEF Spec

\* No instruction is lost, and only the user brings in a new one (death,
\* growth and mutation together).
THEOREM SpeciesTheorem == Spec => SpeciesKept
<1>1. IInv /\ ListSound /\ [Next]_vars => [SpeciesStep]_vars
  BY StepKeeps DEF Kept, SpeciesStep
<1> QED
  BY <1>1, Invariance, ListTheorem, PTL DEF Spec, SpeciesKept

-----------------------------------------------------------------------------
(***************************************************************************)
(* The protein of every cell is at most one mutation away from its DNA.    *)
(* Each mutation is shown to be one edit in the sense of the sequence      *)
(* operators of the community modules (SequencesExt).                      *)
(***************************************************************************)

\* One step keeps every protein near its DNA.
LEMMA StepBody == IInv /\ BodyNearDna /\ [Next]_vars => BodyNearDna'
<1> SUFFICES ASSUME IInv, BodyNearDna, [Next]_vars
             PROVE  BodyNearDna'
  OBVIOUS
<1> DEFINE Near(c) == OneEdit(c.body, Protein(c.dna))
<1>1. TypeOK
  BY DEF IInv
<1>2. ASSUME NEW n \in Living
      PROVE  cells[n] \in Cell /\ cells[n].dna \in Seq(Codon) /\ Near(cells[n])
  BY <1>1 DEF TypeOK, Living, Cell, BodyNearDna
<1>3. SUFFICES \A n \in Name : cells'[n] # Absent => Near(cells'[n])
  BY DEF BodyNearDna, Living
<1> HIDE DEF Near
<1>4. ASSUME cells' = cells
      PROVE  \A n \in Name : cells'[n] # Absent => Near(cells'[n])
  BY <1>2, <1>4 DEF Living
<1>5. ASSUME NEW n \in Living,
             \A m \in Name : m # n => cells'[m] = cells[m],
             Near(cells'[n])
      PROVE  \A m \in Name : cells'[m] # Absent => Near(cells'[m])
  BY <1>2, <1>5 DEF Living
<1>6. CASE Refresh \/ Restart \/ UNCHANGED vars
  BY <1>4, <1>6 DEF Refresh, Restart, vars
<1>7. ASSUME NEW x \in Code, Supply(x)
      PROVE  \A n \in Name : cells'[n] # Absent => Near(cells'[n])
  BY <1>4, <1>7 DEF Supply
<1>8. ASSUME NEW n \in Name, Bond(n)
      PROVE  \A m \in Name : cells'[m] # Absent => Near(cells'[m])
  <2>1. n \in Living
    BY <1>8 DEF Bond
  <2>2. PICK i \in DOMAIN cells[n].dna :
          cells' = [cells EXCEPT ![n].dna = Bonded(@, i)]
    BY <1>8 DEF Bond
  <2>3. cells'[n] = [cells[n] EXCEPT !.dna = Bonded(cells[n].dna, i)]
    BY <1>1, <2>2 DEF TypeOK
  <2>4. cells'[n].dna = Bonded(cells[n].dna, i) /\ cells'[n].body = cells[n].body
    BY <1>2, <2>1, <2>3 DEF Cell
  <2>5. Protein(cells'[n].dna) = Protein(cells[n].dna)
    BY <1>2, <2>1, <2>4, SameProtein
  <2>6. Near(cells'[n])
    BY <1>2, <2>1, <2>4, <2>5 DEF Near
  <2>7. \A m \in Name : m # n => cells'[m] = cells[m]
    BY <1>1, <2>2 DEF TypeOK
  <2> QED
    BY <1>5, <2>1, <2>6, <2>7
<1>9. ASSUME NEW n \in Name, Age(n)
      PROVE  \A m \in Name : cells'[m] # Absent => Near(cells'[m])
  <2>1. n \in Living
    BY <1>9 DEF Age
  <2>2. cells'[n] = [cells[n] EXCEPT !.left = cells[n].left - 1]
    BY <1>1, <1>9 DEF Age, TypeOK
  <2>3. cells'[n].dna = cells[n].dna /\ cells'[n].body = cells[n].body
    BY <1>2, <2>1, <2>2 DEF Cell
  <2>4. Near(cells'[n])
    BY <1>2, <2>1, <2>3 DEF Near
  <2>5. \A m \in Name : m # n => cells'[m] = cells[m]
    BY <1>1, <1>9 DEF Age, TypeOK
  <2> QED
    BY <1>5, <2>1, <2>4, <2>5
<1>10. ASSUME NEW n \in Name, Die(n)
       PROVE  \A m \in Name : cells'[m] # Absent => Near(cells'[m])
  <2>1. cells'[n] = Absent /\ \A m \in Name : m # n => cells'[m] = cells[m]
    BY <1>1, <1>10 DEF Die, TypeOK
  <2> QED
    BY <1>2, <2>1 DEF Living
<1>11. ASSUME NEW n \in Name, NEW m \in Name, Divide(n, m)
       PROVE  \A k \in Name : cells'[k] # Absent => Near(cells'[k])
  <2> DEFINE c == cells[n]
             growing == Len(c.dna) < MaxDna /\ Matter < MaxMatter
  <2>1. n \in Living /\ m \in Name \ Living /\ m # n
    BY <1>11 DEF Divide
  <2>2. PICK child \in Children(c, list, growing) :
          cells' = [cells EXCEPT ![n].dna = Cleared(@), ![m] = child]
    BY <1>11 DEF Divide
  <2>3. c \in Cell /\ c.dna \in Seq(Codon) /\ list \in SUBSET Code /\ growing \in BOOLEAN
    BY <1>1, <1>2, <2>1 DEF TypeOK
  <2>4. Near(child)
    <3> HIDE DEF c, growing
    <3> QED
      BY <2>2, <2>3, ChildOfCell DEF Near
  <2>5. cells'[m] = child /\ cells'[n] = [c EXCEPT !.dna = Cleared(c.dna)]
    BY <1>1, <2>1, <2>2 DEF TypeOK
  <2>6. cells'[n].dna = Cleared(c.dna) /\ cells'[n].body = c.body
    BY <2>3, <2>5 DEF Cell
  <2>7. Near(cells'[n])
    BY <1>2, <2>1, <2>3, <2>6, SameProtein DEF Near
  <2>8. \A k \in Name : k # n /\ k # m => cells'[k] = cells[k]
    BY <1>1, <2>2 DEF TypeOK
  <2> QED
    BY <1>2, <2>4, <2>5, <2>7, <2>8 DEF Living
<1>12. ASSUME NEW n \in Name, Arrive(n)
       PROVE  \A m \in Name : cells'[m] # Absent => Near(cells'[m])
  <2>1. PICK c \in Visitors : cells' = [cells EXCEPT ![n] = c]
    BY <1>12 DEF Arrive
  <2>2. Near(c)
    BY DEF Near, Founder
  <2>3. cells'[n] = c /\ \A m \in Name : m # n => cells'[m] = cells[m]
    BY <1>1, <2>1 DEF TypeOK
  <2> QED
    BY <1>2, <2>2, <2>3 DEF Living
<1>13. ASSUME NEW n \in Name, DrawFails(n)
       PROVE  \A m \in Name : cells'[m] # Absent => Near(cells'[m])
  <2>1. n \in Living
    BY <1>13 DEF DrawFails
  <2>2. PICK i \in DOMAIN cells[n].dna :
          cells' = [cells EXCEPT ![n].dna = Unbonded(@, i)]
    BY <1>13 DEF DrawFails
  <2>3. cells'[n] = [cells[n] EXCEPT !.dna = Unbonded(cells[n].dna, i)]
    BY <1>1, <2>2 DEF TypeOK
  <2>4. cells'[n].dna = Unbonded(cells[n].dna, i) /\ cells'[n].body = cells[n].body
    BY <1>2, <2>1, <2>3 DEF Cell
  <2>5. Protein(cells'[n].dna) = Protein(cells[n].dna)
    BY <1>2, <2>1, <2>4, SameProtein
  <2>6. Near(cells'[n])
    BY <1>2, <2>1, <2>4, <2>5 DEF Near
  <2>7. \A m \in Name : m # n => cells'[m] = cells[m]
    BY <1>1, <2>2 DEF TypeOK
  <2> QED
    BY <1>5, <2>1, <2>6, <2>7
<1> QED
  BY <1>6, <1>7, <1>8, <1>9, <1>10, <1>11, <1>12, <1>13 DEF Next

\* A mutation shows in the DNA one generation before it shows in the protein,
\* and never more than one mutation lies between them (central_dogma).
THEOREM BodyTheorem == Spec => []BodyNearDna
<1>1. Init => BodyNearDna
  BY DEF Init, BodyNearDna, Living, Founder
<1> QED
  BY <1>1, StepBody, Invariance, PTL DEF Spec
-----------------------------------------------------------------------------
(* The books of matter: how much of an instruction there is, counted piece *)
(* by piece.                                                               *)

\* A one-to-one map onto a set gives it the same number of elements.
LEMMA SameSize ==
  ASSUME NEW S, IsFiniteSet(S), NEW T, NEW f \in [S -> T],
         \A a, b \in S : f[a] = f[b] => a = b,
         \A t \in T : \E s \in S : f[s] = t
  PROVE  IsFiniteSet(T) /\ Cardinality(T) = Cardinality(S)
<1>1. f \in Bijection(S, T)
  BY DEF Bijection, Injection, Surjection, IsInjective
<1> QED
  BY <1>1, FS_Bijection DEF ExistsBijection

\* The codons of the instruction x, and those of them that hold a compound.
CodonsOf(dna, x) == {i \in DOMAIN dna : dna[i].code = x}
BondsOf(dna, x) == {i \in DOMAIN dna : dna[i].code = x /\ dna[i].buffered}

LEMMA CodonsFinite ==
  ASSUME NEW dna \in Seq(Codon), NEW x
  PROVE  /\ IsFiniteSet(CodonsOf(dna, x)) /\ Cardinality(CodonsOf(dna, x)) \in Nat
         /\ IsFiniteSet(BondsOf(dna, x)) /\ Cardinality(BondsOf(dna, x)) \in Nat
         /\ Remains(dna, x) = Cardinality(CodonsOf(dna, x)) + Cardinality(BondsOf(dna, x))
<1>1. DOMAIN dna = 1..Len(dna) /\ Len(dna) \in Int
  OBVIOUS
<1>2. IsFiniteSet(DOMAIN dna)
  <2>1. IsFiniteSet(1..Len(dna))
    BY <1>1, FS_Interval
  <2> QED
    BY <1>1, <2>1
<1>3. CodonsOf(dna, x) \in SUBSET DOMAIN dna /\ BondsOf(dna, x) \in SUBSET DOMAIN dna
  BY DEF CodonsOf, BondsOf
<1>4. IsFiniteSet(CodonsOf(dna, x)) /\ IsFiniteSet(BondsOf(dna, x))
  BY <1>2, <1>3, FS_Subset
<1> QED
  BY <1>4, FS_CardinalityType DEF Remains, CodonsOf, BondsOf

\* What the cell n of this DNA has of the instruction x.
Pieces(n, dna, x) ==
  {<<n, i, "codon">> : i \in CodonsOf(dna, x)} \cup {<<n, i, "compound">> : i \in BondsOf(dna, x)}

LEMMA PiecesCount ==
  ASSUME NEW n, NEW dna \in Seq(Codon), NEW x
  PROVE  /\ IsFiniteSet(Pieces(n, dna, x))
         /\ Cardinality(Pieces(n, dna, x)) = Remains(dna, x)
<1> DEFINE A == CodonsOf(dna, x)
           B == BondsOf(dna, x)
           S == {<<n, i, "codon">> : i \in A}
           T == {<<n, i, "compound">> : i \in B}
<1>1. IsFiniteSet(A) /\ IsFiniteSet(B) /\ Remains(dna, x) = Cardinality(A) + Cardinality(B)
  BY CodonsFinite
<1>2. IsFiniteSet(S) /\ Cardinality(S) = Cardinality(A)
  <2> DEFINE f == [i \in A |-> <<n, i, "codon">>]
  <2>1. f \in [A -> S] /\ (\A a, b \in A : f[a] = f[b] => a = b)
          /\ \A s \in S : \E a \in A : f[a] = s
    <3> HIDE DEF A
    <3> QED
      OBVIOUS
  <2> HIDE DEF A, S, f
  <2> QED
    BY <1>1, <2>1, SameSize
<1>3. IsFiniteSet(T) /\ Cardinality(T) = Cardinality(B)
  <2> DEFINE f == [i \in B |-> <<n, i, "compound">>]
  <2>1. f \in [B -> T] /\ (\A a, b \in B : f[a] = f[b] => a = b)
          /\ \A s \in T : \E b \in B : f[b] = s
    <3> HIDE DEF B
    <3> QED
      OBVIOUS
  <2> HIDE DEF B, T, f
  <2> QED
    BY <1>1, <2>1, SameSize
<1>4. S \cap T = {}
  <2> HIDE DEF A, B
  <2> QED
    OBVIOUS
<1>5. Cardinality(S \cap T) = 0
  BY <1>4, FS_EmptySet, Zenon
<1>6. Cardinality(S) \in Nat /\ Cardinality(T) \in Nat
  <2> HIDE DEF S, T
  <2> QED
    BY <1>2, <1>3, FS_CardinalityType
<1>7. IsFiniteSet(S \cup T) /\ Cardinality(S \cup T) = Cardinality(S) + Cardinality(T)
  <2> HIDE DEF S, T
  <2>1. /\ IsFiniteSet(S \cup T)
        /\ Cardinality(S \cup T) = Cardinality(S) + Cardinality(T) - Cardinality(S \cap T)
    BY <1>2, <1>3, FS_Union
  <2> QED
    BY <1>5, <1>6, <2>1
<1>8. Pieces(n, dna, x) = S \cup T
  BY Zenon DEF Pieces
<1> HIDE DEF A, B, S, T
<1>9. Cardinality(Pieces(n, dna, x)) = Cardinality(S \cup T) /\ IsFiniteSet(Pieces(n, dna, x))
  BY <1>7, <1>8, Zenon
<1> QED
  BY <1>1, <1>2, <1>3, <1>7, <1>9

\* A population, and what it holds of the instruction x.
Colony == [Name -> Cell \cup {Absent}]

Alive(cs) == {n \in Name : cs[n] # Absent}
HeldBy(cs, N, x) == UNION {Pieces(n, cs[n].dna, x) : n \in N}

LEMMA HeldCells == Living = Alive(cells) /\ \A x : Held(x) = HeldBy(cells, Living, x)
BY Zenon DEF Living, Alive, Held, HeldBy, Pieces, CodonsOf, BondsOf

LEMMA HeldFinite ==
  ASSUME NEW cs \in Colony, NEW N \in SUBSET Alive(cs), NEW x
  PROVE  IsFiniteSet(HeldBy(cs, N, x)) /\ Cardinality(HeldBy(cs, N, x)) \in Nat
<1> DEFINE P(n) == Pieces(n, cs[n].dna, x)
           T == {P(n) : n \in N}
<1>1. ASSUME NEW n \in N
      PROVE  IsFiniteSet(P(n))
  <2>1. cs[n].dna \in Seq(Codon)
    BY DEF Colony, Alive, Cell
  <2> QED
    BY <2>1, PiecesCount
<1>2. IsFiniteSet(T)
  <2> DEFINE R == [n \in N |-> P(n)]
  <2>1. R \in [N -> T] /\ \A t \in T : \E n \in N : R[n] = t
    <3> HIDE DEF P
    <3> QED
      OBVIOUS
  <2>2. R \in Surjection(N, T)
    BY <2>1 DEF Surjection
  <2>3. IsFiniteSet(Name) /\ N \in SUBSET Name
    BY DEF Alive
  <2>4. IsFiniteSet(N)
    BY <2>3, FS_Subset
  <2> HIDE DEF R, T
  <2> QED
    BY <2>2, <2>4, FS_Surjection
<1>3. IsFiniteSet(UNION T)
  <2> HIDE DEF P
  <2> QED
    BY <1>1, <1>2, FS_UNION
<1>4. HeldBy(cs, N, x) = UNION T
  BY Zenon DEF HeldBy
<1> HIDE DEF T
<1>5. IsFiniteSet(HeldBy(cs, N, x))
  BY <1>3, <1>4, Zenon
<1> QED
  BY <1>5, FS_CardinalityType

\* What the cell of a name holds, if there is one.
Own(c, x) == IF c = Absent THEN 0 ELSE Remains(c.dna, x)

LEMMA OwnType ==
  ASSUME NEW c \in Cell \cup {Absent}, NEW x
  PROVE  Own(c, x) \in Nat
<1>1. CASE c \in Cell
  <2>1. c.dna \in Seq(Codon)
    BY <1>1 DEF Cell
  <2> QED
    BY <1>1, <2>1, RemainsPositive DEF Own
<1> QED
  BY <1>1 DEF Own

\* The population holds what one cell holds and what the others hold.
LEMMA HeldSplit ==
  ASSUME NEW cs \in Colony, NEW n \in Name, NEW x
  PROVE  Cardinality(HeldBy(cs, Alive(cs), x))
           = Cardinality(HeldBy(cs, Alive(cs) \ {n}, x)) + Own(cs[n], x)
<1> DEFINE all == HeldBy(cs, Alive(cs), x)
           rest == HeldBy(cs, Alive(cs) \ {n}, x)
<1>1. IsFiniteSet(rest) /\ Cardinality(rest) \in Nat
  BY HeldFinite
<1>2. CASE cs[n] = Absent
  <2>1. Alive(cs) \ {n} = Alive(cs)
    BY <1>2 DEF Alive
  <2>2. Cardinality(all) = Cardinality(rest)
    BY <2>1, Zenon
  <2>3. Own(cs[n], x) = 0
    BY <1>2 DEF Own
  <2> HIDE DEF all, rest
  <2>4. Cardinality(all) = Cardinality(rest) + Own(cs[n], x)
    BY <1>1, <2>2, <2>3
  <2> QED
    BY <2>4 DEF all, rest
<1>3. CASE cs[n] # Absent
  <2> DEFINE own == Pieces(n, cs[n].dna, x)
  <2>1. cs[n].dna \in Seq(Codon) /\ n \in Alive(cs)
    BY <1>3 DEF Colony, Cell, Alive
  <2>2. IsFiniteSet(own) /\ Cardinality(own) = Own(cs[n], x) /\ Cardinality(own) \in Nat
    BY <1>3, <2>1, PiecesCount, RemainsPositive DEF Own
  <2>3. all = rest \cup own
    <3>1. ASSUME NEW t
          PROVE  t \in all <=> t \in rest \/ t \in own
      <4>1. t \in all <=> \E m \in Alive(cs) : t \in Pieces(m, cs[m].dna, x)
        BY DEF HeldBy
      <4>2. t \in rest <=> \E m \in Alive(cs) \ {n} : t \in Pieces(m, cs[m].dna, x)
        BY DEF HeldBy
      <4> HIDE DEF all, rest
      <4> QED
        BY <2>1, <4>1, <4>2
    <3> HIDE DEF all, rest, own
    <3> QED
      BY <3>1
  <2>4. rest \cap own = {}
    <3>1. ASSUME NEW t \in rest
          PROVE  t[1] # n
      <4>1. PICK m \in Alive(cs) \ {n} : t \in Pieces(m, cs[m].dna, x)
        BY DEF HeldBy
      <4>2. t[1] = m
        BY <4>1 DEF Pieces
      <4> QED
        BY <4>2
    <3>2. \A t \in own : t[1] = n
      BY DEF Pieces
    <3> HIDE DEF rest, own
    <3> QED
      BY <3>1, <3>2
  <2> HIDE DEF all, rest, own
  <2>5. Cardinality(rest \cap own) = 0 /\ Cardinality(all) = Cardinality(rest \cup own)
    BY <2>3, <2>4, FS_EmptySet, Zenon
  <2>6. Cardinality(rest \cup own)
          = Cardinality(rest) + Cardinality(own) - Cardinality(rest \cap own)
    BY <1>1, <2>2, FS_Union
  <2>7. Cardinality(all) = Cardinality(rest) + Own(cs[n], x)
    BY <1>1, <2>2, <2>5, <2>6
  <2> QED
    BY <2>7 DEF all, rest
<1> QED
  BY <1>2, <1>3

\* So a change of one cell shows in what the population holds.
LEMMA HeldSwap ==
  ASSUME NEW cs \in Colony, NEW ds \in Colony, NEW n \in Name, NEW x,
         \A m \in Name \ {n} : ds[m] = cs[m]
  PROVE  /\ Cardinality(HeldBy(cs, Alive(cs), x)) \in Nat
         /\ Cardinality(HeldBy(ds, Alive(ds), x)) \in Nat
         /\ Own(cs[n], x) \in Nat /\ Own(ds[n], x) \in Nat
         /\ Cardinality(HeldBy(ds, Alive(ds), x)) + Own(cs[n], x)
              = Cardinality(HeldBy(cs, Alive(cs), x)) + Own(ds[n], x)
<1>1. Alive(ds) \ {n} = Alive(cs) \ {n}
  BY DEF Alive
<1>2. HeldBy(ds, Alive(ds) \ {n}, x) = HeldBy(cs, Alive(cs) \ {n}, x)
  <2> DEFINE N == Alive(cs) \ {n}
  <2>1. \A m \in N : Pieces(m, ds[m].dna, x) = Pieces(m, cs[m].dna, x)
    BY DEF Alive
  <2>2. HeldBy(ds, N, x) = HeldBy(cs, N, x)
    <3> HIDE DEF N
    <3> QED
      BY <2>1 DEF HeldBy
  <2> QED
    BY <1>1, <2>2
<1>3. Cardinality(HeldBy(ds, Alive(ds) \ {n}, x)) = Cardinality(HeldBy(cs, Alive(cs) \ {n}, x))
  BY <1>2, Zenon
<1>4. /\ Cardinality(HeldBy(cs, Alive(cs), x))
           = Cardinality(HeldBy(cs, Alive(cs) \ {n}, x)) + Own(cs[n], x)
      /\ Cardinality(HeldBy(ds, Alive(ds), x))
           = Cardinality(HeldBy(ds, Alive(ds) \ {n}, x)) + Own(ds[n], x)
  BY HeldSplit
<1>5. /\ Cardinality(HeldBy(cs, Alive(cs), x)) \in Nat
      /\ Cardinality(HeldBy(ds, Alive(ds), x)) \in Nat
      /\ Cardinality(HeldBy(cs, Alive(cs) \ {n}, x)) \in Nat
  BY HeldFinite
<1>6. Own(cs[n], x) \in Nat /\ Own(ds[n], x) \in Nat
  BY OwnType DEF Colony
<1> QED
  BY <1>3, <1>4, <1>5, <1>6

\* d has the codons of e and one more, at k: the others are counted one place
\* further on.
Shifted(d, e, k) ==
  /\ Len(d) = Len(e) + 1
  /\ k \in 1..Len(d)
  /\ \A i \in 1..Len(e) :
        IF i < k THEN d[i].code = e[i].code ELSE d[i + 1].code = e[i].code

LEMMA ShiftCount ==
  ASSUME NEW d \in Seq(Codon), NEW e \in Seq(Codon), NEW k, Shifted(d, e, k), NEW x
  PROVE  Cardinality(CodonsOf(d, x))
           = IF d[k].code = x THEN Cardinality(CodonsOf(e, x)) + 1
                              ELSE Cardinality(CodonsOf(e, x))
<1> DEFINE S == CodonsOf(e, x)
           D == CodonsOf(d, x)
           T == D \ {k}
           f == [i \in S |-> IF i < k THEN i ELSE i + 1]
<1>1. /\ DOMAIN e = 1..Len(e) /\ Len(e) \in Nat /\ DOMAIN d = 1..(Len(e) + 1)
      /\ k \in 1..(Len(e) + 1)
      /\ \A i \in 1..Len(e) :
            IF i < k THEN d[i].code = e[i].code ELSE d[i + 1].code = e[i].code
  BY DEF Shifted
<1>2. f \in [S -> T]
  BY <1>1 DEF CodonsOf
<1>3. \A a, b \in S : f[a] = f[b] => a = b
  BY <1>1 DEF CodonsOf
<1>4. ASSUME NEW t \in T
      PROVE  \E s \in S : f[s] = t
  <2>1. t \in 1..(Len(e) + 1) /\ d[t].code = x /\ t # k
    BY <1>1 DEF CodonsOf
  <2>2. CASE t < k
    <3>1. t \in 1..Len(e) /\ e[t].code = x
      BY <1>1, <2>1, <2>2
    <3> QED
      BY <1>1, <2>2, <3>1 DEF CodonsOf
  <2>3. CASE t > k
    <3>0. t - 1 \in 1..Len(e) /\ ~(t - 1 < k) /\ (t - 1) + 1 = t
      BY <1>1, <2>1, <2>3
    <3>1. t - 1 \in 1..Len(e) /\ ~(t - 1 < k) /\ e[t - 1].code = d[(t - 1) + 1].code
            /\ (t - 1) + 1 = t
      BY <1>1, <3>0
    <3>2. t - 1 \in S
      BY <1>1, <2>1, <3>1 DEF CodonsOf
    <3>3. f[t - 1] = t
      <4> HIDE DEF S
      <4> QED
        BY <3>1, <3>2
    <3> QED
      BY <3>2, <3>3, Zenon
  <2> QED
    BY <1>1, <2>1, <2>2, <2>3
<1>5. /\ IsFiniteSet(S) /\ Cardinality(S) \in Nat
      /\ IsFiniteSet(D) /\ Cardinality(D) \in Nat
  BY CodonsFinite
<1>6. k \in D <=> d[k].code = x
  BY <1>1 DEF CodonsOf
<1> HIDE DEF S, D, f
<1>7. Cardinality(T) = Cardinality(S)
  <2> HIDE DEF T
  <2> QED
    BY <1>2, <1>3, <1>4, <1>5, SameSize
<1>8. Cardinality(T) = IF k \in D THEN Cardinality(D) - 1 ELSE Cardinality(D)
  BY <1>5, FS_RemoveElement
<1>9. Cardinality(D) = IF d[k].code = x THEN Cardinality(S) + 1 ELSE Cardinality(S)
  BY <1>5, <1>6, <1>7, <1>8
<1> QED
  BY <1>9 DEF S, D

\* d is e with another codon at k: the others are counted where they are.
Changed(d, e, k) ==
  /\ Len(d) = Len(e)
  /\ k \in 1..Len(d)
  /\ \A i \in 1..Len(d) : i # k => d[i].code = e[i].code

LEMMA ChangeCount ==
  ASSUME NEW d \in Seq(Codon), NEW e \in Seq(Codon), NEW k, Changed(d, e, k), NEW x
  PROVE  (Cardinality(CodonsOf(d, x)) - (IF d[k].code = x THEN 1 ELSE 0))
           = (Cardinality(CodonsOf(e, x)) - (IF e[k].code = x THEN 1 ELSE 0))
<1> DEFINE D == CodonsOf(d, x)
           S == CodonsOf(e, x)
<1>1. D \ {k} = S \ {k} /\ (k \in D <=> d[k].code = x) /\ (k \in S <=> e[k].code = x)
  BY DEF CodonsOf, Changed
<1>2. /\ IsFiniteSet(S) /\ Cardinality(S) \in Nat
      /\ IsFiniteSet(D) /\ Cardinality(D) \in Nat
  BY CodonsFinite
<1> HIDE DEF S, D
<1>3. Cardinality(D \ {k}) = Cardinality(S \ {k})
  BY <1>1, Zenon
<1>4. /\ Cardinality(D \ {k}) = (IF k \in D THEN Cardinality(D) - 1 ELSE Cardinality(D))
      /\ Cardinality(S \ {k}) = (IF k \in S THEN Cardinality(S) - 1 ELSE Cardinality(S))
  BY <1>2, FS_RemoveElement
<1>5. (Cardinality(D) - (IF d[k].code = x THEN 1 ELSE 0))
        = (Cardinality(S) - (IF e[k].code = x THEN 1 ELSE 0))
  BY <1>1, <1>2, <1>3, <1>4
<1> QED
  BY <1>5 DEF S, D

\* One instruction goes up by one at the most, and one goes down.
OneChange(dna, d) ==
  \E y, z : \A x :
    /\ Cardinality(CodonsOf(d, x)) - Cardinality(CodonsOf(dna, x)) \in -1..1
    /\ Cardinality(CodonsOf(d, x)) > Cardinality(CodonsOf(dna, x)) => x = y
    /\ Cardinality(CodonsOf(d, x)) < Cardinality(CodonsOf(dna, x)) => x = z

LEMMA InsertCount ==
  ASSUME NEW dna \in Seq(Codon), NEW idx \in DOMAIN dna, NEW y \in Code
  PROVE  OneChange(dna, InsertPrev(dna, idx, y)) /\ OneChange(dna, InsertNext(dna, idx, y))
<1>1. /\ idx \in 1..Len(dna) /\ Len(dna) \in Nat
      /\ \A j \in 1..Len(dna) : dna[j] \in Codon
  OBVIOUS
<1>2. ASSUME NEW d \in Seq(Codon), NEW k, Shifted(d, dna, k), d[k].code = y
      PROVE  OneChange(dna, d)
  <2>1. ASSUME NEW x
        PROVE  /\ Cardinality(CodonsOf(d, x)) - Cardinality(CodonsOf(dna, x)) \in -1..1
               /\ Cardinality(CodonsOf(d, x)) > Cardinality(CodonsOf(dna, x)) => x = y
               /\ Cardinality(CodonsOf(d, x)) < Cardinality(CodonsOf(dna, x)) => x = y
    <3>1. Cardinality(CodonsOf(d, x))
            = IF d[k].code = x THEN Cardinality(CodonsOf(dna, x)) + 1
                               ELSE Cardinality(CodonsOf(dna, x))
      BY <1>2, ShiftCount
    <3>2. Cardinality(CodonsOf(dna, x)) \in Nat
      BY CodonsFinite
    <3> QED
      BY <1>2, <3>1, <3>2
  <2> QED
    BY <2>1, Zenon DEF OneChange
<1>3. OneChange(dna, InsertPrev(dna, idx, y))
  <2> DEFINE d == InsertPrev(dna, idx, y)
  <2>1. d \in Seq(Codon) /\ Len(d) = Len(dna) + 1
    BY InsertPrevDna
  <2>2. idx \in 1..Len(d) /\ d[idx].code = y
    BY <1>1, <2>1, DrawnCodon DEF InsertPrev
  <2>3. ASSUME NEW i \in 1..Len(dna)
        PROVE  IF i < idx THEN d[i].code = dna[i].code ELSE d[i + 1].code = dna[i].code
    <3>1. Unbuffered(dna[i]).code = dna[i].code
      BY <1>1, UnbufferedCodon
    <3>2. CASE i < idx
      BY <1>1, <3>1, <3>2 DEF InsertPrev
    <3>3. CASE ~(i < idx)
      <4>1. i + 1 \in 1..Len(dna) + 1 /\ ~(i + 1 < idx) /\ i + 1 # idx /\ (i + 1) - 1 = i
        BY <1>1, <3>3
      <4> QED
        BY <3>1, <3>3, <4>1 DEF InsertPrev
    <3> QED
      BY <3>2, <3>3
  <2> HIDE DEF d
  <2>4. Shifted(d, dna, idx)
    BY <2>1, <2>2, <2>3 DEF Shifted
  <2>5. OneChange(dna, d)
    BY <1>2, <2>1, <2>2, <2>4
  <2> QED
    BY <2>5 DEF d
<1>4. OneChange(dna, InsertNext(dna, idx, y))
  <2> DEFINE d == InsertNext(dna, idx, y)
  <2>1. d \in Seq(Codon) /\ Len(d) = Len(dna) + 1
    BY InsertNextDna
  <2>2. idx + 1 \in 1..Len(d) /\ d[idx + 1].code = y
    BY <1>1, <2>1, DrawnCodon DEF InsertNext
  <2>3. ASSUME NEW i \in 1..Len(dna)
        PROVE  IF i < idx + 1 THEN d[i].code = dna[i].code ELSE d[i + 1].code = dna[i].code
    <3>1. Unbuffered(dna[i]).code = dna[i].code
      BY <1>1, UnbufferedCodon
    <3>2. CASE i < idx + 1
      BY <1>1, <3>1, <3>2 DEF InsertNext
    <3>3. CASE ~(i < idx + 1)
      <4>1. i + 1 \in 1..Len(dna) + 1 /\ ~(i + 1 <= idx) /\ i + 1 # idx + 1 /\ (i + 1) - 1 = i
        BY <1>1, <3>3
      <4> QED
        BY <3>1, <3>3, <4>1 DEF InsertNext
    <3> QED
      BY <3>2, <3>3
  <2> HIDE DEF d
  <2>4. Shifted(d, dna, idx + 1)
    BY <2>1, <2>2, <2>3 DEF Shifted
  <2>5. OneChange(dna, d)
    BY <1>2, <2>1, <2>2, <2>4
  <2> QED
    BY <2>5 DEF d
<1> QED
  BY <1>3, <1>4

LEMMA ReplaceCount ==
  ASSUME NEW dna \in Seq(Codon), NEW idx \in DOMAIN dna, NEW y \in Code
  PROVE  OneChange(dna, Modify(dna, idx, y)) /\ OneChange(dna, Remove(dna, idx))
<1>1. /\ idx \in 1..Len(dna) /\ Len(dna) \in Nat
      /\ \A j \in 1..Len(dna) : dna[j] \in Codon
  OBVIOUS
<1>2. OneChange(dna, Modify(dna, idx, y))
  <2> DEFINE d == Modify(dna, idx, y)
  <2>1. d \in Seq(Codon) /\ Len(d) = Len(dna)
    BY ModifyDna
  <2>2. d[idx].code = y
    BY <1>1, DrawnCodon DEF Modify
  <2>3. ASSUME NEW i \in 1..Len(d), i # idx
        PROVE  d[i].code = dna[i].code
    <3>1. i \in 1..Len(dna)
      BY <2>1
    <3>2. Unbuffered(dna[i]).code = dna[i].code
      BY <1>1, <3>1, UnbufferedCodon
    <3> QED
      BY <2>3, <3>1, <3>2 DEF Modify
  <2> HIDE DEF d
  <2>0. Changed(d, dna, idx)
    BY <1>1, <2>1, <2>3 DEF Changed
  <2>4. ASSUME NEW x
        PROVE  /\ Cardinality(CodonsOf(d, x)) - Cardinality(CodonsOf(dna, x)) \in -1..1
               /\ Cardinality(CodonsOf(d, x)) > Cardinality(CodonsOf(dna, x)) => x = y
               /\ Cardinality(CodonsOf(d, x)) < Cardinality(CodonsOf(dna, x)) => x = dna[idx].code
    <3>1. (Cardinality(CodonsOf(d, x)) - (IF d[idx].code = x THEN 1 ELSE 0))
            = (Cardinality(CodonsOf(dna, x)) - (IF dna[idx].code = x THEN 1 ELSE 0))
      BY <2>0, <2>1, ChangeCount
    <3>2. Cardinality(CodonsOf(dna, x)) \in Nat /\ Cardinality(CodonsOf(d, x)) \in Nat
      BY <2>1, CodonsFinite
    <3> QED
      BY <2>2, <3>1, <3>2
  <2>5. OneChange(dna, d)
    BY <2>4, Zenon DEF OneChange
  <2> QED
    BY <2>5 DEF d
<1>3. OneChange(dna, Remove(dna, idx))
  <2> DEFINE e == Remove(dna, idx)
  <2>1. e \in Seq(Codon) /\ Len(dna) = Len(e) + 1 /\ Len(e) = Len(dna) - 1
    BY <1>1, RemoveDna
  <2>2. ASSUME NEW i \in 1..Len(e)
        PROVE  IF i < idx THEN dna[i].code = e[i].code ELSE dna[i + 1].code = e[i].code
    <3>1. i \in 1..Len(dna) - 1 /\ i \in 1..Len(dna) /\ i + 1 \in 1..Len(dna)
      BY <1>1, <2>1
    <3>2. Unbuffered(dna[i]).code = dna[i].code /\ Unbuffered(dna[i + 1]).code = dna[i + 1].code
      BY <1>1, <3>1, UnbufferedCodon
    <3>3. e[i] = IF i < idx THEN Unbuffered(dna[i]) ELSE Unbuffered(dna[i + 1])
      BY <3>1 DEF Remove
    <3> QED
      BY <3>2, <3>3
  <2> HIDE DEF e
  <2>0. Shifted(dna, e, idx)
    BY <1>1, <2>1, <2>2 DEF Shifted
  <2>3. ASSUME NEW x
        PROVE  /\ Cardinality(CodonsOf(e, x)) - Cardinality(CodonsOf(dna, x)) \in -1..1
               /\ Cardinality(CodonsOf(e, x)) > Cardinality(CodonsOf(dna, x)) => x = y
               /\ Cardinality(CodonsOf(e, x)) < Cardinality(CodonsOf(dna, x)) => x = dna[idx].code
    <3>1. Cardinality(CodonsOf(dna, x))
            = IF dna[idx].code = x THEN Cardinality(CodonsOf(e, x)) + 1
                                   ELSE Cardinality(CodonsOf(e, x))
      BY <2>0, <2>1, ShiftCount
    <3>2. Cardinality(CodonsOf(e, x)) \in Nat
      BY <2>1, CodonsFinite
    <3> QED
      BY <3>1, <3>2
  <2>4. OneChange(dna, e)
    BY <2>3, Zenon DEF OneChange
  <2> QED
    BY <2>4 DEF e
<1> QED
  BY <1>2, <1>3

\* A copy has the codons of each instruction where the original has them.
LEMMA ClearedCodons ==
  ASSUME NEW dna \in Seq(Codon), NEW x
  PROVE  CodonsOf(Cleared(dna), x) = CodonsOf(dna, x)
<1>1. /\ Cleared(dna) \in Seq(Codon)
      /\ Len(Cleared(dna)) = Len(dna)
      /\ \A k \in 1..Len(dna) : Cleared(dna)[k].code = dna[k].code
  BY ClearedDna
<1>2. DOMAIN Cleared(dna) = 1..Len(dna) /\ DOMAIN dna = 1..Len(dna)
  BY <1>1
<1>3. \A k \in 1..Len(dna) : Cleared(dna)[k].code = x <=> dna[k].code = x
  BY <1>1
<1> QED
  BY <1>2, <1>3, Zenon DEF CodonsOf

\* A birth changes the amount of one instruction, or swaps one for another.
LEMMA NewDnaCount ==
  ASSUME NEW dna \in Seq(Codon), NEW all \in SUBSET Code, NEW growing,
         NEW d \in NewDnas(dna, all, growing)
  PROVE  OneChange(dna, d)
<1>1. CASE d = Cleared(dna)
  <2>1. \A x : CodonsOf(Cleared(dna), x) = CodonsOf(dna, x)
    BY ClearedCodons
  <2>2. \A x : Cardinality(CodonsOf(d, x)) = Cardinality(CodonsOf(dna, x))
    BY <1>1, <2>1, Zenon
  <2>3. \A x : Cardinality(CodonsOf(dna, x)) \in Nat
    BY CodonsFinite
  <2>4. ASSUME NEW x
        PROVE  /\ Cardinality(CodonsOf(d, x)) - Cardinality(CodonsOf(dna, x)) \in -1..1
               /\ ~(Cardinality(CodonsOf(d, x)) > Cardinality(CodonsOf(dna, x)))
               /\ ~(Cardinality(CodonsOf(d, x)) < Cardinality(CodonsOf(dna, x)))
    <3>1. /\ Cardinality(CodonsOf(d, x)) = Cardinality(CodonsOf(dna, x))
          /\ Cardinality(CodonsOf(dna, x)) \in Nat
      BY <2>2, <2>3, Zenon
    <3> QED
      BY <3>1
  <2> QED
    BY <2>4, Zenon DEF OneChange
<1>2. CASE d \in Modifications(dna, all)
  <2>1. PICK i \in DOMAIN dna, x \in all : d = Modify(dna, i, x)
    BY <1>2 DEF Modifications, Allowing
  <2> QED
    BY <2>1, ReplaceCount
<1>3. CASE d \in Removals(dna)
  <2>1. PICK i \in DOMAIN dna : d = Remove(dna, i)
    BY <1>3 DEF Removals, Allowing
  <2>2. dna[i] \in Codon
    BY <2>1
  <2>3. dna[i].code \in Code
    BY <2>2 DEF Codon
  <2> QED
    BY <2>1, <2>3, ReplaceCount
<1>4. CASE d \in Insertions(dna, all)
  <2>1. PICK i \in DOMAIN dna, x \in all :
          d = InsertPrev(dna, i, x) \/ d = InsertNext(dna, i, x)
    BY <1>4 DEF Insertions, Allowing
  <2> QED
    BY <2>1, InsertCount
<1> QED
  BY <1>1, <1>2, <1>3, <1>4 DEF NewDnas

\* A cell without compounds holds its codons only, one that can divide holds
\* a compound for each.
LEMMA FreshRemains ==
  ASSUME NEW dna \in Seq(Codon), NEW x, \A i \in DOMAIN dna : ~dna[i].buffered
  PROVE  Remains(dna, x) = Cardinality(CodonsOf(dna, x))
<1>1. BondsOf(dna, x) = {}
  BY DEF BondsOf
<1>2. Cardinality(BondsOf(dna, x)) = 0
  BY <1>1, FS_EmptySet, Zenon
<1> QED
  BY <1>2, CodonsFinite

LEMMA FullRemains ==
  ASSUME NEW dna \in Seq(Codon), NEW x, Dividable(dna)
  PROVE  Remains(dna, x) = Cardinality(CodonsOf(dna, x)) + Cardinality(CodonsOf(dna, x))
<1>1. BondsOf(dna, x) = CodonsOf(dna, x)
  BY DEF BondsOf, CodonsOf, Dividable
<1>2. Cardinality(BondsOf(dna, x)) = Cardinality(CodonsOf(dna, x))
  BY <1>1, Zenon
<1> QED
  BY <1>2, CodonsFinite

\* Bonding adds one compound of the codon's instruction.
LEMMA BondRemains ==
  ASSUME NEW dna \in Seq(Codon), NEW y, NEW i, IsFirstFree(dna, y, i), NEW x
  PROVE  Remains(Bonded(dna, i), x)
           = IF x = y THEN Remains(dna, x) + 1 ELSE Remains(dna, x)
<1> DEFINE b == Bonded(dna, i)
<1>1. /\ i \in DOMAIN dna /\ dna[i].code = y /\ ~dna[i].buffered
      /\ \A j \in DOMAIN dna : dna[j] \in Codon
  BY DEF IsFirstFree
<1>2. b \in Seq(Codon) /\ Len(b) = Len(dna) /\ DOMAIN b = DOMAIN dna
        /\ \A j \in DOMAIN dna : b[j].code = dna[j].code
  <2>1. /\ b \in Seq(Codon) /\ Len(b) = Len(dna)
        /\ \A j \in 1..Len(dna) : b[j].code = dna[j].code
    BY <1>1, BondedDna
  <2> HIDE DEF b
  <2> QED
    BY <2>1
<1>3. \A j \in DOMAIN dna : b[j].buffered <=> dna[j].buffered \/ j = i
  BY <1>1 DEF Bonded, Codon
<1> HIDE DEF b
<1>4. CodonsOf(b, x) = CodonsOf(dna, x)
  BY <1>2 DEF CodonsOf
<1>5. BondsOf(b, x) = IF x = y THEN BondsOf(dna, x) \cup {i} ELSE BondsOf(dna, x)
  BY <1>1, <1>2, <1>3 DEF BondsOf
<1>6. i \notin BondsOf(dna, x)
  BY <1>1 DEF BondsOf
<1>7. Cardinality(CodonsOf(b, x)) = Cardinality(CodonsOf(dna, x))
  BY <1>4, Zenon
<1>8. Cardinality(BondsOf(dna, x) \cup {i}) = Cardinality(BondsOf(dna, x)) + 1
  BY <1>6, CodonsFinite, FS_AddElement
<1>9. CASE x = y
  <2>1. BondsOf(b, x) = BondsOf(dna, x) \cup {i}
    BY <1>5, <1>9
  <2>2. Cardinality(BondsOf(b, x)) = Cardinality(BondsOf(dna, x)) + 1
    BY <1>8, <2>1, Zenon
  <2>3. Remains(b, x) = Remains(dna, x) + 1
    BY <1>2, <1>7, <2>2, CodonsFinite
  <2> QED
    BY <1>9, <2>3 DEF b
<1>10. CASE x # y
  <2>1. BondsOf(b, x) = BondsOf(dna, x)
    BY <1>5, <1>10
  <2>2. Cardinality(BondsOf(b, x)) = Cardinality(BondsOf(dna, x))
    BY <2>1, Zenon
  <2>3. Remains(b, x) = Remains(dna, x)
    BY <1>2, <1>7, <2>2, CodonsFinite
  <2> QED
    BY <1>10, <2>3 DEF b
<1> QED
  BY <1>9, <1>10

\* The amount of an instruction, by what the population holds.
Stock(cs, x) == Cardinality(HeldBy(cs, Alive(cs), x))

LEMMA AmountIs ==
  \A x : Amount(x) = code[x] + Stock(cells, x) /\ Amount(x)' = code'[x] + Stock(cells', x)
<1>1. \A x : Held(x) = HeldBy(cells, Alive(cells), x)
  BY Zenon DEF Living, Alive, Held, HeldBy, Pieces, CodonsOf, BondsOf
<1>2. \A x : Held(x)' = HeldBy(cells', Alive(cells'), x)
  BY Zenon DEF Living, Alive, Held, HeldBy, Pieces, CodonsOf, BondsOf
<1>3. \A x : Cardinality(Held(x)) = Stock(cells, x) /\ Cardinality(Held(x)') = Stock(cells', x)
  BY <1>1, <1>2, Zenon DEF Stock
<1> QED
  BY <1>3 DEF Amount

\* HeldSwap, for the stock.
LEMMA StockSwap ==
  ASSUME NEW cs \in Colony, NEW ds \in Colony, NEW n \in Name, NEW x,
         \A m \in Name \ {n} : ds[m] = cs[m]
  PROVE  /\ Stock(cs, x) \in Nat /\ Stock(ds, x) \in Nat
         /\ Own(cs[n], x) \in Nat /\ Own(ds[n], x) \in Nat
         /\ Stock(ds, x) + Own(cs[n], x) = Stock(cs, x) + Own(ds[n], x)
BY HeldSwap DEF Stock

\* A step that changes the amount of one instruction at most each way.
LEMMA OneEach ==
  ASSUME NEW y, NEW z,
         \A x \in Code : /\ Amount(x)' - Amount(x) \in -1..1
                         /\ Amount(x)' > Amount(x) => x = y
                         /\ Amount(x)' < Amount(x) => x = z
  PROVE  /\ Cardinality({x \in Code : Amount(x)' > Amount(x)}) <= 1
         /\ Cardinality({x \in Code : Amount(x)' < Amount(x)}) <= 1
<1> DEFINE gained == {x \in Code : Amount(x)' > Amount(x)}
           lost == {x \in Code : Amount(x)' < Amount(x)}
<1>1. gained \in SUBSET {y} /\ lost \in SUBSET {z}
  OBVIOUS
<1> HIDE DEF gained, lost
<1>2. /\ IsFiniteSet({y}) /\ Cardinality({y}) = 1
      /\ IsFiniteSet({z}) /\ Cardinality({z}) = 1
  BY FS_Singleton
<1>3. Cardinality(gained) <= Cardinality({y}) /\ Cardinality(lost) <= Cardinality({z})
  BY <1>1, <1>2, FS_Subset
<1>4. Cardinality(gained) \in Int /\ Cardinality(lost) \in Int
  BY <1>1, <1>2, FS_Subset, FS_CardinalityType
<1>5. Cardinality(gained) <= 1 /\ Cardinality(lost) <= 1
  BY <1>2, <1>3, <1>4
<1> QED
  BY <1>5 DEF gained, lost

\* Every step balances: one step of the proof per action.
LEMMA StepMatter == TypeOK /\ TypeOK' /\ Next => MatterStep
<1> SUFFICES ASSUME TypeOK, TypeOK', Next
             PROVE  MatterStep
  OBVIOUS
<1>1. /\ cells \in Colony /\ cells' \in Colony
      /\ code \in [Code -> Nat] /\ code' \in [Code -> Nat]
      /\ Living \subseteq Name
  BY DEF TypeOK, Colony, Living
<1>2. \A x : Stock(cells, x) \in Nat /\ Stock(cells', x) \in Nat
  BY <1>1, HeldFinite DEF Stock
<1>3. \A x \in Code : Amount(x) \in Nat /\ Amount(x)' \in Nat
  BY <1>1, <1>2, AmountIs
<1> DEFINE Gain == {x \in Code : Amount(x)' > Amount(x)}
           Loss == {x \in Code : Amount(x)' < Amount(x)}
           Within == \A x \in Code : Amount(x)' - Amount(x) \in -1..1
           Births == Living \subseteq Living' /\ Living' # Living
<1>4. ASSUME NEW y, NEW z,
             \A x \in Code : /\ Amount(x)' - Amount(x) \in -1..1
                             /\ Amount(x)' > Amount(x) => x = y
                             /\ Amount(x)' < Amount(x) => x = z,
             Gain # {} => Living \subseteq Living' /\ (Living' # Living \/ UNCHANGED cells),
             Loss # {} => Births \/ (list = {} /\ code' = code)
      PROVE  MatterStep
  <2>1. Cardinality(Gain) <= 1 /\ Cardinality(Loss) <= 1
    BY <1>4, OneEach
  <2> QED
    BY <1>4, <2>1 DEF MatterStep, BalanceStep
<1>5. ASSUME \A x \in Code : Amount(x)' = Amount(x)
      PROVE  MatterStep
  <2>1. Gain = {} /\ Loss = {}
    BY <1>3, <1>5
  <2>2. \A x \in Code : /\ Amount(x)' - Amount(x) \in -1..1
                        /\ Amount(x)' > Amount(x) => x = 0
                        /\ Amount(x)' < Amount(x) => x = 0
    BY <1>3, <1>5
  <2> HIDE DEF Gain, Loss
  <2> QED
    BY <1>4, <2>1, <2>2
<1>6. CASE Refresh \/ Restart
  <2>1. cells' = cells /\ code' = code
    BY <1>6 DEF Refresh, Restart
  <2>2. \A x \in Code : Amount(x)' = Amount(x)
    BY <2>1, AmountIs
  <2> QED
    BY <1>5, <2>2
<1>7. ASSUME NEW y \in Code, Supply(y)
      PROVE  MatterStep
  <2>1. cells' = cells /\ code' = [code EXCEPT ![y] = @ + 1]
    BY <1>7 DEF Supply
  <2>2. \A x \in Code : Amount(x)' = (IF x = y THEN Amount(x) + 1 ELSE Amount(x))
    <3> SUFFICES ASSUME NEW x \in Code
                 PROVE  Amount(x)' = (IF x = y THEN Amount(x) + 1 ELSE Amount(x))
      OBVIOUS
    <3>1. Stock(cells', x) = Stock(cells, x)
      BY <2>1
    <3>2. code'[x] = IF x = y THEN code[x] + 1 ELSE code[x]
      BY <1>1, <2>1
    <3>3. code[x] \in Nat
      BY <1>1
    <3> QED
      BY <1>2, <3>1, <3>2, <3>3, AmountIs
  <2>3. \A x \in Code : /\ Amount(x)' - Amount(x) \in -1..1
                        /\ Amount(x)' > Amount(x) => x = y
                        /\ ~(Amount(x)' < Amount(x))
    BY <1>3, <2>2
  <2>4. Living' = Living
    BY <2>1 DEF Living
  <2>5. Loss = {}
    BY <2>3
  <2> HIDE DEF Gain, Loss
  <2> QED
    BY <1>4, <2>1, <2>3, <2>4, <2>5
<1>8. ASSUME NEW n \in Name, Bond(n)
      PROVE  MatterStep
  <2>1. PICK y \in Code, i \in DOMAIN cells[n].dna :
          /\ IsFirstFree(cells[n].dna, y, i)
          /\ code' = [code EXCEPT ![y] = @ - 1]
          /\ cells' = [cells EXCEPT ![n].dna = Bonded(@, i)]
    BY <1>8 DEF Bond
  <2>2. cells[n] \in Cell /\ cells[n] # Absent
    BY <1>1, <1>8 DEF Bond, Living, Colony
  <2>3. cells[n].dna \in Seq(Codon)
    BY <2>2 DEF Cell
  <2>4. /\ cells'[n].dna = Bonded(cells[n].dna, i)
        /\ \A m \in Name \ {n} : cells'[m] = cells[m]
    BY <1>1, <2>1, <2>2 DEF Colony, Cell
  <2>5. cells'[n] # Absent
    <3>1. cells'[n] = [cells[n] EXCEPT !.dna = Bonded(cells[n].dna, i)]
      BY <1>1, <2>1 DEF Colony
    <3>2. Bonded(cells[n].dna, i) \in Seq(Codon)
      BY <2>3, BondedDna
    <3>3. cells'[n] \in Cell
      BY <2>2, <3>1, <3>2 DEF Cell
    <3> QED
      BY <3>3
  <2>6. ASSUME NEW x \in Code
        PROVE  Amount(x)' = Amount(x)
    <3>1. Own(cells[n], x) = Remains(cells[n].dna, x)
            /\ Own(cells'[n], x) = Remains(Bonded(cells[n].dna, i), x)
      BY <2>2, <2>4, <2>5 DEF Own
    <3>2. Remains(Bonded(cells[n].dna, i), x)
            = IF x = y THEN Remains(cells[n].dna, x) + 1 ELSE Remains(cells[n].dna, x)
      BY <2>1, <2>3, BondRemains
    <3>3. /\ Stock(cells, x) \in Nat /\ Stock(cells', x) \in Nat
          /\ Own(cells[n], x) \in Nat /\ Own(cells'[n], x) \in Nat
          /\ Stock(cells', x) + Own(cells[n], x) = Stock(cells, x) + Own(cells'[n], x)
      BY <1>1, <2>4, StockSwap
    <3>4. code'[x] = (IF x = y THEN code[x] - 1 ELSE code[x]) /\ code[x] \in Nat
      BY <1>1, <2>1
    <3>5. Amount(x) = code[x] + Stock(cells, x) /\ Amount(x)' = code'[x] + Stock(cells', x)
      BY AmountIs
    <3>6. Stock(cells', x) = IF x = y THEN Stock(cells, x) + 1 ELSE Stock(cells, x)
      BY <3>1, <3>2, <3>3
    <3> QED
      BY <3>3, <3>4, <3>5, <3>6
  <2> QED
    BY <1>5, <2>6
<1>9. ASSUME NEW n \in Name, Age(n)
      PROVE  MatterStep
  <2>1. cells[n] \in Cell /\ cells[n] # Absent /\ code' = code
    BY <1>1, <1>9 DEF Age, Living, Colony
  <2>2. cells'[n] = [cells[n] EXCEPT !.left = cells[n].left - 1]
          /\ \A m \in Name \ {n} : cells'[m] = cells[m]
    BY <1>1, <1>9 DEF Age, Colony
  <2>3. cells'[n].dna = cells[n].dna /\ cells'[n] # Absent
    <3>1. cells[n] = [dna |-> cells[n].dna, body |-> cells[n].body,
                      life |-> cells[n].life, left |-> cells[n].left]
      BY <2>1 DEF Cell
    <3>2. cells'[n] = [dna |-> cells[n].dna, body |-> cells[n].body,
                       life |-> cells[n].life, left |-> cells[n].left - 1]
      BY <2>2, <3>1
    <3>3. cells[n].dna \in Seq(Codon) /\ cells'[n] \in Cell \cup {Absent}
      BY <1>1, <2>1 DEF Cell, Colony
    <3>4. cells[n].left - 1 \in 0..Word-1
      <4>1. Living = Alive(cells) /\ n \in Living /\ cells[n].left > 1 /\ cells[n].left \in 0..Word-1
        BY <1>9, <2>1, HeldCells DEF Age, Cell
      <4> QED
        BY <4>1
    <3>5. cells'[n] \in Cell
      BY <2>1, <3>2, <3>4 DEF Cell
    <3> QED
      BY <3>2, <3>5
  <2>4. ASSUME NEW x \in Code
        PROVE  Amount(x)' = Amount(x)
    <3>1. Own(cells'[n], x) = Own(cells[n], x)
      BY <2>1, <2>3 DEF Own
    <3>2. /\ Stock(cells, x) \in Nat /\ Stock(cells', x) \in Nat
          /\ Own(cells[n], x) \in Nat /\ Own(cells'[n], x) \in Nat
          /\ Stock(cells', x) + Own(cells[n], x) = Stock(cells, x) + Own(cells'[n], x)
      BY <1>1, <2>2, StockSwap
    <3>3. Stock(cells', x) = Stock(cells, x)
      BY <3>1, <3>2
    <3> QED
      BY <2>1, <3>3, AmountIs
  <2> QED
    BY <1>5, <2>4
<1>10. ASSUME NEW n \in Name, Die(n)
       PROVE  MatterStep
  <2>1. /\ cells[n] # Absent /\ cells'[n] = Absent
        /\ \A m \in Name \ {n} : cells'[m] = cells[m]
        /\ \A x \in Code : code'[x] = code[x] + Remains(cells[n].dna, x)
    BY <1>1, <1>10 DEF Die, Released, Living, Colony
  <2>2. ASSUME NEW x \in Code
        PROVE  Amount(x)' = Amount(x)
    <3>1. Own(cells'[n], x) = 0 /\ Own(cells[n], x) = Remains(cells[n].dna, x)
      BY <2>1 DEF Own
    <3>2. /\ Stock(cells, x) \in Nat /\ Stock(cells', x) \in Nat
          /\ Own(cells[n], x) \in Nat /\ Own(cells'[n], x) \in Nat
          /\ Stock(cells', x) + Own(cells[n], x) = Stock(cells, x) + Own(cells'[n], x)
      BY <1>1, <2>1, StockSwap
    <3>3. Amount(x) = code[x] + Stock(cells, x) /\ Amount(x)' = code'[x] + Stock(cells', x)
      BY AmountIs
    <3>4. code[x] \in Nat /\ code'[x] = code[x] + Remains(cells[n].dna, x)
      BY <1>1, <2>1
    <3> QED
      BY <3>1, <3>2, <3>3, <3>4
  <2> QED
    BY <1>5, <2>2
<1>11. ASSUME NEW n \in Name, NEW m \in Name, Divide(n, m)
       PROVE  MatterStep
  <2> DEFINE c == cells[n]
             growing == Len(c.dna) < MaxDna /\ Matter < MaxMatter
             p == [c EXCEPT !.dna = Cleared(@)]
             mid == [cells EXCEPT ![n] = p]
  <2>1. /\ c \in Cell /\ c # Absent /\ cells[m] = Absent /\ m # n
        /\ Dividable(c.dna) /\ code' = code /\ n \in Living /\ m \notin Living
    BY <1>1, <1>11 DEF Divide, Living, Colony
  <2>2. PICK child \in Children(c, list, growing) :
          cells' = [cells EXCEPT ![n].dna = Cleared(@), ![m] = child]
    BY <1>11 DEF Divide
  <2>3. c.dna \in Seq(Codon) /\ list \in SUBSET Code
    BY <2>1 DEF Cell, TypeOK
  <2>4. p \in Cell /\ p.dna = Cleared(c.dna) /\ p # Absent
    <3>1. Cleared(c.dna) \in Seq(Codon)
      BY <2>3, ClearedDna
    <3>2. p = [dna |-> Cleared(c.dna), body |-> c.body, life |-> c.life, left |-> c.left]
      BY <2>1 DEF Cell
    <3>3. p \in Cell
      BY <2>1, <3>1, <3>2 DEF Cell
    <3> QED
      BY <3>2, <3>3
  <2>5. PICK d, life :
          /\ d \in NewDnas(c.dna, list, growing)
          /\ child = Child(c, d, life) /\ (life = c.life \/ life = LifeOf(Len(d)))
    <3> HIDE DEF c, growing
    <3> QED
      BY <2>2, ChildOfDna
  <2>6. child.dna = d /\ d \in Seq(Codon) /\ \A j \in DOMAIN d : ~d[j].buffered
    <3>1. d \in Seq(Codon) /\ \A j \in DOMAIN d : ~d[j].buffered
      <4> HIDE DEF c, growing
      <4> QED
        BY <2>3, <2>5, NewDna
    <3>2. child.dna = d
      BY <2>1, <2>5 DEF Child, Cell
    <3> QED
      BY <3>1, <3>2
  <2>7. mid \in Colony /\ mid[m] = Absent /\ mid[n] = p
          /\ \A k \in Name \ {n} : mid[k] = cells[k]
    BY <1>1, <2>1, <2>4 DEF Colony
  <2>8. cells' = [mid EXCEPT ![m] = child]
    BY <2>2
  <2>9. cells'[m] = child /\ \A k \in Name \ {m} : cells'[k] = mid[k]
    <3> HIDE DEF mid
    <3> QED
      BY <2>7, <2>8 DEF Colony
  <2>10. cells'[n] = p
    BY <2>1, <2>7, <2>9
  <2>11. child # Absent
    <3>1. child = [dna |-> d, body |-> Protein(c.dna), life |-> life, left |-> life]
      BY <2>1, <2>5 DEF Child, Cell
    <3>2. c.life \in 0..Word-1 /\ Len(d) \in Nat /\ Protein(c.dna) \in Seq(Code)
      BY <2>1, <2>3, <2>6, ProteinSeq DEF Cell
    <3>3. life \in 0..Word-1
      BY <2>5, <3>2, LifeOfWord
    <3>4. child \in Cell
      BY <2>6, <3>1, <3>2, <3>3 DEF Cell
    <3> QED
      BY <3>4
  <2>12. OneChange(c.dna, d)
    <3> HIDE DEF c, growing
    <3> QED
      BY <2>3, <2>5, NewDnaCount
  <2> HIDE DEF c, p, mid, growing
  <2>13. ASSUME NEW x \in Code
         PROVE  /\ Amount(x)' - Amount(x)
                     = Cardinality(CodonsOf(d, x)) - Cardinality(CodonsOf(c.dna, x))
                /\ Cardinality(CodonsOf(d, x)) \in Nat
                /\ Cardinality(CodonsOf(c.dna, x)) \in Nat
    <3> DEFINE before == Cardinality(CodonsOf(c.dna, x))
               born == Cardinality(CodonsOf(d, x))
    <3>1. before \in Nat /\ born \in Nat
      BY <2>3, <2>6, CodonsFinite
    <3>2. Own(cells[n], x) = before + before
      BY <2>1, <2>3, FullRemains DEF Own, c
    <3>3. Own(mid[n], x) = before
      <4>1. Cleared(c.dna) \in Seq(Codon) /\ \A j \in DOMAIN Cleared(c.dna) : ~Cleared(c.dna)[j].buffered
        BY <2>3, ClearedDna, ClearedFresh
      <4>2. CodonsOf(Cleared(c.dna), x) = CodonsOf(c.dna, x)
        BY <2>3, ClearedCodons
      <4>3. Cardinality(CodonsOf(Cleared(c.dna), x)) = before
        BY <4>2, Zenon
      <4>4. Remains(Cleared(c.dna), x) = before
        BY <4>1, <4>3, FreshRemains
      <4> QED
        BY <2>4, <2>7, <4>4 DEF Own
    <3>4. Own(mid[m], x) = 0 /\ Own(cells'[m], x) = born
      BY <2>6, <2>7, <2>9, <2>11, FreshRemains DEF Own
    <3>5. /\ Stock(cells, x) \in Nat /\ Stock(mid, x) \in Nat
          /\ Stock(mid, x) + Own(cells[n], x) = Stock(cells, x) + Own(mid[n], x)
      BY <1>1, <2>7, StockSwap
    <3>6. /\ Stock(cells', x) \in Nat
          /\ Stock(cells', x) + Own(mid[m], x) = Stock(mid, x) + Own(cells'[m], x)
      BY <1>1, <2>7, <2>9, StockSwap
    <3>7. Amount(x) = code[x] + Stock(cells, x) /\ Amount(x)' = code[x] + Stock(cells', x)
            /\ code[x] \in Nat
      BY <1>1, <2>1, AmountIs
    <3> HIDE DEF before, born
    <3>8. Amount(x)' - Amount(x) = born - before
      BY <3>1, <3>2, <3>3, <3>4, <3>5, <3>6, <3>7
    <3> QED
      BY <3>1, <3>8 DEF before, born
  <2>14. PICK y, z : \A x :
           /\ Cardinality(CodonsOf(d, x)) - Cardinality(CodonsOf(c.dna, x)) \in -1..1
           /\ Cardinality(CodonsOf(d, x)) > Cardinality(CodonsOf(c.dna, x)) => x = y
           /\ Cardinality(CodonsOf(d, x)) < Cardinality(CodonsOf(c.dna, x)) => x = z
    BY <2>12 DEF OneChange
  <2>15. \A x \in Code : /\ Amount(x)' - Amount(x) \in -1..1
                         /\ Amount(x)' > Amount(x) => x = y
                         /\ Amount(x)' < Amount(x) => x = z
    <3> SUFFICES ASSUME NEW x \in Code
                 PROVE  /\ Amount(x)' - Amount(x) \in -1..1
                        /\ Amount(x)' > Amount(x) => x = y
                        /\ Amount(x)' < Amount(x) => x = z
      OBVIOUS
    <3>1. Amount(x) \in Nat /\ Amount(x)' \in Nat
      BY <1>3
    <3> QED
      BY <2>13, <2>14, <3>1
  <2>16. Living' = Living \cup {m}
    <3>1. \A k \in Name : cells'[k] # Absent <=> cells[k] # Absent \/ k = m
      BY <2>1, <2>4, <2>7, <2>9, <2>10, <2>11 DEF c
    <3> QED
      BY <3>1 DEF Living
  <2>17. Births
    BY <2>1, <2>16
  <2> HIDE DEF Gain, Loss
  <2> QED
    BY <1>4, <2>15, <2>17
<1>12. ASSUME NEW n \in Name, Arrive(n)
       PROVE  MatterStep
  <2>1. Arrived
    BY <1>12 DEF Arrive, Arrived
  <2> QED
    BY <2>1 DEF MatterStep
<1>13. ASSUME NEW n \in Name, DrawFails(n)
       PROVE  MatterStep
  <2>1. list = {} /\ code' = code /\ Dividable(cells[n].dna)
    BY <1>13 DEF DrawFails
  <2>0. PICK i \in DOMAIN cells[n].dna : cells' = [cells EXCEPT ![n].dna = Unbonded(@, i)]
    BY <1>13 DEF DrawFails
  <2> DEFINE y == cells[n].dna[i].code
  <2>2. cells[n] \in Cell /\ cells[n] # Absent
    BY <1>1, <1>13 DEF DrawFails, Living, Colony
  <2>3. cells[n].dna \in Seq(Codon)
    BY <2>2 DEF Cell
  <2>4. /\ cells'[n].dna = Unbonded(cells[n].dna, i)
        /\ \A m \in Name \ {n} : cells'[m] = cells[m]
    BY <1>1, <2>0, <2>2 DEF Colony, Cell
  <2>5. cells'[n] # Absent
    <3>1. cells'[n] = [cells[n] EXCEPT !.dna = Unbonded(cells[n].dna, i)]
      BY <1>1, <2>0 DEF Colony
    <3>2. Unbonded(cells[n].dna, i) \in Seq(Codon)
      BY <2>3, UnbondedDna
    <3>3. cells'[n] \in Cell
      BY <2>2, <3>1, <3>2 DEF Cell
    <3> QED
      BY <3>3
  <2>6. ASSUME NEW x \in Code
        PROVE  Amount(x)' = (IF x = y THEN Amount(x) - 1 ELSE Amount(x))
    <3>1. Own(cells[n], x) = Remains(cells[n].dna, x)
            /\ Own(cells'[n], x) = Remains(Unbonded(cells[n].dna, i), x)
      BY <2>2, <2>4, <2>5 DEF Own
    <3>2. Unbonded(cells[n].dna, i) \in Seq(Codon)
      BY <2>3, UnbondedDna
    <3>3. /\ Bonded(Unbonded(cells[n].dna, i), i) = cells[n].dna
          /\ IsFirstFree(Unbonded(cells[n].dna, i), y, i)
      BY <2>1, <2>3, UnbondedLast
    <3> HIDE DEF y
    <3>4. Remains(Bonded(Unbonded(cells[n].dna, i), i), x)
            = IF x = y THEN Remains(Unbonded(cells[n].dna, i), x) + 1
                       ELSE Remains(Unbonded(cells[n].dna, i), x)
      BY <3>2, <3>3, BondRemains
    <3>5. Own(cells[n], x) = IF x = y THEN Own(cells'[n], x) + 1 ELSE Own(cells'[n], x)
      BY <3>1, <3>3, <3>4
    <3>6. /\ Stock(cells, x) \in Nat /\ Stock(cells', x) \in Nat
          /\ Own(cells[n], x) \in Nat /\ Own(cells'[n], x) \in Nat
          /\ Stock(cells', x) + Own(cells[n], x) = Stock(cells, x) + Own(cells'[n], x)
      BY <1>1, <2>4, StockSwap
    <3>7. Amount(x) = code[x] + Stock(cells, x) /\ Amount(x)' = code[x] + Stock(cells', x)
            /\ code[x] \in Nat
      BY <1>1, <2>1, AmountIs
    <3>8. CASE x = y
      <4>1. Own(cells[n], x) = Own(cells'[n], x) + 1
        BY <3>5, <3>8
      <4>2. Stock(cells', x) = Stock(cells, x) - 1
        BY <3>6, <4>1
      <4>3. Amount(x)' = Amount(x) - 1
        BY <3>6, <3>7, <4>2
      <4> QED
        BY <3>8, <4>3
    <3>9. CASE x # y
      <4>1. Own(cells[n], x) = Own(cells'[n], x)
        BY <3>5, <3>9
      <4>2. Stock(cells', x) = Stock(cells, x)
        BY <3>6, <4>1
      <4>3. Amount(x)' = Amount(x)
        BY <3>7, <4>2
      <4> QED
        BY <3>9, <4>3
    <3> QED
      BY <3>8, <3>9
  <2> HIDE DEF y
  <2>7. \A x \in Code : /\ Amount(x)' - Amount(x) \in -1..1
                        /\ ~(Amount(x)' > Amount(x))
                        /\ Amount(x)' < Amount(x) => x = y
    <3> SUFFICES ASSUME NEW x \in Code
                 PROVE  /\ Amount(x)' - Amount(x) \in -1..1
                        /\ ~(Amount(x)' > Amount(x))
                        /\ Amount(x)' < Amount(x) => x = y
      OBVIOUS
    <3>1. Amount(x) \in Nat /\ Amount(x)' \in Nat
      BY <1>3
    <3> QED
      BY <2>6, <3>1
  <2>8. Gain = {}
    BY <2>7
  <2> HIDE DEF Gain, Loss
  <2> QED
    BY <1>4, <2>1, <2>7, <2>8
<1> QED
  BY <1>6, <1>7, <1>8, <1>9, <1>10, <1>11, <1>12, <1>13 DEF Next

(***************************************************************************)
(* Matter is neither made nor lost, step by step, except by a mutation, by *)
(* one instruction, by the user, and by a draw from an empty list          *)
(* (cell.c:86, 192-461, 598, sysenv.c:282).                                *)
(***************************************************************************)
THEOREM MatterTheorem == Spec => MatterBalances
<1>1. Spec => [][TypeOK /\ TypeOK' /\ Next]_vars
  BY TypeCorrect, PTL DEF Spec
<1>2. [TypeOK /\ TypeOK' /\ Next]_vars => [MatterStep]_vars
  BY StepMatter
<1> QED
  BY <1>1, <1>2, PTL DEF MatterBalances

-----------------------------------------------------------------------------
(* Matter limits the population: with a protected tail every cell has a    *)
(* codon, and one that can divide has a compound besides.                  *)

\* The union of finitely many finite sets, one for each instruction.
LEMMA FiniteByCode ==
  ASSUME NEW f, DOMAIN f = Code, \A x \in Code : IsFiniteSet(f[x])
  PROVE  IsFiniteSet(UNION {f[x] : x \in Code})
<1> DEFINE T == {f[x] : x \in Code}
           R == [x \in Code |-> f[x]]
<1>1. R \in Surjection(Code, T)
  BY DEF Surjection
<1>2. \A t \in T : IsFiniteSet(t)
  OBVIOUS
<1> HIDE DEF R, T
<1>3. IsFiniteSet(T)
  BY <1>1, FS_Surjection
<1>4. IsFiniteSet(UNION T)
  BY <1>2, <1>3, FS_UNION
<1> QED
  BY <1>4 DEF T

LEMMA NamesLeft == Tail0 # <<>> /\ IInv => NameAvailable
<1> SUFFICES ASSUME Tail0 # <<>>, IInv, NEW k \in Living, Dividable(cells[k].dna)
             PROVE  Cardinality(Living) < Matter
  BY DEF NameAvailable
<1> DEFINE all == UNION {Held(x) : x \in Code}
           Row(x) == {<<x, i>> : i \in 1..code[x]}
           stored == UNION {Row(x) : x \in Code}
           S == {<<n, 1, "codon">> : n \in Living}
           t == <<k, 1, "compound">>
<1>1. cells \in Colony /\ code \in [Code -> Nat] /\ IsFiniteSet(Name) /\ IsFiniteSet(Code)
        /\ Living \in SUBSET Name
  BY DEF IInv, TypeOK, Colony, Living
<1>2. ASSUME NEW n \in Living
      PROVE  /\ 1 \in DOMAIN cells[n].dna /\ cells[n].dna[1].code \in Code
             /\ cells[n].dna \in Seq(Codon)
  <2>1. cells[n].dna \in Seq(Codon) /\ Len(Tail0) <= Len(cells[n].dna)
    BY <1>1 DEF IInv, TailIntact, EndsWith, Colony, Living, Cell
  <2>2. Tail0 \in Seq(Gene) /\ Len(Tail0) >= 1
    OBVIOUS
  <2>3. 1 \in DOMAIN cells[n].dna /\ cells[n].dna[1] \in Codon
    BY <2>1, <2>2
  <2> QED
    BY <2>1, <2>3 DEF Codon
<1>3. IsFiniteSet(all)
  <2> DEFINE f == [x \in Code |-> Held(x)]
  <2>1. \A x \in Code : IsFiniteSet(Held(x))
    <3>1. \A x : IsFiniteSet(HeldBy(cells, Living, x))
      BY <1>1, HeldFinite, HeldCells
    <3> QED
      BY <3>1, HeldCells
  <2>2. DOMAIN f = Code /\ \A x \in Code : IsFiniteSet(f[x])
    BY <2>1
  <2>3. IsFiniteSet(UNION {f[x] : x \in Code})
    <3> HIDE DEF f
    <3> QED
      BY <2>2, FiniteByCode
  <2>4. {f[x] : x \in Code} = {Held(x) : x \in Code}
    OBVIOUS
  <2> QED
    BY <2>3, <2>4, Zenon
<1>4. IsFiniteSet(stored)
  <2> DEFINE f == [x \in Code |-> Row(x)]
  <2>1. ASSUME NEW x \in Code
        PROVE  IsFiniteSet(Row(x))
    <3>1. code[x] \in Nat
      BY <1>1
    <3>2. IsFiniteSet(1..code[x])
      BY <3>1, FS_Interval
    <3>3. IsFiniteSet({x} \X (1..code[x]))
      BY <3>2, FS_Singleton, FS_Product
    <3>4. Row(x) \in SUBSET ({x} \X (1..code[x]))
      OBVIOUS
    <3> HIDE DEF Row
    <3> QED
      BY <3>3, <3>4, FS_Subset
  <2> HIDE DEF Row
  <2>2. DOMAIN f = Code /\ \A x \in Code : IsFiniteSet(f[x])
    BY <2>1
  <2>3. IsFiniteSet(UNION {f[x] : x \in Code})
    <3> HIDE DEF f
    <3> QED
      BY <2>2, FiniteByCode
  <2>4. {f[x] : x \in Code} = {Row(x) : x \in Code}
    OBVIOUS
  <2> QED
    BY <2>3, <2>4, Zenon
<1>5. IsFiniteSet(Living)
  BY <1>1, FS_Subset
<1>6. IsFiniteSet(S) /\ Cardinality(S) = Cardinality(Living)
  <2> DEFINE f == [n \in Living |-> <<n, 1, "codon">>]
  <2>1. f \in [Living -> S] /\ (\A a, b \in Living : f[a] = f[b] => a = b)
          /\ \A s \in S : \E n \in Living : f[n] = s
    OBVIOUS
  <2> HIDE DEF S, f
  <2> QED
    BY <1>5, <2>1, SameSize
<1>7. S \cup {t} \in SUBSET all
  <2>1. ASSUME NEW n \in Living
        PROVE  <<n, 1, "codon">> \in Held(cells[n].dna[1].code)
    BY <1>2 DEF Held
  <2>2. t \in Held(cells[k].dna[1].code)
    BY <1>2 DEF Held, Dividable
  <2>3. cells[k].dna[1].code \in Code /\ \A n \in Living : cells[n].dna[1].code \in Code
    BY <1>2
  <2>4. t \in all
    BY <2>2, <2>3
  <2>5. ASSUME NEW n \in Living
        PROVE  <<n, 1, "codon">> \in all
    BY <2>1, <2>3
  <2>6. S \subseteq all
    BY <2>5
  <2> QED
    BY <2>4, <2>6
<1>8. t \notin S
  OBVIOUS
<1> HIDE DEF all, stored, S, t
<1>9. IsFiniteSet(S \cup {t}) /\ Cardinality(S \cup {t}) = Cardinality(S) + 1
  BY <1>6, <1>8, FS_AddElement
<1>10. Cardinality(S \cup {t}) <= Cardinality(all)
  BY <1>3, <1>7, FS_Subset
<1>11. Cardinality(Living) \in Nat /\ Cardinality(all) \in Nat /\ Cardinality(stored) \in Nat
  BY <1>3, <1>4, <1>5, FS_CardinalityType
<1>12. Matter = Cardinality(all) + Cardinality(stored)
  BY Zenon DEF Matter, all, stored
<1> QED
  BY <1>6, <1>9, <1>10, <1>11, <1>12

(***************************************************************************)
(* As long as founders have a protected tail, a cell that can divide finds *)
(* a name (docs/exercise/README.md:83, create_filename).                   *)
(***************************************************************************)
THEOREM NameTheorem == Tail0 # <<>> /\ Spec => []NameAvailable
<1> SUFFICES ASSUME Tail0 # <<>> PROVE Spec => []NameAvailable
  OBVIOUS
<1>1. IInv => NameAvailable
  BY NamesLeft
<1> QED
  BY Invariance, <1>1, PTL
============================================================================
