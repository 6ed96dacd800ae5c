---------------------------- MODULE OutputProofs ----------------------------
(***************************************************************************)
(* Theorems about what the process and the evaluators write and read:      *)
(* Evaluation, for any founders made of the instructions of the samples,   *)
(* any evaluators, any number of generations and mutations; and Dump, for  *)
(* DNAs of any length and the cells its buffer is meant for.               *)
(***************************************************************************)
EXTENDS Evaluation, Dump, DnaProofs, WellFoundedInduction

-----------------------------------------------------------------------------
(* Induction over the positions of a sequence *)

\* A set of natural numbers that is not empty has a least element.
LEMMA LeastElement ==
  ASSUME NEW T, T \subseteq Nat, T # {}
  PROVE  \E n \in T : \A m \in T : n <= m
<1>1. PICK x \in T : \A y \in T : ~ (<<y, x>> \in OpToRel(<, Nat))
  BY NatLessThanWellFounded, WFMin
<1>2. \A y \in T : ~(y < x)
  BY <1>1 DEF OpToRel
<1> QED
  BY <1>2

\* Induction, with a set in the place of the predicate: the least number that
\* is not in T would have a predecessor that is.
LEMMA Induction ==
  ASSUME NEW T, 0 \in T, \A n \in Nat : n \in T => n + 1 \in T
  PROVE  \A n \in Nat : n \in T
<1> SUFFICES ASSUME {n \in Nat : n \notin T} # {}
             PROVE  FALSE
  OBVIOUS
<1>1. PICK n \in {k \in Nat : k \notin T} : \A m \in {k \in Nat : k \notin T} : n <= m
  BY LeastElement
<1>2. n \in Nat /\ n # 0 /\ n \notin T
  BY <1>1
<1>3. n - 1 \in Nat /\ ~(n <= n - 1) /\ n - 1 + 1 = n
  BY <1>2
<1> QED
  BY <1>1, <1>2, <1>3

\* The same for the steps of a loop that ends at n.
LEMMA LoopInduction ==
  ASSUME NEW n \in Nat, NEW T, 0 \in T, \A k \in 1..n : k - 1 \in T => k \in T
  PROVE  \A k \in 0..n : k \in T
<1> DEFINE U == {k \in Nat : k <= n => k \in T}
<1>1. 0 \in U
  OBVIOUS
<1>2. \A k \in Nat : k \in U => k + 1 \in U
  OBVIOUS
<1> HIDE DEF U
<1>3. \A k \in Nat : k \in U
  BY <1>1, <1>2, Induction
<1> QED
  BY <1>3 DEF U

\* f holds the values of a loop of n steps, the k-th of which applies g[k].
Loop(f, S, base, n, g) ==
  /\ f \in [0..n -> S]
  /\ f[0] = base
  /\ \A k \in 1..n : f[k] = g[k][f[k - 1]]

\* Every loop has its values: what makes a function that is defined by
\* recursion over the positions of a sequence more than an arbitrary choice.
LEMMA LoopExists ==
  ASSUME NEW S, NEW base, NEW n, NEW g,
         base \in S, n \in Nat, g \in [1..n -> [S -> S]]
  PROVE  \E f : Loop(f, S, base, n, g)
<1> DEFINE Good(m, f) == f[0] = base /\ \A k \in 1..m : f[k] = g[k][f[k - 1]]
           T == {m \in 0..n : \E f \in [0..m -> S] : Good(m, f)}
<1>1. 0 \in T
  <2> DEFINE h == [k \in 0..0 |-> base]
  <2>1. h \in [0..0 -> S] /\ Good(0, h)
    OBVIOUS
  <2>2. 0 \in 0..n
    OBVIOUS
  <2> HIDE DEF h, Good
  <2> QED
    BY <2>1, <2>2
<1>2. ASSUME NEW m \in 1..n, m - 1 \in T
      PROVE  m \in T
  <2>1. PICK f \in [0..(m - 1) -> S] : Good(m - 1, f)
    BY <1>2
  <2> DEFINE h == [k \in 0..m |-> IF k = m THEN g[m][f[m - 1]] ELSE f[k]]
  <2>2. f[m - 1] \in S /\ g[m] \in [S -> S] /\ \A k \in 0..m : k # m => k \in 0..(m - 1)
    OBVIOUS
  <2>3. h \in [0..m -> S]
    BY <2>2
  <2>4. h[0] = base
    BY <2>1
  <2>5. ASSUME NEW k \in 1..m
        PROVE  h[k] = g[k][h[k - 1]]
    <3>1. k \in 0..m /\ k - 1 \in 0..m /\ k - 1 # m
      OBVIOUS
    <3>2. h[k - 1] = f[k - 1]
      BY <3>1
    <3>3. CASE k = m
      BY <3>1, <3>2, <3>3
    <3>4. CASE k # m
      <4>1. k \in 1..(m - 1) /\ h[k] = f[k]
        BY <3>1, <3>4
      <4> QED
        BY <2>1, <3>2, <4>1
    <3> QED
      BY <3>3, <3>4
  <2>6. m \in 0..n
    OBVIOUS
  <2>7. Good(m, h)
    <3> HIDE DEF h
    <3> QED
      BY <2>4, <2>5
  <2> HIDE DEF h, Good
  <2> QED
    BY <2>3, <2>6, <2>7
<1>3. \A k \in 0..n : k \in T
  <2> HIDE DEF T
  <2> QED
    BY <1>1, <1>2, LoopInduction
<1>4. n \in T
  <2> HIDE DEF T
  <2> QED
    BY <1>3
<1> QED
  BY <1>4 DEF Loop

\* The elements of two sequences that are joined.
LEMMA TwoJoined ==
  ASSUME NEW S, NEW s \in Seq(S), NEW t \in Seq(S)
  PROVE  /\ s \o t \in Seq(S)
         /\ Len(s \o t) = Len(s) + Len(t)
         /\ DOMAIN (s \o t) = 1..Len(s) + Len(t)
         /\ \A k \in 1..Len(s) : (s \o t)[k] = s[k]
         /\ \A k \in 1..Len(t) : (s \o t)[Len(s) + k] = t[k]
<1>1. Len(s) \in Nat /\ Len(t) \in Nat
  OBVIOUS
<1>2. /\ s \o t \in Seq(S)
      /\ Len(s \o t) = Len(s) + Len(t)
      /\ \A k \in 1..Len(s) + Len(t) :
           (s \o t)[k] = IF k <= Len(s) THEN s[k] ELSE t[k - Len(s)]
  BY ConcatProperties
<1>3. \A k \in 1..Len(s) : k \in 1..Len(s) + Len(t) /\ k <= Len(s)
  BY <1>1
<1>4. \A k \in 1..Len(t) : /\ Len(s) + k \in 1..Len(s) + Len(t)
                           /\ ~(Len(s) + k <= Len(s)) /\ Len(s) + k - Len(s) = k
  BY <1>1
<1>5. DOMAIN (s \o t) = 1..Len(s) + Len(t)
  BY <1>2
<1>6. \A k \in 1..Len(t) : (s \o t)[Len(s) + k] = t[k]
  BY <1>2, <1>4
<1> QED
  BY <1>2, <1>3, <1>5, <1>6

\* f holds the values of the loop that joins n sequences.
Joins(f, S, n, part) ==
  /\ f \in [0..n -> Seq(S)]
  /\ f[0] = <<>>
  /\ \A k \in 1..n : f[k] = f[k - 1] \o part[k]

LEMMA JoinExists ==
  ASSUME NEW S, NEW n, NEW part, n \in Nat, part \in [1..n -> Seq(S)]
  PROVE  \E f : Joins(f, S, n, part)
<1> DEFINE g == [k \in 1..n |-> [s \in Seq(S) |-> s \o part[k]]]
<1>1. g \in [1..n -> [Seq(S) -> Seq(S)]]
  OBVIOUS
<1>2. <<>> \in Seq(S)
  OBVIOUS
<1>3. \A k \in 1..n : \A s \in Seq(S) : g[k][s] = s \o part[k]
  OBVIOUS
<1> HIDE DEF g
<1>4. PICK f : Loop(f, Seq(S), <<>>, n, g)
  BY <1>1, <1>2, LoopExists
<1>5. f \in [0..n -> Seq(S)] /\ f[0] = <<>>
  BY <1>4 DEF Loop
<1>6. ASSUME NEW k \in 1..n
      PROVE  f[k] = f[k - 1] \o part[k]
  <2>1. k - 1 \in 0..n
    OBVIOUS
  <2>2. f[k - 1] \in Seq(S)
    BY <1>5, <2>1
  <2>3. f[k] = g[k][f[k - 1]]
    BY <1>4 DEF Loop
  <2> QED
    BY <1>3, <2>2, <2>3
<1> QED
  BY <1>5, <1>6 DEF Joins

\* What FlattenSeq (community module SequencesExt) computes.
LEMMA FlattenIsJoin ==
  ASSUME NEW S, NEW seqs \in Seq(Seq(S))
  PROVE  \E f : Joins(f, S, Len(seqs), seqs) /\ SeqX!FlattenSeq(seqs) = f[Len(seqs)]
<1> DEFINE n == Len(seqs)
           F(h) == [i \in 1..n |-> IF i = 1 THEN seqs[i] ELSE h[i - 1] \o seqs[i]]
           c == CHOOSE h : h = F(h)
<1>0. n \in Nat /\ seqs \in [1..n -> Seq(S)]
  OBVIOUS
<1>joined. PICK f : Joins(f, S, n, seqs)
  BY <1>0, JoinExists
<1>1. /\ f \in [0..n -> Seq(S)] /\ f[0] = <<>>
      /\ \A k \in 1..n : f[k] = f[k - 1] \o seqs[k]
  BY <1>joined DEF Joins
<1>2. CASE n = 0
  <2>1. seqs = <<>>
    BY <1>2
  <2>2. SeqX!FlattenSeq(seqs) = f[n]
    BY <1>1, <1>2, <2>1 DEF SeqX!FlattenSeq
  <2> QED
    BY <1>joined, <2>2
<1>3. CASE n # 0
  <2>1. f[1] = seqs[1]
    <3>1. 1 \in 1..n /\ seqs[1] \in Seq(S)
      BY <1>0, <1>3
    <3>2. f[1] = f[1 - 1] \o seqs[1]
      BY <1>1, <3>1
    <3>3. <<>> \o seqs[1] = seqs[1]
      BY <3>1
    <3>4. f[1 - 1] = <<>>
      BY <1>1
    <3> QED
      BY <3>2, <3>3, <3>4
  <2> DEFINE h == [i \in 1..n |-> f[i]]
  <2>2. h = F(h)
    <3>1. ASSUME NEW i \in 1..n
          PROVE  h[i] = IF i = 1 THEN seqs[i] ELSE h[i - 1] \o seqs[i]
      <4>1. h[i] = f[i] /\ (i # 1 => i - 1 \in 1..n)
        BY <1>0
      <4>2. i # 1 => h[i - 1] = f[i - 1]
        BY <4>1
      <4>3. f[i] = f[i - 1] \o seqs[i]
        BY <1>1
      <4> HIDE DEF h
      <4> QED
        BY <2>1, <4>1, <4>2, <4>3
    <3> QED
      BY <3>1
  <2>3. c = F(c)
    BY <2>2
  <2>4. SeqX!FlattenSeq(seqs) = c[n]
    BY <1>3 DEF SeqX!FlattenSeq
  <2> HIDE DEF c
  <2> DEFINE T == {k \in Nat : k # 0 => c[k] = f[k]}
  <2>5. 0 \in T
    OBVIOUS
  <2>6. ASSUME NEW k \in 1..n, k - 1 \in T
        PROVE  k \in T
    <3>1. c[k] = IF k = 1 THEN seqs[k] ELSE c[k - 1] \o seqs[k]
      BY <2>3
    <3>2. k # 1 => c[k - 1] = f[k - 1]
      BY <2>6
    <3>3. f[k] = f[k - 1] \o seqs[k]
      BY <1>1
    <3>4. k \in Nat
      BY <1>0
    <3> QED
      BY <2>1, <3>1, <3>2, <3>3, <3>4
  <2>7. \A k \in 0..n : k \in T
    <3> HIDE DEF T, n
    <3> QED
      BY <1>0, <2>5, <2>6, LoopInduction
  <2>8. c[n] = f[n]
    <3>1. n \in T
      <4> HIDE DEF T, n
      <4> QED
        BY <1>0, <2>7
    <3> QED
      BY <1>3, <3>1
  <2> QED
    BY <1>joined, <2>4, <2>8
<1> QED
  BY <1>2, <1>3

-----------------------------------------------------------------------------
(* The bytes and the listing of a protein *)

\* An instruction has bytes.
LEMMA MachineBytes ==
  ASSUME NEW x \in Instructions
  PROVE  Machine(x) \in Seq(Int) /\ Machine(x) # <<>>
<1>1. CASE x \in Adds
  <2>1. PICK n \in DOMAIN AddName : AddName[n] = x
    BY <1>1 DEF Adds
  <2>2. Amount(x) \in DOMAIN AddName
    BY <2>1 DEF Amount
  <2>3. Amount(x) \in Int
    BY <2>2 DEF AddName
  <2>4. x \in {"add_33_rsi", "add_34_rsi", "add_41_rsi", "add_70_rsi", "add_77_rsi", "add_80_rsi"}
    BY <2>1 DEF AddName
  <2>5. Machine(x) = <<72, 131, 198, Amount(x)>>
    BY <1>1, <2>4 DEF Machine
  <2> QED
    BY <2>3, <2>5
<1>2. CASE x \notin Adds
  <2>1. x \in {"mov_1_rdi", "mov_buf_rsi", "sub_1_rsi", "mov_1_rdx", "mov_1_rax", "mov_60_rax",
               "syscall", "write", "exit", "xor_rdi_rdi", "ret"}
    BY <1>2 DEF Instructions
  <2>2. CASE x = "mov_1_rdi"
    <3>1. Machine(x) = <<72, 199, 199, 1, 0, 0, 0>>
      BY <1>2, <2>2 DEF Machine
    <3> QED
      BY <3>1
  <2>3. CASE x = "mov_buf_rsi"
    <3>1. Machine(x) = <<72, 199, 198, 120, 0, 64, 0>>
      BY <1>2, <2>3 DEF Machine
    <3> QED
      BY <3>1
  <2>4. CASE x = "sub_1_rsi"
    <3>1. Machine(x) = <<72, 131, 238, 1>>
      BY <1>2, <2>4 DEF Machine
    <3> QED
      BY <3>1
  <2>5. CASE x = "mov_1_rdx"
    <3>1. Machine(x) = <<72, 199, 194, 1, 0, 0, 0>>
      BY <1>2, <2>5 DEF Machine
    <3> QED
      BY <3>1
  <2>6. CASE x = "mov_1_rax"
    <3>1. Machine(x) = <<72, 199, 192, 1, 0, 0, 0>>
      BY <1>2, <2>6 DEF Machine
    <3> QED
      BY <3>1
  <2>7. CASE x = "mov_60_rax"
    <3>1. Machine(x) = <<72, 199, 192, 60, 0, 0, 0>>
      BY <1>2, <2>7 DEF Machine
    <3> QED
      BY <3>1
  <2>8. CASE x = "syscall"
    <3>1. Machine(x) = <<15, 5>>
      BY <1>2, <2>8 DEF Machine
    <3> QED
      BY <3>1
  <2>9. CASE x = "write"
    <3>1. Machine(x) = <<72, 49, 192, 176, 1, 15, 5>>
      BY <1>2, <2>9 DEF Machine
    <3> QED
      BY <3>1
  <2>10. CASE x = "exit"
    <3>1. Machine(x) = <<72, 49, 192, 176, 60, 15, 5>>
      BY <1>2, <2>10 DEF Machine
    <3> QED
      BY <3>1
  <2>11. CASE x = "xor_rdi_rdi"
    <3>1. Machine(x) = <<72, 49, 255>>
      BY <1>2, <2>11 DEF Machine
    <3> QED
      BY <3>1
  <2>12. CASE x = "ret"
    <3>1. Machine(x) = <<195>>
      BY <1>2, <2>12 DEF Machine
    <3> QED
      BY <3>1
  <2> QED
    BY <2>1, <2>2, <2>3, <2>4, <2>5, <2>6, <2>7, <2>8, <2>9, <2>10, <2>11, <2>12
<1> QED
  BY <1>1, <1>2

\* The machine code of a protein, instruction by instruction.
LEMMA FunctionIsJoin ==
  ASSUME NEW body \in Seq(Instructions)
  PROVE  \E f : /\ Joins(f, Int, Len(body), [k \in DOMAIN body |-> Machine(body[k])])
                /\ Function(body) = f[Len(body)]
<1> DEFINE n == Len(body)
           seqs == [k \in DOMAIN body |-> Machine(body[k])]
<1>1. n \in Nat /\ DOMAIN body = 1..n /\ \A k \in 1..n : body[k] \in Instructions
  OBVIOUS
<1>2. seqs \in [1..n -> Seq(Int)] /\ \A k \in 1..n : seqs[k] = Machine(body[k])
  BY <1>1, MachineBytes
<1>3. Function(body) = SeqX!FlattenSeq(seqs)
  BY DEF Function
<1>4. seqs \in Seq(Seq(Int)) /\ Len(seqs) = n
  <2> HIDE DEF seqs
  <2> QED
    BY <1>1, <1>2, SeqOfFunction
<1>5. \E f : Joins(f, Int, n, seqs) /\ SeqX!FlattenSeq(seqs) = f[n]
  <2> HIDE DEF seqs
  <2> QED
    BY <1>4, FlattenIsJoin
<1> QED
  BY <1>3, <1>5

-----------------------------------------------------------------------------
(* The line of descent: an invariant of the generations *)

\* A cell of the line.
CellOfLine ==
  /\ cell \in [dna : Seq(Codon), body : Seq(Code), life : Int, left : Int]
  /\ pc \in {"adult", "elf", "hand", "rated"}

\* Each executable is made of the protein of the living cell.
ElfOfCell ==
  /\ pc \in {"elf", "rated"} => elf = Cell2Elf(Function(cell.body))
  /\ pc = "hand" => elf = HandMade(Function(cell.body), Len(Function(cell.body)))

\* What was run and rated is that executable.
RatedCell ==
  pc = "rated" =>
    /\ result = Execute(elf, cell.body)
    /\ fitness = [e \in Evaluators |-> Rate(e, result, cell)]

LineInv == CellOfLine /\ ElfOfCell /\ RatedCell

\* A child is a cell of the line with one of the DNAs that division makes, and
\* its protein is that of its parent's DNA.
LEMMA ChildCell ==
  ASSUME NEW c \in [dna : Seq(Codon), body : Seq(Code), life : Int, left : Int],
         NEW growing, NEW child \in Children(c, Code, growing) \cup Copies(c)
  PROVE  /\ child \in [dna : Seq(Codon), body : Seq(Code), life : Int, left : Int]
         /\ child.dna \in NewDnas(c.dna, Code, growing)
         /\ child.body = Protein(c.dna)
<1>1. child \in Children(c, Code, growing)
  BY DEF Children
<1>2. PICK d, life : /\ d \in NewDnas(c.dna, Code, growing)
                     /\ child = Child(c, d, life) /\ (life = c.life \/ life = LifeOf(Len(d)))
  BY <1>1, ChildOfDna
<1>3. c.dna \in Seq(Codon) /\ c.life \in Int
  OBVIOUS
<1>4. d \in Seq(Codon) /\ Protein(c.dna) \in Seq(Code)
  BY <1>2, <1>3, NewDna, ProteinSeq
<1>5. life \in Int
  <2>1. Len(d) \in Nat
    BY <1>4
  <2>2. LifeOf(Len(d)) \in Int
    BY <2>1, LifeOfWord, DnaAssumption
  <2> QED
    BY <1>2, <1>3, <2>2
<1>6. child = [c EXCEPT !.dna = d, !.body = Protein(c.dna), !.life = life, !.left = life]
  BY <1>2 DEF Child
<1> QED
  BY <1>2, <1>4, <1>5, <1>6

LEMMA InitLineInv ==
  ASSUME Init
  PROVE  LineInv
<1>1. PICK d \in Founders : cell = Born(d)
  BY DEF Init
<1>2. d \in Seq(Codon)
  BY EvaluationAssumption
<1>3. Protein(d) \in Seq(Code)
  BY <1>2, ProteinSeq
<1> QED
  BY <1>1, <1>2, <1>3 DEF Init, LineInv, CellOfLine, ElfOfCell, RatedCell, Born, FirstLife

LEMMA NextLineInv ==
  ASSUME LineInv, [Next]_vars
  PROVE  LineInv'
<1>1. CASE Convert
  BY <1>1 DEF LineInv, CellOfLine, ElfOfCell, RatedCell, Convert
<1>2. CASE Evaluate
  BY <1>2 DEF LineInv, CellOfLine, ElfOfCell, RatedCell, Evaluate
<1>3. CASE Divide
  <2>1. cell' \in Children(cell, Code, Len(cell.dna) < MaxDna) \cup Copies(cell)
    BY <1>3 DEF Divide, Offspring
  <2>2. CellOfLine'
    BY <1>3, <2>1, ChildCell DEF LineInv, CellOfLine, Divide
  <2> QED
    BY <1>3, <2>2 DEF LineInv, ElfOfCell, RatedCell, Divide
<1>4. CASE HandMake
  BY <1>4 DEF LineInv, CellOfLine, ElfOfCell, RatedCell, HandMake
<1>5. CASE PutAway
  BY <1>5 DEF LineInv, CellOfLine, ElfOfCell, RatedCell, PutAway
<1>6. CASE UNCHANGED vars
  BY <1>6 DEF LineInv, CellOfLine, ElfOfCell, RatedCell, vars
<1> QED
  BY <1>1, <1>2, <1>3, <1>4, <1>5, <1>6 DEF Next

\* In every generation the executable is made of the protein of the living cell,
\* and what is rated is what running that executable showed.
THEOREM LineTheorem == Spec => []LineInv
  BY InitLineInv, NextLineInv, PTL DEF Spec

-----------------------------------------------------------------------------
(* The layout of the executable *)

\* The protein of a cell of the line, and its bytes.
LEMMA CodeBytes ==
  ASSUME NEW body \in Seq(Code)
  PROVE  /\ body \in Seq(Instructions)
         /\ Function(body) \in Seq(Int)
<1>1. body \in Seq(Instructions)
  BY EvaluationAssumption
<1>2. PICK f : /\ Joins(f, Int, Len(body), [k \in DOMAIN body |-> Machine(body[k])])
               /\ Function(body) = f[Len(body)]
  BY <1>1, FunctionIsJoin
<1>3. Len(body) \in 0..Len(body)
  OBVIOUS
<1> QED
  BY <1>1, <1>2, <1>3 DEF Joins

\* The numbers of the layout that the proofs need.
LEMMA Addresses ==
  LoadVaddr \in Nat /\ AsciiSpace = LoadVaddr + 120 /\ Headers = 120
BY SMT DEF LoadVaddr, AsciiSpace, Headers, EhdrSize, PhdrSize

\* Every byte of the file is on a page that is mapped.
LEMMA FileReadable ==
  ASSUME NEW e, e.filesz \in Nat, NEW a \in Int,
         a >= LoadVaddr, a < LoadVaddr + e.filesz
  PROVE  Readable(e, a)
<1> DEFINE n == e.filesz + PageSize - 1
<1>1. n \in Nat
  BY DEF PageSize
<1>2. (n \div PageSize) * PageSize > n - PageSize
  BY <1>1 DEF PageSize
<1>3. e.filesz <= (n \div PageSize) * PageSize
  BY <1>1, <1>2 DEF PageSize
<1> QED
  BY <1>3, Addresses DEF Readable, PageSize

\* The list of characters.
LEMMA CharsList ==
  Chars \in Seq(Int) /\ Len(Chars) = 96 /\ DOMAIN Chars = 1..96
<1>1. Chars \in [1..96 -> Int]
  BY DEF Chars
<1> QED
  BY <1>1, SeqOfFunction

\* The byte at the address that is k bytes after the headers.
LEMMA ByteAfterHeaders ==
  ASSUME NEW e, NEW k \in Int, k + 1 \in DOMAIN e.data,
         NEW a, a = LoadVaddr + 120 + k
  PROVE  ByteAt(e, a) = e.data[k + 1]
<1>1. a - LoadVaddr - Headers + 1 = k + 1
  BY Addresses
<1> QED
  BY <1>1 DEF ByteAt

\* A file whose bytes after the headers are those of list, then those of code,
\* and that starts with the latter.
Holds(e, list, code) ==
  /\ e.entry = LoadVaddr + 120 + Len(list)
  /\ e.filesz = 120 + Len(list) + Len(code)
  /\ e.data = list \o code

\* The program that it starts is code, the whole of it and nothing else.
Runs(e, code) ==
  /\ \A i \in DOMAIN code :
        Readable(e, e.entry + i - 1) /\ ByteAt(e, e.entry + i - 1) = code[i]
  /\ LoadVaddr + e.filesz = e.entry + Len(code)

\* The i-th byte of the code in such a file.
LEMMA PlaceInFile ==
  ASSUME NEW v \in Nat, NEW m \in Nat, NEW n \in Nat
  PROVE  /\ v + (120 + m + n) = v + 120 + m + n
         /\ 120 + m + n \in Nat
         /\ \A i \in 1..n :
              /\ v + 120 + m + i - 1 = v + 120 + (m + i - 1)
              /\ v + 120 + m + i - 1 \in Int
              /\ v + 120 + m + i - 1 >= v
              /\ v + 120 + m + i - 1 < v + (120 + m + n)
              /\ m + i - 1 \in Int /\ m + i - 1 + 1 = m + i /\ m + i \in 1..m + n
         /\ \A k \in 1..m :
              /\ v + 120 + k - 1 = v + 120 + (k - 1)
              /\ k - 1 \in Int /\ k - 1 + 1 = k /\ k \in 1..m + n
OBVIOUS

LEMMA Layout ==
  ASSUME NEW list \in Seq(Int), NEW code \in Seq(Int), NEW e, Holds(e, list, code)
  PROVE  /\ Runs(e, code)
         /\ \A k \in DOMAIN list : ByteAt(e, LoadVaddr + 120 + k - 1) = list[k]
<1> DEFINE m == Len(list)
           n == Len(code)
<1>1. m \in Nat /\ n \in Nat /\ DOMAIN list = 1..m /\ DOMAIN code = 1..n /\ LoadVaddr \in Nat
  BY Addresses
<1>2. e.entry = LoadVaddr + 120 + m /\ e.filesz = 120 + m + n
  BY DEF Holds
<1>3. /\ DOMAIN e.data = 1..m + n
      /\ \A k \in 1..m : e.data[k] = list[k]
      /\ \A k \in 1..n : e.data[m + k] = code[k]
  BY TwoJoined DEF Holds
<1> HIDE DEF m, n
<1>4. ASSUME NEW i \in 1..n
      PROVE  Readable(e, e.entry + i - 1) /\ ByteAt(e, e.entry + i - 1) = code[i]
  <2> DEFINE a == LoadVaddr + 120 + m + i - 1
             k == m + i - 1
  <2>1. /\ a = LoadVaddr + 120 + k /\ k \in Int /\ k + 1 = m + i /\ m + i \in 1..m + n
        /\ a \in Int /\ a >= LoadVaddr /\ a < LoadVaddr + (120 + m + n) /\ 120 + m + n \in Nat
    BY <1>1, PlaceInFile
  <2>2. e.entry + i - 1 = a
    BY <1>2
  <2> HIDE DEF a, k
  <2>3. Readable(e, a)
    BY <1>2, <2>1, FileReadable
  <2>4. ByteAt(e, a) = e.data[k + 1]
    BY <1>3, <2>1, ByteAfterHeaders
  <2>5. ByteAt(e, a) = code[i]
    BY <1>3, <2>1, <2>4
  <2> QED
    BY <2>2, <2>3, <2>5
<1>5. ASSUME NEW k \in 1..m
      PROVE  ByteAt(e, LoadVaddr + 120 + k - 1) = list[k]
  <2> DEFINE a == LoadVaddr + 120 + k - 1
             j == k - 1
  <2>1. a = LoadVaddr + 120 + j /\ j \in Int /\ j + 1 = k /\ k \in 1..m + n
    BY <1>1, PlaceInFile
  <2> HIDE DEF a, j
  <2>2. ByteAt(e, a) = e.data[j + 1]
    BY <1>3, <2>1, ByteAfterHeaders
  <2>3. ByteAt(e, a) = list[k]
    BY <1>3, <2>1, <2>2
  <2> QED
    BY <2>3 DEF a
<1>6. LoadVaddr + e.filesz = e.entry + n
  <2>1. LoadVaddr + (120 + m + n) = LoadVaddr + 120 + m + n
    BY <1>1, PlaceInFile
  <2> QED
    BY <1>2, <2>1
<1> QED
  BY <1>1, <1>4, <1>5, <1>6 DEF Runs, n

\* What dsy-cell2elf.c makes of a protein whose bytes are code.
LEMMA Cell2ElfLayout ==
  ASSUME NEW code \in Seq(Int), NEW e, e = Cell2Elf(code)
  PROVE  /\ Runs(e, code)
         /\ AsmBytes(e) = code
         /\ \A k \in DOMAIN Chars : ByteAt(e, AsciiSpace + k - 1) = Chars[k]
<1>1. Holds(e, Chars, code)
  BY Addresses DEF Cell2Elf, Holds
<1>2. Chars \in Seq(Int) /\ Len(Chars) = 96 /\ AsciiSpace = LoadVaddr + 120
  BY CharsList, Addresses
<1>3. /\ Runs(e, code)
      /\ \A k \in DOMAIN Chars : ByteAt(e, LoadVaddr + 120 + k - 1) = Chars[k]
  BY <1>1, <1>2, Layout
<1>data. /\ Chars \o code \in Seq(Int) /\ Len(Chars \o code) = Len(Chars) + Len(code)
      /\ \A k \in 1..Len(code) : (Chars \o code)[Len(Chars) + k] = code[k]
  <2>1. Chars \in Seq(Int)
    BY <1>2
  <2> QED
    BY <2>1, TwoJoined
<1>4. AsmBytes(e) = code
  <2> DEFINE d == Chars \o code
             n == Len(code)
             s == SubSeq(d, 97, 96 + n)
  <2>1. d \in Seq(Int) /\ Len(d) = 96 + n /\ \A k \in 1..n : d[96 + k] = code[k]
    BY <1>2, <1>data
  <2>2. n \in Nat
    OBVIOUS
  <2>3. AsmBytes(e) = s
    BY <1>1, <2>1, <2>2, Addresses DEF AsmBytes, SkipBytesToCode, Holds
  <2> HIDE DEF d, n
  <2>4. s \in Seq(Int) /\ Len(s) = n /\ \A k \in 1..n : s[k] = d[96 + k]
    BY <2>1, <2>2
  <2> HIDE DEF s
  <2>5. \A k \in 1..n : s[k] = code[k]
    BY <2>1, <2>4
  <2> QED
    BY <2>3, <2>4, <2>5, SameSeq DEF n
<1> QED
  BY <1>2, <1>3, <1>4

\* What a reader of the exercises makes of the same bytes.
LEMMA HandMadeLayout ==
  ASSUME NEW code \in Seq(Int), NEW e, e = HandMade(code, Len(code))
  PROVE  Runs(e, code)
<1>1. <<>> \in Seq(Int) /\ Len(<<>>) = 0 /\ <<>> \o code = code /\ Len(code) \in Nat
  OBVIOUS
<1>2. LoadVaddr + 120 + 0 = LoadVaddr + 120 /\ 120 + 0 = 120
  BY Addresses
<1>3. Holds(e, <<>>, code)
  BY <1>1, <1>2, Addresses DEF HandMade, Holds
<1> QED
  BY <1>1, <1>3, Layout

\* EntryIsCode: whatever the line has mutated into, an executable starts with
\* the first byte of the protein, maps all of it and nothing more, and the
\* listing and the samples, which know the layout on their own, agree with it
\* (dsy-cell2elf.c:50-70, bin/dsy-elf2asm, create-elf-header.c).
THEOREM EntryTheorem == Spec => []EntryIsCode
<1>1. LineInv => EntryIsCode
  <2> SUFFICES ASSUME LineInv, pc \in {"elf", "hand"}
               PROVE  EntryIsCode
    BY DEF EntryIsCode
  <2>1. Function(cell.body) \in Seq(Int)
    BY CodeBytes DEF LineInv, CellOfLine
  <2>2. CASE pc = "elf"
    <3>1. elf = Cell2Elf(Function(cell.body))
      BY <2>2 DEF LineInv, ElfOfCell
    <3> QED
      BY <2>1, <3>1, Cell2ElfLayout DEF EntryIsCode, Runs
  <2>3. CASE pc = "hand"
    <3>1. elf = HandMade(Function(cell.body), Len(Function(cell.body)))
      BY <2>3 DEF LineInv, ElfOfCell
    <3> QED
      BY <2>1, <2>3, <3>1, HandMadeLayout DEF EntryIsCode, Runs
  <2> QED
    BY <2>2, <2>3
<1> QED
  BY <1>1, LineTheorem, PTL
-----------------------------------------------------------------------------
(* Running a program *)

\* The states of the machine that a program can reach.
MachineStates ==
  [rax : Int, rdi : Int, rsi : Int, rdx : Int, out : Seq(Int), calls : SUBSET Int,
   status : {Running, 0, 1, Crashed}]

\* The registers that only take the values that the samples load.
Loaded(m) == m.rdi \in {0, 1}

States == {m \in MachineStates : Loaded(m)}

\* Which of the instructions is not an addition.
LEMMA AddsApart ==
  ASSUME NEW x \in Instructions
  PROVE  /\ x \in Adds => /\ x \in {"add_33_rsi", "add_34_rsi", "add_41_rsi", "add_70_rsi",
                                    "add_77_rsi", "add_80_rsi"}
                          /\ Amount(x) \in Int
         /\ x \notin Adds =>
              x \in {"mov_1_rdi", "mov_buf_rsi", "sub_1_rsi", "mov_1_rdx", "mov_1_rax",
                     "mov_60_rax", "syscall", "write", "exit", "xor_rdi_rdi", "ret"}
<1>1. ASSUME x \in Adds
      PROVE  /\ Amount(x) \in Int
             /\ x \in {"add_33_rsi", "add_34_rsi", "add_41_rsi", "add_70_rsi",
                       "add_77_rsi", "add_80_rsi"}
  <2>1. PICK n \in DOMAIN AddName : AddName[n] = x
    BY <1>1 DEF Adds
  <2>2. Amount(x) \in DOMAIN AddName
    BY <2>1 DEF Amount
  <2>3. Amount(x) \in Int
    BY <2>2 DEF AddName
  <2> QED
    BY <2>1, <2>3 DEF AddName
<1> QED
  BY <1>1 DEF Instructions

\* exit(2) ends the machine with the number in rdi.
LEMMA ExitStatus ==
  ASSUME NEW m \in States, NEW e
  PROVE  Call(m, 60, e).status = m.rdi
<1> DEFINE cs == m.calls \cup {60}
<1>1. Call(m, 60, e) = [m EXCEPT !.status = m.rdi, !.calls = cs]
  BY DEF Call
<1>2. m \in MachineStates
  BY DEF States
<1> HIDE DEF cs
<1> QED
  BY <1>1, <1>2 DEF MachineStates

\* A call keeps the machine in its states.
LEMMA CallStates ==
  ASSUME NEW m \in States, NEW nr \in Int, NEW e, \A a \in Int : ByteAt(e, a) \in Int
  PROVE  /\ Call(m, nr, e) \in States
         /\ Call(m, nr, e).calls = m.calls \cup {nr}
         /\ nr = 60 => Call(m, nr, e).status = m.rdi
         /\ nr # 60 => Call(m, nr, e).status = m.status /\ Call(m, nr, e).rax = Unknown
<1>0. m \in MachineStates /\ m.rdi \in {0, 1} /\ m.rsi \in Int
  BY DEF States, Loaded, MachineStates
<1>1. Printed(m, e) \in Seq(Int)
  <2>1. ByteAt(e, m.rsi) \in Int
    BY <1>0
  <2> QED
    BY <2>1 DEF Printed
<1>2. m.out \o Printed(m, e) \in Seq(Int)
  <2>1. m.out \in Seq(Int)
    BY <1>0 DEF MachineStates
  <2> QED
    BY <1>1, <2>1
<1>3. m.calls \cup {nr} \in SUBSET Int
  BY <1>0 DEF MachineStates
<1>4. Unknown \in Int
  BY DEF Unknown
<1> DEFINE o == m.out \o Printed(m, e)
           cs == m.calls \cup {nr}
<1>5. CASE nr = 60
  <2>1. Call(m, nr, e) = [m EXCEPT !.status = m.rdi, !.calls = cs]
    BY <1>5 DEF Call
  <2>0. cs \in SUBSET Int
    BY <1>3
  <2> HIDE DEF cs
  <2>2. Call(m, nr, e) \in MachineStates /\ Call(m, nr, e).rdi = m.rdi
    BY <1>0, <2>0, <2>1 DEF MachineStates
  <2>3. Call(m, nr, e).calls = cs /\ Call(m, nr, e).status = m.rdi
    BY <1>0, <2>1 DEF MachineStates
  <2> QED
    BY <1>5, <2>2, <2>3 DEF States, Loaded, cs
<1>6. CASE nr = 1
  <2>1. Call(m, nr, e) = [m EXCEPT !.out = o, !.rax = Unknown, !.calls = cs]
    BY <1>6 DEF Call
  <2>2. o \in Seq(Int) /\ cs \in SUBSET Int
    BY <1>2, <1>3
  <2> HIDE DEF cs, o
  <2>3. Call(m, nr, e) \in MachineStates /\ Call(m, nr, e).rdi = m.rdi
    BY <1>0, <1>4, <2>1, <2>2 DEF MachineStates
  <2>4. /\ Call(m, nr, e).calls = cs /\ Call(m, nr, e).status = m.status
        /\ Call(m, nr, e).rax = Unknown
    BY <1>0, <2>1 DEF MachineStates
  <2> QED
    BY <1>6, <2>3, <2>4 DEF States, Loaded, cs
<1>7. CASE nr # 60 /\ nr # 1
  <2>1. Call(m, nr, e) = [m EXCEPT !.rax = Unknown, !.calls = cs]
    BY <1>7 DEF Call
  <2>2. cs \in SUBSET Int
    BY <1>3
  <2> HIDE DEF cs
  <2>3. Call(m, nr, e) \in MachineStates /\ Call(m, nr, e).rdi = m.rdi
    BY <1>0, <1>4, <2>1, <2>2 DEF MachineStates
  <2>4. /\ Call(m, nr, e).calls = cs /\ Call(m, nr, e).status = m.status
        /\ Call(m, nr, e).rax = Unknown
    BY <1>0, <2>1 DEF MachineStates
  <2> QED
    BY <1>7, <2>3, <2>4 DEF States, Loaded, cs
<1> QED
  BY <1>5, <1>6, <1>7
\* What the instructions of samples/ do to the machine: those that load or
\* change a register do nothing else.
Moves == Instructions \ {"write", "exit", "syscall", "ret"}

LEMMA MoveStates ==
  ASSUME NEW m \in States, NEW x \in Moves, NEW e
  PROVE  /\ Instruction(m, x, e) \in States
         /\ Instruction(m, x, e).calls = m.calls
         /\ Instruction(m, x, e).status = m.status
         /\ x \in {"mov_1_rax", "mov_60_rax"} => Instruction(m, x, e).rax \in {1, 60}
<1>1. m \in MachineStates /\ m.rdi \in {0, 1} /\ x \in Instructions
  BY DEF States, Loaded, Moves
<1>2. AsciiSpace \in Int
  BY Addresses
<1>3. CASE x \in Adds
  <2>1. Instruction(m, x, e) = [m EXCEPT !.rsi = m.rsi + Amount(x)]
    BY <1>1, <1>3, AddsApart DEF Instruction
  <2>2. m.rsi + Amount(x) \in Int
    BY <1>1, <1>3, AddsApart DEF MachineStates
  <2>3. x \notin {"mov_1_rax", "mov_60_rax"}
    BY <1>1, <1>3, AddsApart
  <2> QED
    BY <1>1, <2>1, <2>2, <2>3 DEF MachineStates, States, Loaded
<1>4. CASE x \notin Adds
  <2>1. x \in {"mov_1_rdi", "mov_buf_rsi", "sub_1_rsi", "mov_1_rdx", "mov_1_rax",
               "mov_60_rax", "xor_rdi_rdi"}
    BY <1>1, <1>4, AddsApart DEF Moves
  <2>2. CASE x = "mov_1_rdi"
    <3>1. Instruction(m, x, e) = [m EXCEPT !.rdi = 1]
      BY <1>4, <2>2 DEF Instruction
    <3> QED
      BY <1>1, <1>2, <2>2, <3>1 DEF MachineStates, States, Loaded
  <2>3. CASE x = "xor_rdi_rdi"
    <3>1. Instruction(m, x, e) = [m EXCEPT !.rdi = 0]
      BY <1>4, <2>3 DEF Instruction
    <3> QED
      BY <1>1, <1>2, <2>3, <3>1 DEF MachineStates, States, Loaded
  <2>4. CASE x = "mov_buf_rsi"
    <3>1. Instruction(m, x, e) = [m EXCEPT !.rsi = AsciiSpace]
      BY <1>4, <2>4 DEF Instruction
    <3> QED
      BY <1>1, <1>2, <2>4, <3>1 DEF MachineStates, States, Loaded
  <2>5. CASE x = "sub_1_rsi"
    <3>1. Instruction(m, x, e) = [m EXCEPT !.rsi = m.rsi - 1]
      BY <1>4, <2>5 DEF Instruction
    <3> QED
      BY <1>1, <1>2, <2>5, <3>1 DEF MachineStates, States, Loaded
  <2>6. CASE x = "mov_1_rdx"
    <3>1. Instruction(m, x, e) = [m EXCEPT !.rdx = 1]
      BY <1>4, <2>6 DEF Instruction
    <3> QED
      BY <1>1, <1>2, <2>6, <3>1 DEF MachineStates, States, Loaded
  <2>7. CASE x = "mov_1_rax"
    <3>1. Instruction(m, x, e) = [m EXCEPT !.rax = 1]
      BY <1>4, <2>7 DEF Instruction
    <3> QED
      BY <1>1, <1>2, <2>7, <3>1 DEF MachineStates, States, Loaded
  <2>8. CASE x = "mov_60_rax"
    <3>1. Instruction(m, x, e) = [m EXCEPT !.rax = 60]
      BY <1>4, <2>8 DEF Instruction
    <3> QED
      BY <1>1, <1>2, <2>8, <3>1 DEF MachineStates, States, Loaded
  <2> QED
    BY <2>1, <2>2, <2>3, <2>4, <2>5, <2>6, <2>7, <2>8
<1> QED
  BY <1>3, <1>4

\* The call instructions are calls, ret jumps to where nothing is mapped.
LEMMA CallInstructions ==
  ASSUME NEW m, NEW e
  PROVE  /\ Instruction(m, "write", e) = Call(m, 1, e)
         /\ Instruction(m, "exit", e) = Call(m, 60, e)
         /\ Instruction(m, "syscall", e) = Call(m, m.rax, e)
         /\ Instruction(m, "ret", e) = [m EXCEPT !.status = Crashed]
<1>1. /\ "write" \notin Adds /\ "exit" \notin Adds /\ "syscall" \notin Adds /\ "ret" \notin Adds
  BY AddsApart DEF Instructions
<1>2. Instruction(m, "write", e) = Call(m, 1, e)
  BY <1>1 DEF Instruction
<1>3. Instruction(m, "exit", e) = Call(m, 60, e)
  BY <1>1 DEF Instruction
<1>4. Instruction(m, "syscall", e) = Call(m, m.rax, e)
  BY <1>1 DEF Instruction
<1>5. Instruction(m, "ret", e) = [m EXCEPT !.status = Crashed]
  BY <1>1 DEF Instruction
<1> QED
  BY <1>2, <1>3, <1>4, <1>5

LEMMA RetStates ==
  ASSUME NEW m \in States, NEW e
  PROVE  /\ Instruction(m, "ret", e) \in States
         /\ Instruction(m, "ret", e).calls = m.calls
         /\ Instruction(m, "ret", e).status = Crashed
<1>1. m \in MachineStates
  BY DEF States
<1> QED
  BY <1>1, CallInstructions DEF MachineStates, States, Loaded

\* An instruction keeps the machine in its states.
LEMMA InstructionStates ==
  ASSUME NEW m \in States, NEW x \in Instructions, NEW e, \A a \in Int : ByteAt(e, a) \in Int
  PROVE  Instruction(m, x, e) \in States
<1>1. m.rax \in Int
  BY DEF States, MachineStates
<1>2. CASE x \in Moves
  BY <1>2, MoveStates
<1>3. CASE x = "write"
  BY <1>3, CallInstructions, CallStates
<1>4. CASE x = "exit"
  BY <1>4, CallInstructions, CallStates
<1>5. CASE x = "syscall"
  BY <1>1, <1>5, CallInstructions, CallStates
<1>6. CASE x = "ret"
  BY <1>6, RetStates
<1> QED
  BY <1>2, <1>3, <1>4, <1>5, <1>6 DEF Moves
\* f holds the states of the machine as it runs the program.
RunOf(f, body, e) ==
  /\ f \in [0..Len(body) -> States]
  /\ f[0] = Started
  /\ \A k \in 1..Len(body) : f[k] = Step(f[k - 1], body[k], e)

LEMMA RunIsLoop ==
  ASSUME NEW body \in Seq(Instructions), NEW e, \A a \in Int : ByteAt(e, a) \in Int
  PROVE  \E f : RunOf(f, body, e) /\ Last(e, body) = f[Len(body)]
<1> DEFINE n == Len(body)
           g == [k \in 1..n |-> [m \in States |-> Step(m, body[k], e)]]
           F(h) == [k \in 0..n |-> IF k = 0 THEN Started ELSE Step(h[k - 1], body[k], e)]
           c == CHOOSE h : h = F(h)
<1>1. n \in Nat /\ \A k \in 1..n : body[k] \in Instructions
  OBVIOUS
<1>2. Started \in States
  BY <<>> \in Seq(Int) DEF Started, States, MachineStates, Loaded
<1>3. \A k \in 1..n : \A m \in States : Step(m, body[k], e) \in States
  BY <1>1, InstructionStates DEF Step
<1>4. g \in [1..n -> [States -> States]] /\ \A k \in 1..n : \A m \in States : g[k][m] = Step(m, body[k], e)
  BY <1>3
<1> HIDE DEF g
<1>5. PICK f : Loop(f, States, Started, n, g)
  BY <1>1, <1>2, <1>4, LoopExists
<1>6. f \in [0..n -> States] /\ f[0] = Started
  BY <1>5 DEF Loop
<1>7. ASSUME NEW k \in 1..n
      PROVE  f[k] = Step(f[k - 1], body[k], e)
  <2>0. k - 1 \in 0..n
    BY <1>1
  <2>1. f[k - 1] \in States
    BY <1>6, <2>0
  <2>2. f[k] = g[k][f[k - 1]]
    BY <1>5 DEF Loop
  <2> QED
    BY <1>4, <2>1, <2>2
<1>8. RunOf(f, body, e)
  BY <1>6, <1>7 DEF RunOf
<1>9. f = F(f)
  <2>1. \A k \in 0..n : f[k] = IF k = 0 THEN Started ELSE Step(f[k - 1], body[k], e)
    <3> SUFFICES ASSUME NEW k \in 0..n
                 PROVE  f[k] = IF k = 0 THEN Started ELSE Step(f[k - 1], body[k], e)
      OBVIOUS
    <3>1. k # 0 => k \in 1..n
      BY <1>1
    <3> QED
      BY <1>6, <1>7, <3>1
  <2> QED
    BY <1>6, <2>1
<1>10. c = F(c)
  BY <1>9
<1>11. Last(e, body) = c[n]
  BY DEF Last
<1> HIDE DEF c
<1> DEFINE T == {k \in Nat : c[k] = f[k]}
<1>12. 0 \in T
  BY <1>1, <1>6, <1>10
<1>13. ASSUME NEW k \in 1..n, k - 1 \in T
       PROVE  k \in T
  <2>1. k \in 0..n /\ k # 0 /\ k \in Nat
    BY <1>1
  <2>2. c[k] = Step(c[k - 1], body[k], e)
    BY <1>10, <2>1
  <2>3. c[k - 1] = f[k - 1]
    BY <1>13
  <2> QED
    BY <1>7, <2>1, <2>2, <2>3
<1>14. \A k \in 0..n : k \in T
  <2> HIDE DEF T, n
  <2> QED
    BY <1>1, <1>12, <1>13, LoopInduction
<1>15. c[n] = f[n]
  <2>1. n \in 0..n
    BY <1>1
  <2> QED
    BY <1>14, <2>1
<1> QED
  BY <1>8, <1>11, <1>15

\* Where it ends is a state of the machine.
LEMMA LastState ==
  ASSUME NEW body \in Seq(Instructions), NEW e, \A a \in Int : ByteAt(e, a) \in Int
  PROVE  Last(e, body) \in States
<1>1. PICK f : RunOf(f, body, e) /\ Last(e, body) = f[Len(body)]
  BY RunIsLoop
<1>2. Len(body) \in 0..Len(body)
  OBVIOUS
<1> QED
  BY <1>1, <1>2 DEF RunOf

-----------------------------------------------------------------------------
(* The listing and its guard *)

Kinds == {"other", "mov_rax", "syscall"}

Movs == {"mov_1_rax", "mov_60_rax"}

\* The listing of one instruction.
LEMMA LinesOf ==
  ASSUME NEW x
  PROVE  /\ Lines(x) \in Seq(Kinds)
         /\ Len(Lines(x)) \in Nat \ {0}
         /\ Lines(x)[Len(Lines(x))] = "mov_rax" => x \in Movs
         /\ x = "syscall" => Lines(x) = <<"syscall">>
<1>1. CASE x \in {"write", "exit"}
  <2>1. Lines(x) = <<"other", "other", "syscall">>
    BY <1>1 DEF Lines
  <2>2. Lines(x) \in Seq(Kinds) /\ Len(Lines(x)) = 3
    BY <2>1 DEF Kinds
  <2>3. Lines(x)[3] = "syscall" /\ x # "syscall"
    BY <1>1, <2>1
  <2>4. Lines(x)[Len(Lines(x))] = "syscall" /\ Len(Lines(x)) \in Nat \ {0}
    BY <2>2, <2>3
  <2>5. "syscall" # "mov_rax"
    OBVIOUS
  <2> QED
    BY <2>2, <2>3, <2>4, <2>5
<1>2. CASE x \in Movs
  <2>1. Lines(x) = <<"mov_rax">>
    BY <1>2 DEF Lines, Movs
  <2> QED
    BY <1>2, <2>1 DEF Kinds, Movs
<1>3. CASE x = "syscall"
  <2>1. Lines(x) = <<"syscall">>
    BY <1>3 DEF Lines
  <2>2. Lines(x) \in Seq(Kinds) /\ Len(Lines(x)) = 1 /\ Lines(x)[1] = "syscall"
    BY <2>1 DEF Kinds
  <2>3. "syscall" # "mov_rax"
    OBVIOUS
  <2>4. Lines(x)[Len(Lines(x))] # "mov_rax" /\ Len(Lines(x)) \in Nat \ {0}
    BY <2>2, <2>3
  <2> QED
    BY <2>1, <2>2, <2>4
<1>4. CASE x \notin {"write", "exit"} /\ x \notin Movs /\ x # "syscall"
  <2>1. Lines(x) = <<"other">>
    BY <1>4 DEF Lines, Movs
  <2> QED
    BY <1>4, <2>1 DEF Kinds
<1> QED
  BY <1>1, <1>2, <1>3, <1>4

\* The listing of a protein, instruction by instruction.
LEMMA ListingIsJoin ==
  ASSUME NEW body, NEW n \in Nat, body \in [1..n -> Instructions]
  PROVE  \E f : /\ Joins(f, Kinds, n, [k \in DOMAIN body |-> Lines(body[k])])
                /\ Listing(body) = f[n]
<1> DEFINE seqs == [k \in DOMAIN body |-> Lines(body[k])]
<1>1. seqs \in [1..n -> Seq(Kinds)]
  BY LinesOf
<1>2. Listing(body) = SeqX!FlattenSeq(seqs)
  BY DEF Listing
<1> HIDE DEF seqs
<1>3. seqs \in Seq(Seq(Kinds)) /\ Len(seqs) = n
  BY <1>1, SeqOfFunction
<1>4. \E f : Joins(f, Kinds, n, seqs) /\ SeqX!FlattenSeq(seqs) = f[n]
  BY <1>3, FlattenIsJoin
<1> QED
  BY <1>2, <1>4 DEF seqs

\* t starts with s.
Starting(t, s) == Len(s) <= Len(t) /\ \A i \in 1..Len(s) : t[i] = s[i]

LEMMA StartingOn ==
  ASSUME NEW S, NEW s \in Seq(S), NEW t \in Seq(S), NEW u \in Seq(S), Starting(t, s)
  PROVE  Starting(t \o u, s)
<1>1. /\ Len(t \o u) = Len(t) + Len(u)
      /\ \A k \in 1..Len(t) : (t \o u)[k] = t[k]
  BY TwoJoined
<1>2. Len(s) \in Nat /\ Len(t) \in Nat /\ Len(u) \in Nat
  OBVIOUS
<1> QED
  BY <1>1, <1>2 DEF Starting

\* What is joined later comes behind.
LEMMA JoinsStart ==
  ASSUME NEW S, NEW n \in Nat, NEW part, part \in [1..n -> Seq(S)],
         NEW f, Joins(f, S, n, part), NEW k \in 0..n
  PROVE  Starting(f[n], f[k])
<1> DEFINE T == {m \in Nat : k <= m => Starting(f[m], f[k])}
<1>1. /\ f \in [0..n -> Seq(S)]
      /\ \A m \in 1..n : f[m] = f[m - 1] \o part[m]
  BY DEF Joins
<1>2. Starting(f[k], f[k])
  BY <1>1 DEF Starting
<1>3. 0 \in T
  <2>1. k <= 0 => k = 0
    OBVIOUS
  <2> QED
    BY <1>2, <2>1
<1>4. ASSUME NEW m \in 1..n, m - 1 \in T
      PROVE  m \in T
  <2>1. m \in Nat /\ m - 1 \in 0..n /\ (k <= m => k = m \/ k <= m - 1)
    OBVIOUS
  <2>2. f[m - 1] \in Seq(S) /\ part[m] \in Seq(S) /\ f[k] \in Seq(S)
    BY <1>1, <2>1
  <2>3. ASSUME k <= m - 1
        PROVE  Starting(f[m], f[k])
    <3>1. Starting(f[m - 1], f[k])
      BY <1>4, <2>3
    <3>2. f[m] = f[m - 1] \o part[m]
      BY <1>1
    <3> QED
      BY <2>2, <3>1, <3>2, StartingOn
  <2> QED
    BY <1>2, <2>1, <2>3
<1>5. \A m \in 0..n : m \in T
  <2> HIDE DEF T
  <2> QED
    BY <1>3, <1>4, LoopInduction
<1> QED
  BY <1>5

\* The guard looks at every line, so it sees what stands before a bare syscall.
LEMMA GuardedSyscall ==
  ASSUME NEW body, NEW n \in Nat, body \in [1..n -> Instructions],
         Guard(Listing(body)), NEW k \in 1..n, body[k] = "syscall"
  PROVE  k > 1 /\ body[k - 1] \in Movs
<1> DEFINE part == [j \in DOMAIN body |-> Lines(body[j])]
<1>1. PICK f : Joins(f, Kinds, n, part) /\ Listing(body) = f[n]
  BY ListingIsJoin
<1>2. part \in [1..n -> Seq(Kinds)] /\ \A j \in 1..n : part[j] = Lines(body[j])
  BY LinesOf
<1> HIDE DEF part
<1>3. /\ f \in [0..n -> Seq(Kinds)] /\ f[0] = <<>>
      /\ \A m \in 1..n : f[m] = f[m - 1] \o part[m]
  BY <1>1 DEF Joins
<1>4. /\ k - 1 \in 0..n /\ k \in 0..n /\ n \in 0..n
      /\ f[k - 1] \in Seq(Kinds) /\ f[k] \in Seq(Kinds) /\ f[n] \in Seq(Kinds)
  BY <1>3
<1> DEFINE l == Len(f[k - 1])
<1>5. f[k] = f[k - 1] \o <<"syscall">>
  BY <1>2, <1>3, LinesOf
<1>6. l \in Nat /\ Len(f[k]) = l + 1 /\ f[k][l + 1] = "syscall"
  BY <1>4, <1>5
<1>7. Starting(f[n], f[k]) /\ Starting(f[n], f[k - 1])
  BY <1>1, <1>2, <1>4, JoinsStart
<1>8. /\ Len(f[n]) \in Nat /\ l + 1 <= Len(f[n]) /\ f[n][l + 1] = "syscall"
      /\ \A i \in 1..l : f[n][i] = f[k - 1][i]
  <2>1. Len(f[n]) \in Nat
    BY <1>4
  <2>2. Len(f[k]) <= Len(f[n]) /\ \A i \in 1..Len(f[k]) : f[n][i] = f[k][i]
    BY <1>7 DEF Starting
  <2>3. \A i \in 1..l : f[n][i] = f[k - 1][i]
    BY <1>7 DEF Starting
  <2> HIDE DEF l
  <2>4. l + 1 \in 1..l + 1
    BY <1>6
  <2>5. f[n][l + 1] = f[k][l + 1]
    BY <1>6, <2>2, <2>4
  <2> QED
    BY <1>6, <2>1, <2>2, <2>3, <2>5
<1>9. l # 0 /\ f[n][l] = "mov_rax"
  <2>1. l + 1 \in DOMAIN f[n]
    <3> HIDE DEF l
    <3> QED
      BY <1>4, <1>6, <1>8
  <2> HIDE DEF l
  <2>2. \A i \in DOMAIN f[n] : f[n][i] = "syscall" => i > 1 /\ f[n][i - 1] = "mov_rax"
    BY <1>1 DEF Guard
  <2>3. f[n][l + 1] = "syscall"
    BY <1>8
  <2>4. PICK i \in DOMAIN f[n] : i = l + 1 /\ f[n][i] = "syscall"
    BY <2>1, <2>3
  <2>5. i > 1 /\ f[n][i - 1] = "mov_rax"
    BY <2>2, <2>4
  <2>6. i - 1 = l /\ l # 0
    BY <1>6, <2>4, <2>5
  <2> QED
    BY <2>5, <2>6
<1>10. l \in 1..l /\ f[k - 1][l] = "mov_rax" /\ l # 0
  BY <1>6, <1>8, <1>9
<1>11. k > 1
  <2>1. k = 1 => l = 0
    BY <1>3
  <2> QED
    BY <1>10, <2>1
<1>12. body[k - 1] \in Movs
  <2> DEFINE j == k - 1
             u == Lines(body[j])
  <2>1. j \in 1..n /\ j - 1 \in 0..n
    BY <1>11
  <2>2. f[j] = f[j - 1] \o u /\ f[j - 1] \in Seq(Kinds)
    BY <1>2, <1>3, <2>1
  <2>3. u \in Seq(Kinds) /\ Len(u) \in Nat \ {0}
    BY LinesOf
  <2> HIDE DEF j, u
  <2>4. /\ Len(f[j]) = Len(f[j - 1]) + Len(u)
        /\ f[j][Len(f[j - 1]) + Len(u)] = u[Len(u)]
    <3>1. Len(u) \in 1..Len(u)
      BY <2>3
    <3> QED
      BY <2>2, <2>3, <3>1, TwoJoined
  <2>5. f[j][Len(f[j])] = "mov_rax"
    BY <1>10 DEF j
  <2>6. u[Len(u)] = "mov_rax"
    BY <2>4, <2>5
  <2> QED
    BY <2>6, LinesOf DEF u, j
<1> QED
  BY <1>11, <1>12
-----------------------------------------------------------------------------
(* The system calls of a program whose listing passes the guard *)

\* The machine has called nothing but write and exit, and if it has just run
\* the instruction x that sets rax, rax is the number of one of these.
Harmless(m, x) ==
  /\ m.calls \subseteq {1, 60}
  /\ x \in Movs /\ m.status = Running => m.rax \in {1, 60}

LEMMA HarmlessStep ==
  ASSUME NEW m \in States, NEW before, Harmless(m, before), NEW x \in Instructions,
         x = "syscall" => before \in Movs,
         NEW e, \A a \in Int : ByteAt(e, a) \in Int
  PROVE  Harmless(Step(m, x, e), x)
<1>1. m.rax \in Int /\ m.calls \subseteq {1, 60}
  BY DEF States, MachineStates, Harmless
<1>2. CASE m.status # Running
  BY <1>1, <1>2 DEF Step, Harmless
<1>3. CASE m.status = Running
  <2>1. Step(m, x, e) = Instruction(m, x, e)
    BY <1>3 DEF Step
  <2>2. CASE x \in Moves
    BY <1>1, <2>1, <2>2, MoveStates DEF Harmless, Movs
  <2>3. CASE x = "write"
    <3>1. Call(m, 1, e).calls \subseteq {1, 60}
      BY <1>1, CallStates
    <3> QED
      BY <2>1, <2>3, <3>1, CallInstructions DEF Harmless, Movs
  <2>4. CASE x = "exit"
    <3>1. Call(m, 60, e).calls \subseteq {1, 60}
      BY <1>1, CallStates
    <3> QED
      BY <2>1, <2>4, <3>1, CallInstructions DEF Harmless, Movs
  <2>5. CASE x = "syscall"
    <3>1. m.rax \in {1, 60}
      BY <1>3, <2>5 DEF Harmless
    <3>2. Call(m, m.rax, e).calls = m.calls \cup {m.rax}
      BY <1>1, CallStates
    <3>3. Call(m, m.rax, e).calls \subseteq {1, 60}
      BY <1>1, <3>1, <3>2
    <3> QED
      BY <2>1, <2>5, <3>3, CallInstructions DEF Harmless, Movs
  <2>6. CASE x = "ret"
    BY <1>1, <2>1, <2>6, RetStates DEF Harmless, Movs
  <2> QED
    BY <2>2, <2>3, <2>4, <2>5, <2>6 DEF Moves
<1> QED
  BY <1>2, <1>3

LEMMA GuardedCalls ==
  ASSUME NEW body \in Seq(Instructions), Guard(Listing(body)),
         NEW e, \A a \in Int : ByteAt(e, a) \in Int
  PROVE  Last(e, body).calls \subseteq {1, 60}
<1> DEFINE n == Len(body)
           before(k) == IF k = 0 THEN "none" ELSE body[k]
<1>1. n \in Nat /\ body \in [1..n -> Instructions]
  OBVIOUS
<1>2. PICK f : RunOf(f, body, e) /\ Last(e, body) = f[n]
  BY RunIsLoop
<1>3. /\ f \in [0..n -> States] /\ f[0] = Started
      /\ \A k \in 1..n : f[k] = Step(f[k - 1], body[k], e)
  BY <1>2 DEF RunOf
<1> HIDE DEF n
<1> DEFINE T == {k \in Nat : Harmless(f[k], before(k))}
<1>4. 0 \in T
  <2>1. "none" \notin Movs
    BY DEF Movs
  <2>2. Harmless(Started, "none")
    BY <2>1 DEF Harmless, Started
  <2> QED
    BY <1>3, <2>2
<1>5. ASSUME NEW k \in 1..n, k - 1 \in T
      PROVE  k \in T
  <2>1. k \in Nat /\ k # 0 /\ k - 1 \in 0..n /\ (k > 1 => k - 1 # 0) /\ (k # 1 => k > 1)
    BY <1>1
  <2>2. f[k - 1] \in States /\ Harmless(f[k - 1], before(k - 1)) /\ body[k] \in Instructions
    BY <1>1, <1>3, <1>5, <2>1
  <2>3. body[k] = "syscall" => before(k - 1) \in Movs
    BY <1>1, <2>1, GuardedSyscall
  <2> HIDE DEF before
  <2>4. Harmless(Step(f[k - 1], body[k], e), body[k])
    BY <2>2, <2>3, HarmlessStep
  <2>5. f[k] = Step(f[k - 1], body[k], e)
    BY <1>3
  <2>6. before(k) = body[k]
    BY <2>1 DEF before
  <2> QED
    BY <2>1, <2>4, <2>5, <2>6
<1>6. n \in T
  <2>1. \A k \in 0..n : k \in T
    <3> HIDE DEF T
    <3> QED
      BY <1>1, <1>4, <1>5, LoopInduction
  <2> QED
    BY <1>1, <2>1
<1> QED
  BY <1>2, <1>6 DEF Harmless

\* Every address of an executable reads as a number.
LEMMA FileBytes ==
  ASSUME NEW code \in Seq(Int), NEW e, e = Cell2Elf(code)
  PROVE  \A a \in Int : ByteAt(e, a) \in Int
<1>1. Chars \o code \in Seq(Int) /\ e.data = Chars \o code
  <2>1. Chars \in Seq(Int)
    BY CharsList
  <2> QED
    BY <2>1 DEF Cell2Elf
<1>2. \A i \in DOMAIN e.data : e.data[i] \in Int
  BY <1>1
<1> QED
  BY <1>2 DEF ByteAt

\* MeantSyscalls: whatever the codes of the line have become, a program that an
\* evaluator with the guard runs asks the kernel for nothing but write(2) and
\* exit(2) (docs/tips.md:105-111).
THEOREM MeantTheorem == Spec => []MeantSyscalls
<1>1. LineInv => MeantSyscalls
  <2> SUFFICES ASSUME LineInv, pc = "rated", Guard(Listing(cell.body))
               PROVE  result.calls \subseteq {1, 60}
    BY DEF MeantSyscalls, Refused
  <2>1. cell.body \in Seq(Instructions) /\ Function(cell.body) \in Seq(Int)
    BY CodeBytes DEF LineInv, CellOfLine
  <2>2. elf = Cell2Elf(Function(cell.body)) /\ result = Execute(elf, cell.body)
    BY DEF LineInv, ElfOfCell, RatedCell
  <2>3. Last(elf, cell.body).calls \subseteq {1, 60}
    BY <2>1, <2>2, FileBytes, GuardedCalls
  <2>4. Outcome(elf, cell.body).calls \subseteq {1, 60}
    <3>1. CASE ~Starts(elf, cell.body)
      BY <3>1 DEF Outcome, Started
    <3>2. CASE Starts(elf, cell.body)
      <4> DEFINE last == Last(elf, cell.body)
      <4>1. last \in States
        BY <2>1, <2>2, FileBytes, LastState
      <4>2. Outcome(elf, cell.body) =
              IF last.status = Running THEN [last EXCEPT !.status = Crashed] ELSE last
        BY <3>2 DEF Outcome
      <4>3. Outcome(elf, cell.body).calls = last.calls
        <5> HIDE DEF last
        <5> QED
          BY <4>1, <4>2 DEF States, MachineStates
      <4> QED
        BY <2>3, <4>3
    <3> QED
      BY <3>1, <3>2
  <2> QED
    BY <2>2, <2>4 DEF Execute
<1> QED
  BY <1>1, LineTheorem, PTL
-----------------------------------------------------------------------------
(* What running shows, and the marks for it *)

\* A run ends with an exit status, not with the machine still running.
Results == [status : {0, 1, Crashed}, out : Seq(Int), calls : SUBSET Int]

LEMMA ExecuteResults ==
  ASSUME NEW body \in Seq(Instructions), NEW e, \A a \in Int : ByteAt(e, a) \in Int
  PROVE  Execute(e, body) \in Results
<1> DEFINE last == Last(e, body)
           o == Outcome(e, body)
<1>1. last \in MachineStates
  BY LastState DEF States
<1>2. Started \in MachineStates
  BY <<>> \in Seq(Int) DEF Started, MachineStates
<1>3. o = IF ~Starts(e, body) THEN [Started EXCEPT !.status = Crashed]
          ELSE IF last.status = Running THEN [last EXCEPT !.status = Crashed]
          ELSE last
  BY DEF Outcome
<1>4. Execute(e, body) = [status |-> o.status, out |-> o.out, calls |-> o.calls]
  BY DEF Execute
<1> HIDE DEF last, o
<1>5. o \in MachineStates /\ o.status \in {0, 1, Crashed}
  <2>1. Running # Crashed
    BY DEF Running, Crashed
  <2>2. CASE ~Starts(e, body)
    BY <1>2, <1>3, <2>2 DEF MachineStates
  <2>3. CASE Starts(e, body) /\ last.status = Running
    BY <1>1, <1>3, <2>3 DEF MachineStates
  <2>4. CASE Starts(e, body) /\ last.status # Running
    BY <1>1, <1>3, <2>4 DEF MachineStates
  <2> QED
    BY <2>2, <2>3, <2>4
<1> QED
  BY <1>4, <1>5 DEF MachineStates, Results

\* The lesser of two numbers.
LEMMA LeastOf ==
  ASSUME NEW a \in Int, NEW b \in Int
  PROVE  /\ Least(a, b) \in Int /\ Least(a, b) <= a /\ Least(a, b) <= b
         /\ Least(a, b) = b <=> a >= b
BY DEF Least

\* Points for codons never reach the mark: the most is less than 100.
LEMMA CodonPoints ==
  ASSUME NEW n \in Nat, NEW most \in Int
  PROVE  CodonsWorth(n, most) \in Int /\ CodonsWorth(n, most) <= most
<1>1. 6 * n + 32 \in Int
  OBVIOUS
<1> QED
  BY <1>1, LeastOf DEF CodonsWorth

\* Nor do points for lines.
LEMMA LinePoints ==
  ASSUME NEW l \in Nat
  PROVE  /\ Least(10 * l, 60) \in Int /\ Least(10 * l, 60) <= 60
         /\ Least(l + 46, 90) \in Int /\ Least(l + 46, 90) <= 90
BY DEF Least

\* An exit status is one of three different numbers.
LEMMA ResultParts ==
  ASSUME NEW r \in Results
  PROVE  /\ r.status \in {0, 1, 139} /\ r.out \in Seq(Int)
         /\ Len(r.out) \in Nat /\ (r.out = <<>> <=> Len(r.out) = 0)
<1>1. r.status \in {0, 1, 139} /\ r.out \in Seq(Int)
  BY DEF Results, Crashed
<1> QED
  BY <1>1

\* The marks of the evaluators that look at the output.
LEMMA PutaMark ==
  ASSUME NEW r \in Results, NEW n \in Nat \ {0}
  PROVE  /\ RatePuta(r, n) <= 100
         /\ RatePuta(r, n) = 100 <=> r.status = 0 /\ Has(r.out, <<65>>)
         /\ RatePuta0(r) <= 100 /\ (RatePuta0(r) = 100 <=> Has(r.out, <<65>>))
<1>1. CodonsWorth(n, 90) \in Int /\ CodonsWorth(n, 90) <= 90
  BY CodonPoints
<1>2. RatePuta(r, n) <= 100 /\ (RatePuta(r, n) = 100 <=> r.status = 0 /\ Has(r.out, <<65>>))
  BY <1>1, ResultParts DEF RatePuta
<1>3. RatePuta0(r) <= 100 /\ (RatePuta0(r) = 100 <=> Has(r.out, <<65>>))
  BY DEF RatePuta0
<1> QED
  BY <1>2, <1>3

LEMMA PutcharMark ==
  ASSUME NEW r \in Results, NEW n \in Nat \ {0}
  PROVE  /\ RatePutchar(r, n) <= 100
         /\ RatePutchar(r, n) = 100 <=> r.status = 0 /\ Len(r.out) >= 20
         /\ RatePutchar2(r, n) <= 100
         /\ RatePutchar2(r, n) = 100 <=> r.status = 0 /\ Len(r.out) >= 4
         /\ RatePutchar3(r, n) <= 100
         /\ RatePutchar3(r, n) = 100 <=> r.status = 0 /\ Len(r.out) >= 4 /\ Ascii(r.out)
<1> DEFINE l == Len(r.out)
<1>1. CodonsWorth(n, 60) \in Int /\ CodonsWorth(n, 60) <= 60
  BY CodonPoints
<1>2. CodonsWorth(n, 50) \in Int /\ CodonsWorth(n, 50) <= 50
  BY CodonPoints
<1>3. l \in Nat /\ (r.out = <<>> <=> l = 0)
  BY ResultParts
<1> HIDE DEF l
<1>4. /\ Least(80 + l, 100) <= 100
      /\ Least(80 + l, 100) = 100 <=> l >= 20
  BY <1>3 DEF Least
<1>5. /\ Least(60 + 10 * l, 100) <= 100
      /\ Least(60 + 10 * l, 100) = 100 <=> l >= 4
  BY <1>3 DEF Least
<1>6. RatePutchar(r, n) <= 100 /\ (RatePutchar(r, n) = 100 <=> r.status = 0 /\ l >= 20)
  BY <1>1, <1>3, <1>4 DEF RatePutchar, l
<1>7. RatePutchar2(r, n) <= 100 /\ (RatePutchar2(r, n) = 100 <=> r.status = 0 /\ l >= 4)
  BY <1>2, <1>3, <1>5 DEF RatePutchar2, l
<1>8. /\ RatePutchar3(r, n) <= 100
      /\ RatePutchar3(r, n) = 100 <=> r.status = 0 /\ l >= 4 /\ Ascii(r.out)
  BY <1>7 DEF RatePutchar3
<1> QED
  BY <1>6, <1>7, <1>8 DEF l

LEMMA PuthiMark ==
  ASSUME NEW r \in Results, NEW n \in Nat \ {0}, NEW each \in Nat
  PROVE  /\ RatePuthi(r, n, each) <= 100
         /\ RatePuthi(r, n, each) = 100 <=>
              r.status = 0 /\ Ascii(r.out) /\ Has(r.out, <<72, 105>>)
<1> DEFINE p == PuthiBase(r, n, each)
           l == Len(r.out)
<1>1. l \in Nat /\ each * l \in Int
  BY ResultParts
<1>2. p \in Int /\ p <= 70
  <2>1. Least(n, 30) \in Int /\ Least(n, 30) <= 30
    BY LeastOf
  <2>2. Least(40 + each * l, 70) \in Int /\ Least(40 + each * l, 70) <= 70
    <3> DEFINE a == 40 + each * l
    <3>1. a \in Int
      BY <1>1
    <3> HIDE DEF a
    <3>2. Least(a, 70) \in Int /\ Least(a, 70) <= 70
      BY <3>1, LeastOf
    <3> QED
      BY <3>2 DEF a
  <2> QED
    BY <2>1, <2>2 DEF PuthiBase
<1> HIDE DEF p
<1> QED
  BY <1>2 DEF RatePuthi, p

\* The marks of the evaluators that look at the exit status.
LEMMA ExitMark ==
  ASSUME NEW r \in Results, NEW n \in Nat \ {0}
  PROVE  /\ RateExit(r, n) <= 100 /\ (RateExit(r, n) = 100 <=> r.status = 0)
         /\ RateExit0(r) <= 100 /\ (RateExit0(r) = 100 <=> r.status = 0)
         /\ RateExit1(r) <= 100 /\ (RateExit1(r) = 100 <=> r.status = 1)
<1>1. Least(15 * n + 35, 90) \in Int /\ Least(15 * n + 35, 90) <= 90
  <2>1. 15 * n + 35 \in Int
    OBVIOUS
  <2> QED
    BY <2>1, LeastOf
<1>2. RateExit(r, n) <= 100 /\ (RateExit(r, n) = 100 <=> r.status = 0)
  BY <1>1, ResultParts DEF RateExit
<1>3. RateExit0(r) <= 100 /\ (RateExit0(r) = 100 <=> r.status = 0)
  BY DEF RateExit0
<1>4. RateExit1(r) <= 100 /\ (RateExit1(r) = 100 <=> r.status = 1)
  BY DEF RateExit1
<1> QED
  BY <1>2, <1>3, <1>4

\* The marks of the evaluators with the guard, for a listing with lines.
LEMMA InitMark ==
  ASSUME NEW r \in Results, NEW asm, asm # <<>>, Len(asm) \in Nat
  PROVE  /\ RateInit(r, asm) <= 100
         /\ RateInit(r, asm) = 100 <=> r.status = 0 /\ Guard(asm)
<1> DEFINE p == Least(10 * Len(asm), 60)
<1>1. p \in Int /\ p <= 60
  BY LinePoints
<1>2. RateInit(r, asm) =
        IF ~Guard(asm) THEN 0
        ELSE IF r.status = 0 THEN 100
        ELSE p + (IF r.status < 128 THEN 30 ELSE 0)
  BY DEF RateInit
<1> HIDE DEF p
<1> QED
  BY <1>1, <1>2

LEMMA HelloMark ==
  ASSUME NEW r \in Results, NEW asm, asm # <<>>, Len(asm) \in Nat
  PROVE  /\ RateHello(r, asm) <= 100
         /\ RateHello(r, asm) = 100 <=> r.status = 0 /\ Greets(r.out, 5) /\ Guard(asm)
<1> DEFINE p == Least(Len(asm) + 46, 90)
           k == CHOOSE j \in 1..4 : Greets(r.out, j) /\ (j = 4 \/ ~Greets(r.out, j + 1))
<1>1. p \in Int /\ p <= 90
  BY LinePoints
<1>2. (\E j \in 1..4 : Greets(r.out, j)) => k \in 1..4
  <2> SUFFICES ASSUME \E j \in 1..4 : Greets(r.out, j)
               PROVE  k \in 1..4
    OBVIOUS
  <2> DEFINE G(j) == Greets(r.out, j)
  <2>1. G(1) \/ G(2) \/ G(3) \/ G(4)
    OBVIOUS
  <2>2. 1 + 1 = 2 /\ 2 + 1 = 3 /\ 3 + 1 = 4 /\ 1..4 = {1, 2, 3, 4}
    OBVIOUS
  <2> HIDE DEF G
  <2>3. \E j \in {1, 2, 3, 4} : G(j) /\ (j = 4 \/ ~G(j + 1))
    BY <2>1, <2>2
  <2>4. \E j \in 1..4 : G(j) /\ (j = 4 \/ ~G(j + 1))
    BY <2>2, <2>3
  <2> QED
    BY <2>4 DEF G
<1>3. RateHello(r, asm) =
        IF ~Guard(asm) \/ r.status # 0 THEN 0
        ELSE IF Greets(r.out, 5) THEN 100
        ELSE IF \E j \in 1..4 : Greets(r.out, j) THEN 70 + 6 * k
        ELSE p
  BY DEF RateHello
<1> HIDE DEF p, k
<1> QED
  BY <1>1, <1>2, <1>3

\* A protein has a listing, an empty one only if it is empty.
LEMMA ListingLines ==
  ASSUME NEW body \in Seq(Instructions), body # <<>>
  PROVE  Listing(body) # <<>> /\ Len(Listing(body)) \in Nat
<1> DEFINE n == Len(body)
           part == [k \in DOMAIN body |-> Lines(body[k])]
<1>1. n \in Nat /\ body \in [1..n -> Instructions] /\ n \in 1..n /\ n - 1 \in 0..n
  OBVIOUS
<1>2. PICK f : Joins(f, Kinds, n, part) /\ Listing(body) = f[n]
  BY <1>1, ListingIsJoin
<1>3. part[n] = Lines(body[n])
  BY <1>1
<1> HIDE DEF part, n
<1>4. f[n] = f[n - 1] \o Lines(body[n]) /\ f[n - 1] \in Seq(Kinds)
  BY <1>1, <1>2, <1>3 DEF Joins
<1>5. Len(f[n]) = Len(f[n - 1]) + Len(Lines(body[n]))
  BY <1>4, LinesOf, TwoJoined
<1>6. Len(f[n - 1]) \in Nat /\ Len(Lines(body[n])) \in Nat \ {0}
  BY <1>4, LinesOf
<1>7. Len(f[n]) \in Nat /\ Len(f[n]) # 0
  <2> DEFINE a == Len(f[n - 1])
             b == Len(Lines(body[n]))
  <2> HIDE DEF a, b
  <2>1. a \in Nat /\ b \in Nat \ {0} /\ Len(f[n]) = a + b
    BY <1>5, <1>6 DEF a, b
  <2> QED
    BY <2>1
<1> QED
  BY <1>2, <1>7

\* What each evaluator gives: at most 100, and that for what it asks for only.
LEMMA MarkIsGoal ==
  ASSUME NEW e \in Known, result \in Results, cell.dna \in Seq(Codon), cell.dna # <<>>,
         cell.body \in Seq(Instructions), cell.body # <<>>
  PROVE  /\ Rate(e, result, cell) <= 100
         /\ Rate(e, result, cell) = 100 <=> Goal(e) /\ ~Refused(e)
<1> DEFINE n == Len(cell.dna)
           asm == Listing(cell.body)
           r == result
<1>1. n \in Nat \ {0}
  OBVIOUS
<1>2. asm # <<>> /\ Len(asm) \in Nat
  BY ListingLines
<1>3. e \notin Guarded => ~Refused(e)
  BY DEF Refused
<1>4. e \in Guarded => (Refused(e) <=> ~Guard(asm))
  BY DEF Refused
<1> HIDE DEF n, asm
<1>5. CASE e = "puta"
  <2>1. Rate(e, r, cell) = RatePuta(r, n)
    BY <1>5 DEF Rate, n, asm
  <2>2. e \notin Guarded
    BY <1>5 DEF Guarded
  <2> QED
    BY <1>1, <1>2, <1>3, <1>5, <2>1, <2>2, PutaMark DEF Goal
<1>6. CASE e = "puta_0"
  <2>1. Rate(e, r, cell) = RatePuta0(r)
    BY <1>6 DEF Rate, n, asm
  <2>2. e \notin Guarded
    BY <1>6 DEF Guarded
  <2> QED
    BY <1>1, <1>2, <1>3, <1>6, <2>1, <2>2, PutaMark DEF Goal
<1>7. CASE e = "putchar"
  <2>1. Rate(e, r, cell) = RatePutchar(r, n)
    BY <1>7 DEF Rate, n, asm
  <2>2. e \notin Guarded
    BY <1>7 DEF Guarded
  <2> QED
    BY <1>1, <1>2, <1>3, <1>7, <2>1, <2>2, PutcharMark DEF Goal
<1>8. CASE e = "putchar-2"
  <2>1. Rate(e, r, cell) = RatePutchar2(r, n)
    BY <1>8 DEF Rate, n, asm
  <2>2. e \notin Guarded
    BY <1>8 DEF Guarded
  <2> QED
    BY <1>1, <1>2, <1>3, <1>8, <2>1, <2>2, PutcharMark DEF Goal
<1>9. CASE e = "putchar-3"
  <2>1. Rate(e, r, cell) = RatePutchar3(r, n)
    BY <1>9 DEF Rate, n, asm
  <2>2. e \notin Guarded
    BY <1>9 DEF Guarded
  <2> QED
    BY <1>1, <1>2, <1>3, <1>9, <2>1, <2>2, PutcharMark DEF Goal
<1>10. CASE e = "puthi"
  <2>1. Rate(e, r, cell) = RatePuthi(r, n, 5)
    BY <1>10 DEF Rate, n, asm
  <2>2. e \notin Guarded
    BY <1>10 DEF Guarded
  <2> QED
    BY <1>1, <1>2, <1>3, <1>10, <2>1, <2>2, PuthiMark DEF Goal
<1>11. CASE e = "puthi-2"
  <2>1. Rate(e, r, cell) = RatePuthi(r, n, 10)
    BY <1>11 DEF Rate, n, asm
  <2>2. e \notin Guarded
    BY <1>11 DEF Guarded
  <2> QED
    BY <1>1, <1>2, <1>3, <1>11, <2>1, <2>2, PuthiMark DEF Goal
<1>12. CASE e = "exit"
  <2>1. Rate(e, r, cell) = RateExit(r, n)
    BY <1>12 DEF Rate, n, asm
  <2>2. e \notin Guarded
    BY <1>12 DEF Guarded
  <2> QED
    BY <1>1, <1>2, <1>3, <1>12, <2>1, <2>2, ExitMark DEF Goal
<1>13. CASE e = "exit_0"
  <2>1. Rate(e, r, cell) = RateExit0(r)
    BY <1>13 DEF Rate, n, asm
  <2>2. e \notin Guarded
    BY <1>13 DEF Guarded
  <2> QED
    BY <1>1, <1>2, <1>3, <1>13, <2>1, <2>2, ExitMark DEF Goal
<1>14. CASE e = "exit_1"
  <2>1. Rate(e, r, cell) = RateExit1(r)
    BY <1>14 DEF Rate, n, asm
  <2>2. e \notin Guarded
    BY <1>14 DEF Guarded
  <2> QED
    BY <1>1, <1>2, <1>3, <1>14, <2>1, <2>2, ExitMark DEF Goal
<1>15. CASE e = "init"
  <2>1. Rate(e, r, cell) = RateInit(r, asm)
    BY <1>15 DEF Rate, n, asm
  <2>2. e \in Guarded
    BY <1>15 DEF Guarded
  <2> QED
    BY <1>1, <1>2, <1>4, <1>15, <2>1, <2>2, InitMark DEF Goal
<1>16. CASE e = "hello"
  <2>1. Rate(e, r, cell) = RateHello(r, asm)
    BY <1>16 DEF Rate, n, asm
  <2>2. e \in Guarded
    BY <1>16 DEF Guarded
  <2> QED
    BY <1>1, <1>2, <1>4, <1>16, <2>1, <2>2, HelloMark DEF Goal
<1> QED
  BY <1>5, <1>6, <1>7, <1>8, <1>9, <1>10, <1>11, <1>12, <1>13, <1>14, <1>15, <1>16 DEF Known

\* What they give to a cell without codons.
LEMMA MarkOfNoCodons ==
  ASSUME NEW e \in Known, result \in Results, cell.dna = <<>>,
         cell.body \in Seq(Instructions), cell.body # <<>>
  PROVE  Rate(e, result, cell) <= 100 \/ Rate(e, result, cell) = Wrong
<1> DEFINE n == Len(cell.dna)
           asm == Listing(cell.body)
           r == result
<1>1. n = 0
  OBVIOUS
<1>2. asm # <<>> /\ Len(asm) \in Nat
  BY ListingLines
<1>3. r \in Results /\ r.status \in {0, 1, 139}
  BY ResultParts
<1> HIDE DEF n, asm, r
<1>4. CASE e \in {"puta", "putchar", "putchar-2", "putchar-3", "puthi", "puthi-2", "exit"}
  <2>1. RatePuta(r, n) \in {0, Wrong} /\ RatePutchar(r, n) \in {0, Wrong}
    BY <1>1 DEF RatePuta, RatePutchar
  <2>2. RatePutchar2(r, n) \in {0, Wrong}
    BY <1>1 DEF RatePutchar2
  <2>3. RatePutchar3(r, n) \in {0, Wrong}
    BY <2>2 DEF RatePutchar3
  <2>4. RatePuthi(r, n, 5) \in {0, Wrong} /\ RatePuthi(r, n, 10) \in {0, Wrong}
    BY <1>1 DEF RatePuthi
  <2>5. RateExit(r, n) \in {100, Wrong}
    BY <1>1 DEF RateExit
  <2>6. Rate(e, r, cell) \in {0, 100, Wrong}
    BY <1>4, <2>1, <2>2, <2>3, <2>4, <2>5 DEF Rate, n
  <2> QED
    BY <2>6 DEF r
<1>5. CASE e \in {"puta_0", "exit_0", "exit_1"}
  <2>1. RatePuta0(r) \in {50, 100} /\ RateExit0(r) \in {50, 100} /\ RateExit1(r) \in {50, 100}
    BY DEF RatePuta0, RateExit0, RateExit1
  <2>2. Rate(e, r, cell) \in {50, 100}
    BY <1>5, <2>1 DEF Rate
  <2> QED
    BY <2>2 DEF r
<1>6. CASE e = "init"
  <2>1. RateInit(r, asm) <= 100
    BY <1>2, <1>3, InitMark
  <2> QED
    BY <1>6, <2>1 DEF Rate, asm, r
<1>7. CASE e = "hello"
  <2>1. RateHello(r, asm) <= 100
    BY <1>2, <1>3, HelloMark
  <2> QED
    BY <1>7, <2>1 DEF Rate, asm, r
<1> QED
  BY <1>4, <1>5, <1>6, <1>7 DEF Known

\* Every cell of the line has a protein: the instructions of the DNA of its
\* parent, which had codons, or of its own.
HasProtein == cell.body # <<>>

LEMMA ProteinOfCodons ==
  ASSUME NEW dna \in Seq(Codon), dna # <<>>
  PROVE  Protein(dna) # <<>>
<1>1. Len(Protein(dna)) = Len(dna) /\ Protein(dna) \in Seq(Code)
  BY ProteinSeq
<1> QED
  BY <1>1

LEMMA InitHasProtein ==
  ASSUME Init
  PROVE  HasProtein
<1>1. PICK d \in Founders : cell = Born(d)
  BY DEF Init
<1>2. d \in Seq(Codon) /\ d # <<>>
  BY EvaluationAssumption
<1> QED
  BY <1>1, <1>2, ProteinOfCodons DEF HasProtein, Born

LEMMA NextHasProtein ==
  ASSUME LineInv, HasProtein, [Next]_vars
  PROVE  HasProtein'
<1>1. CASE Divide
  <2>1. cell' \in Children(cell, Code, Len(cell.dna) < MaxDna) \cup Copies(cell)
    BY <1>1 DEF Divide, Offspring
  <2>2. cell \in [dna : Seq(Codon), body : Seq(Code), life : Int, left : Int]
    BY DEF LineInv, CellOfLine
  <2>3. cell'.body = Protein(cell.dna)
    BY <2>1, <2>2, ChildCell
  <2>4. cell.dna # <<>>
    BY <1>1 DEF Divide
  <2> QED
    BY <2>2, <2>3, <2>4, ProteinOfCodons DEF HasProtein
<1>2. CASE UNCHANGED cell
  BY <1>2 DEF HasProtein
<1> QED
  BY <1>1, <1>2 DEF Next, Convert, Evaluate, HandMake, PutAway, vars

\* HundredIsGoal, for every line of cells: to a cell with codons no evaluator
\* gives more than 100, or 100 for anything but what it is for, and to one
\* without codons none gives more than 100 but the 200 that ends the process.
THEOREM HundredTheorem == Spec => []HundredIsGoal
<1>1. LineInv /\ HasProtein => HundredIsGoal
  <2> SUFFICES ASSUME LineInv, HasProtein, pc = "rated", NEW e \in Evaluators
               PROVE  IF cell.dna = <<>> THEN fitness[e] <= 100 \/ fitness[e] = Wrong
                      ELSE fitness[e] <= 100 /\ (fitness[e] = 100 <=> Goal(e) /\ ~Refused(e))
    BY DEF HundredIsGoal
  <2>1. /\ cell.dna \in Seq(Codon) /\ cell.body \in Seq(Instructions) /\ cell.body # <<>>
        /\ Function(cell.body) \in Seq(Int)
    BY CodeBytes DEF LineInv, CellOfLine, HasProtein
  <2>2. /\ elf = Cell2Elf(Function(cell.body)) /\ result = Execute(elf, cell.body)
        /\ fitness[e] = Rate(e, result, cell)
    BY DEF LineInv, ElfOfCell, RatedCell
  <2>3. result \in Results
    BY <2>1, <2>2, FileBytes, ExecuteResults
  <2>4. e \in Known
    BY EvaluationAssumption
  <2>5. CASE cell.dna = <<>>
    BY <2>1, <2>2, <2>3, <2>4, <2>5, MarkOfNoCodons
  <2>6. CASE cell.dna # <<>>
    BY <2>1, <2>2, <2>3, <2>4, <2>6, MarkIsGoal
  <2> QED
    BY <2>5, <2>6
<1>2. Init => LineInv /\ HasProtein
  BY InitLineInv, InitHasProtein, EvaluationAssumption
<1>3. LineInv /\ HasProtein /\ [Next]_vars => (LineInv /\ HasProtein)'
  BY NextLineInv, NextHasProtein
<1> QED
  BY <1>1, <1>2, <1>3, PTL DEF Spec

LEMMA NextAnchored ==
  ASSUME LineInv, Anchored(cell.dna), [Next]_vars
  PROVE  Anchored(cell.dna)'
<1>1. CASE Divide
  <2>1. cell' \in Children(cell, Code, Len(cell.dna) < MaxDna) \cup Copies(cell)
    BY <1>1 DEF Divide, Offspring
  <2>2. cell \in [dna : Seq(Codon), body : Seq(Code), life : Int, left : Int]
    BY DEF LineInv, CellOfLine
  <2>3. cell'.dna \in NewDnas(cell.dna, Code, Len(cell.dna) < MaxDna)
    BY <2>1, <2>2, ChildCell
  <2> QED
    BY <2>2, <2>3, NewDnaFlags
<1>2. CASE UNCHANGED cell
  BY <1>2
<1> QED
  BY <1>1, <1>2 DEF Next, Convert, Evaluate, HandMake, PutAway, vars

\* The line of a cell with one codon that must be neither changed nor removed,
\* as every sample but the hello cell has, never comes to that: no evaluator
\* gives more than 100 in any generation, so none ends the process.
NeverRejected == pc = "rated" => \A e \in Evaluators : fitness[e] <= 100

THEOREM HundredAnchoredTheorem ==
  ASSUME \A d \in Founders : Anchored(d)
  PROVE  Spec => []NeverRejected
<1>1. Init => LineInv /\ Anchored(cell.dna)
  BY InitLineInv DEF Init, Born
<1>2. LineInv /\ Anchored(cell.dna) /\ [Next]_vars => (LineInv /\ Anchored(cell.dna))'
  BY NextLineInv, NextAnchored
<1>3. Anchored(cell.dna) => cell.dna # <<>>
  BY DEF Anchored
<1>4. HundredIsGoal /\ cell.dna # <<>> => NeverRejected
  BY DEF HundredIsGoal, NeverRejected
<1> QED
  BY <1>1, <1>2, <1>3, <1>4, HundredTheorem, PTL DEF Spec
-----------------------------------------------------------------------------
(* The end of a program with the exit block *)

\* Only ret crashes; exit ends the program with 0 or 1.
LEMMA StepStatus ==
  ASSUME NEW m \in States, m.status = Running, NEW x \in Instructions, x # "ret",
         NEW e, \A a \in Int : ByteAt(e, a) \in Int
  PROVE  /\ Step(m, x, e).status \in {Running, 0, 1}
         /\ x = "exit" => Step(m, x, e).status \in {0, 1}
<1>1. Step(m, x, e) = Instruction(m, x, e)
  BY DEF Step
<1>2. m.rdi \in {0, 1} /\ m.rax \in Int
  BY DEF States, Loaded, MachineStates
<1>3. CASE x \in Moves
  BY <1>1, <1>3, MoveStates DEF Moves
<1>4. CASE x = "write"
  BY <1>1, <1>4, CallInstructions, CallStates
<1>5. CASE x = "exit"
  <2>1. Call(m, 60, e).status = m.rdi
    BY ExitStatus
  <2> QED
    BY <1>1, <1>2, <1>5, <2>1, CallInstructions
<1>6. CASE x = "syscall"
  <2>1. Call(m, m.rax, e).status \in {m.rdi, m.status}
    BY <1>2, CallStates
  <2> QED
    BY <1>1, <1>2, <1>6, <2>1, CallInstructions
<1> QED
  BY <1>3, <1>4, <1>5, <1>6 DEF Moves

\* Every ret of the program comes behind an exit.
RetsLate(body) ==
  \A k \in 1..Len(body) : body[k] = "ret" => \E j \in 1..(k - 1) : body[j] = "exit"

\* The program has not crashed, and while it runs it has passed no exit.
Alive(m, body, k) ==
  /\ m.status \in {Running, 0, 1}
  /\ m.status = Running => \A j \in 1..k : body[j] # "exit"

LEMMA AliveStep ==
  ASSUME NEW body \in Seq(Instructions), RetsLate(body), NEW k \in 1..Len(body),
         NEW m \in States, Alive(m, body, k - 1),
         NEW e, \A a \in Int : ByteAt(e, a) \in Int
  PROVE  Alive(Step(m, body[k], e), body, k)
<1>1. body[k] \in Instructions
  OBVIOUS
<1>2. CASE m.status # Running
  <2>1. Step(m, body[k], e) = m
    BY <1>2 DEF Step
  <2> QED
    BY <1>2, <2>1 DEF Alive
<1>3. CASE m.status = Running
  <2>1. body[k] # "ret"
    BY <1>3 DEF Alive, RetsLate
  <2>2. /\ Step(m, body[k], e).status \in {Running, 0, 1}
        /\ body[k] = "exit" => Step(m, body[k], e).status \in {0, 1}
    BY <1>1, <1>3, <2>1, StepStatus
  <2>3. Running \notin {0, 1}
    BY DEF Running
  <2>4. \A j \in 1..k : j = k \/ j \in 1..(k - 1)
    OBVIOUS
  <2> QED
    BY <1>3, <2>2, <2>3, <2>4 DEF Alive
<1> QED
  BY <1>2, <1>3

\* The program then ends by itself if it has an exit.
LEMMA ExitEnds ==
  ASSUME NEW body \in Seq(Instructions), RetsLate(body),
         NEW i \in 1..Len(body), body[i] = "exit",
         NEW e, \A a \in Int : ByteAt(e, a) \in Int
  PROVE  Last(e, body).status \in {0, 1}
<1> DEFINE n == Len(body)
<1>1. n \in Nat
  OBVIOUS
<1>2. PICK f : RunOf(f, body, e) /\ Last(e, body) = f[n]
  BY RunIsLoop
<1>3. /\ f \in [0..n -> States] /\ f[0] = Started
      /\ \A k \in 1..n : f[k] = Step(f[k - 1], body[k], e)
  BY <1>2 DEF RunOf
<1> DEFINE T == {k \in Nat : Alive(f[k], body, k)}
<1>4. 0 \in T
  <2>1. Started.status = Running /\ \A j \in 1..0 : FALSE
    BY DEF Started
  <2> QED
    BY <1>3, <2>1 DEF Alive
<1>5. ASSUME NEW k \in 1..n, k - 1 \in T
      PROVE  k \in T
  <2>1. k \in Nat /\ k - 1 \in 0..n
    OBVIOUS
  <2>2. f[k - 1] \in States /\ Alive(f[k - 1], body, k - 1)
    BY <1>3, <1>5, <2>1
  <2>3. Alive(Step(f[k - 1], body[k], e), body, k)
    BY <2>2, AliveStep
  <2>4. f[k] = Step(f[k - 1], body[k], e)
    BY <1>3
  <2> QED
    BY <2>1, <2>3, <2>4
<1>6. n \in T
  <2>1. \A k \in 0..n : k \in T
    <3> HIDE DEF T, n
    <3> QED
      BY <1>1, <1>4, <1>5, LoopInduction
  <2> QED
    BY <1>1, <2>1
<1> QED
  BY <1>2, <1>6 DEF Alive

\* An executable of a protein starts the program at its first instruction.
LEMMA FunctionBytes ==
  ASSUME NEW body \in Seq(Instructions), body # <<>>
  PROVE  Function(body) \in Seq(Int) /\ Function(body) # <<>>
<1> DEFINE n == Len(body)
           part == [k \in DOMAIN body |-> Machine(body[k])]
<1>1. n \in Nat /\ body \in [1..n -> Instructions] /\ n \in 1..n /\ n - 1 \in 0..n
  OBVIOUS
<1>2. PICK f : Joins(f, Int, n, part) /\ Function(body) = f[n]
  BY FunctionIsJoin
<1>3. part[n] = Machine(body[n]) /\ body[n] \in Instructions
  BY <1>1
<1> HIDE DEF part, n
<1>4. f[n] = f[n - 1] \o Machine(body[n]) /\ f[n - 1] \in Seq(Int)
  BY <1>1, <1>2, <1>3 DEF Joins
<1>5. Machine(body[n]) \in Seq(Int) /\ Machine(body[n]) # <<>>
  BY <1>3, MachineBytes
<1> DEFINE s == f[n - 1]
           t == Machine(body[n])
<1> HIDE DEF s, t
<1>6. s \in Seq(Int) /\ t \in Seq(Int) /\ t # <<>> /\ f[n] = s \o t
  BY <1>4, <1>5 DEF s, t
<1>7. s \o t \in Seq(Int) /\ s \o t # <<>>
  BY <1>6
<1> QED
  BY <1>2, <1>6, <1>7

LEMMA ProgramStarts ==
  ASSUME NEW body \in Seq(Instructions), body # <<>>,
         NEW e, e = Cell2Elf(Function(body))
  PROVE  Starts(e, body)
<1> DEFINE code == Function(body)
<1>1. code \in Seq(Int) /\ code # <<>>
  BY FunctionBytes
<1>2. e.entry \in Int
  <2>1. e.entry = LoadVaddr + Headers + Len(Chars)
    BY DEF Cell2Elf
  <2> QED
    BY <2>1, CharsList, Addresses
<1> HIDE DEF code
<1>3. e = Cell2Elf(code)
  BY DEF code
<1>4. 1 \in DOMAIN code /\ code[1] = Head(code)
  BY <1>1
<1>5. e.entry + 1 - 1 = e.entry
  BY <1>2
<1>6. Runs(e, code)
  BY <1>1, <1>3, Cell2ElfLayout
<1>7. ByteAt(e, e.entry + 1 - 1) = code[1]
  BY <1>4, <1>6 DEF Runs
<1>8. ByteAt(e, e.entry) = Head(Function(body))
  BY <1>4, <1>5, <1>7 DEF code
<1> QED
  BY <1>8 DEF Starts
\* The exit blocks of the samples, by instruction and flags.
Genes(dna) == [k \in DOMAIN dna |-> [code |-> dna[k].code, dis |-> dna[k].dis]]
Blocks == {Genes(ExitDna), Genes(Exit1Dna)}

Named == [code : {"xor_rdi_rdi", "mov_1_rdi", "exit", "ret"}, dis : SUBSET Flag]

\* A DNA that ends with one, and the protein of such a DNA.
EndsWithBlock(dna) == \E tail \in Blocks : EndsWith(dna, tail)

ProteinEnds(body) ==
  /\ Len(body) >= 3
  /\ body[Len(body) - 2] # "ret"
  /\ body[Len(body) - 1] = "exit"
  /\ body[Len(body)] = "ret"

LEMMA BlockShape ==
  ASSUME NEW tail \in Blocks
  PROVE  /\ DOMAIN tail = 1..3 /\ tail \in [1..3 -> Named] /\ Len(tail) = 3
         /\ tail[1].code \in {"xor_rdi_rdi", "mov_1_rdi"}
         /\ tail[2].code = "exit" /\ tail[3].code = "ret"
         /\ SealsTail(tail)
<1> DEFINE first == {"insn", "mod", "rem"}
<1>1. PICK x \in {"xor_rdi_rdi", "mov_1_rdi"} :
        tail = Genes(<<Codn(x, first), Codn("exit", Flag), Codn("ret", Flag)>>)
  BY DEF Blocks, ExitDna, Exit1Dna, EndFirst, LastCall, Ret
<1>2. /\ DOMAIN tail = 1..3
      /\ tail[1] = [code |-> x, dis |-> first]
      /\ tail[2] = [code |-> "exit", dis |-> Flag]
      /\ tail[3] = [code |-> "ret", dis |-> Flag]
  BY <1>1 DEF Genes, Codn
<1>3. first \in SUBSET Flag /\ Flag \in SUBSET Flag
  BY DEF Flag
<1>names. {x, "exit", "ret"} \subseteq {"xor_rdi_rdi", "mov_1_rdi", "exit", "ret"}
  OBVIOUS
<1> HIDE DEF first
<1>4. \A s \in {x, "exit", "ret"} : \A g \in SUBSET Flag : [code |-> s, dis |-> g] \in Named
  BY <1>names DEF Named
<1>5. tail \in [1..3 -> Named]
  <2>1. tail = [k \in DOMAIN tail |-> tail[k]]
    BY <1>1 DEF Genes
  <2>2. tail[1] \in Named /\ tail[2] \in Named /\ tail[3] \in Named
    BY <1>2, <1>3, <1>4
  <2>3. \A k \in 1..3 : k = 1 \/ k = 2 \/ k = 3
    OBVIOUS
  <2>4. \A k \in 1..3 : tail[k] \in Named
    BY <2>2, <2>3
  <2> QED
    BY <1>2, <2>1, <2>4
<1>6. Len(tail) = 3
  BY <1>5, SeqOfFunction
<1>7. SealsTail(tail)
  <2>1. \A k \in 1..3 : k = 1 \/ k = 2 \/ k = 3
    OBVIOUS
  <2>2. {"mod", "rem", "insn"} \subseteq tail[1].dis
    BY <1>2 DEF first
  <2>3. {"mod", "rem", "insn"} \subseteq Flag /\ "insp" \in Flag
    BY DEF Flag
  <2>4. tail[2].dis = Flag /\ tail[3].dis = Flag
    BY <1>2
  <2> QED
    BY <1>2, <2>1, <2>2, <2>3, <2>4 DEF SealsTail
<1> QED
  BY <1>1, <1>2, <1>5, <1>6, <1>7

\* A block at the end of a DNA is made of the instructions of the samples.
LEMMA BlockGenes ==
  ASSUME NEW tail \in Blocks, NEW dna \in Seq(Codon), EndsWith(dna, tail)
  PROVE  tail \in Seq(Gene)
<1>1. tail \in [1..3 -> Named] /\ Len(tail) = 3
  BY BlockShape
<1>2. \A k \in 1..3 : tail[k] \in Named
  BY <1>1
<1>3. ASSUME NEW k \in 1..3
      PROVE  tail[k] \in Gene
  <2>1. tail[k].code = dna[Len(dna) - 3 + k].code /\ Len(dna) - 3 + k \in 1..Len(dna)
    BY <1>1 DEF EndsWith
  <2>2. dna[Len(dna) - 3 + k] \in Codon
    BY <2>1
  <2>3. tail[k].code \in Code
    BY <2>1, <2>2 DEF Codon
  <2> QED
    BY <1>2, <2>3 DEF Gene, Named
<1>4. tail \in [1..3 -> Gene]
  BY <1>1, <1>3
<1> QED
  BY <1>4, SeqOfFunction

LEMMA EndsOfProtein ==
  ASSUME NEW dna \in Seq(Codon), EndsWithBlock(dna)
  PROVE  ProteinEnds(Protein(dna))
<1>1. PICK tail \in Blocks : EndsWith(dna, tail)
  BY DEF EndsWithBlock
<1>2. /\ Len(tail) = 3 /\ tail[1].code \in {"xor_rdi_rdi", "mov_1_rdi"}
      /\ tail[2].code = "exit" /\ tail[3].code = "ret"
  BY BlockShape
<1> DEFINE n == Len(dna)
           p == Protein(dna)
<1>3. Len(p) = n /\ n \in Nat /\ \A k \in 1..n : p[k] = dna[k].code
  BY ProteinAt
<1>4. 3 <= n /\ \A k \in 1..3 : dna[n - 3 + k].code = tail[k].code
  BY <1>1, <1>2 DEF EndsWith
<1> HIDE DEF n, p
<1>5. /\ n - 3 + 1 = n - 2 /\ n - 3 + 2 = n - 1 /\ n - 3 + 3 = n
      /\ n - 2 \in 1..n /\ n - 1 \in 1..n /\ n \in 1..n
      /\ 1 \in 1..3 /\ 2 \in 1..3 /\ 3 \in 1..3
  BY <1>3, <1>4
<1>6. /\ dna[n - 2].code = tail[1].code /\ dna[n - 1].code = tail[2].code
      /\ dna[n].code = tail[3].code
  BY <1>4, <1>5
<1>7. p[n - 2] # "ret" /\ p[n - 1] = "exit" /\ p[n] = "ret"
  BY <1>2, <1>3, <1>5, <1>6
<1> QED
  BY <1>3, <1>4, <1>7 DEF ProteinEnds, p

LEMMA EndsKept ==
  ASSUME NEW dna \in Seq(Codon), EndsWithBlock(dna), NEW growing,
         NEW d \in NewDnas(dna, Code, growing)
  PROVE  EndsWithBlock(d)
<1>1. PICK tail \in Blocks : EndsWith(dna, tail)
  BY DEF EndsWithBlock
<1>2. tail \in Seq(Gene) /\ SealsTail(tail)
  BY <1>1, BlockGenes, BlockShape
<1>3. Code \in SUBSET Code
  OBVIOUS
<1>4. EndsWith(d, tail)
  BY <1>1, <1>2, <1>3, NewDnaTail
<1> QED
  BY <1>4 DEF EndsWithBlock

\* A cell with an untouchable codon has the whole block, and so had its parent.
TailOfCell ==
  \/ Flag \notin FlagSets(cell.dna)
  \/ EndsWithBlock(cell.dna) /\ ProteinEnds(cell.body)

\* As every sample.
FounderTails == \A d \in Founders : Flag \notin FlagSets(d) \/ EndsWithBlock(d)

LEMMA InitTail ==
  ASSUME FounderTails, Init
  PROVE  TailOfCell
<1>1. PICK d \in Founders : cell = Born(d)
  BY DEF Init
<1>2. d \in Seq(Codon)
  BY EvaluationAssumption
<1>3. cell.dna = d /\ cell.body = Protein(d)
  BY <1>1 DEF Born
<1> QED
  BY <1>2, <1>3, EndsOfProtein DEF TailOfCell, FounderTails

LEMMA NextTail ==
  ASSUME LineInv, TailOfCell, [Next]_vars
  PROVE  TailOfCell'
<1>1. CASE Divide
  <2> DEFINE growing == Len(cell.dna) < MaxDna
  <2>1. cell' \in Children(cell, Code, growing) \cup Copies(cell)
    BY <1>1 DEF Divide, Offspring
  <2>2. cell \in [dna : Seq(Codon), body : Seq(Code), life : Int, left : Int]
    BY DEF LineInv, CellOfLine
  <2>3. cell'.dna \in NewDnas(cell.dna, Code, growing) /\ cell'.body = Protein(cell.dna)
    BY <2>1, <2>2, ChildCell
  <2> HIDE DEF growing
  <2>4. cell.dna \in Seq(Codon) /\ Code \in SUBSET Code
    BY <2>2
  <2>5. CASE Flag \notin FlagSets(cell.dna)
    <3>1. FlagSets(cell'.dna) \subseteq FlagSets(cell.dna) \cup {{}}
      BY <2>3, <2>4, NewDnaFlags
    <3>2. Flag # {}
      BY DEF Flag
    <3> QED
      BY <2>5, <3>1, <3>2 DEF TailOfCell
  <2>6. CASE EndsWithBlock(cell.dna)
    <3>1. EndsWithBlock(cell'.dna)
      BY <2>3, <2>4, <2>6, EndsKept
    <3>2. ProteinEnds(cell'.body)
      BY <2>3, <2>4, <2>6, EndsOfProtein
    <3> QED
      BY <3>1, <3>2 DEF TailOfCell
  <2> QED
    BY <2>5, <2>6 DEF TailOfCell
<1>2. CASE UNCHANGED cell
  BY <1>2 DEF TailOfCell
<1> QED
  BY <1>1, <1>2 DEF Next, Convert, Evaluate, HandMake, PutAway, vars

\* A ret that comes before the block, and before any exit.
EarlyRet(body) ==
  \E i \in 1..Len(body) - 3 : body[i] = "ret" /\ \A j \in 1..i : body[j] # "exit"

LEMMA NoEarlyRet ==
  ASSUME NEW body \in Seq(Instructions), ProteinEnds(body), ~EarlyRet(body)
  PROVE  RetsLate(body)
<1> DEFINE n == Len(body)
<1>1. n \in Nat /\ n >= 3 /\ n - 1 \in 1..n
  BY DEF ProteinEnds
<1>2. body[n - 2] # "ret" /\ body[n - 1] = "exit" /\ body[n] = "ret" /\ "exit" # "ret"
  BY DEF ProteinEnds
<1>3. ASSUME NEW k \in 1..n, body[k] = "ret"
      PROVE  \E j \in 1..(k - 1) : body[j] = "exit"
  <2>1. k \in 1..n - 3 \/ k = n - 2 \/ k = n - 1 \/ k = n
    BY <1>1
  <2>2. k # n - 2 /\ k # n - 1
    BY <1>2, <1>3
  <2>3. CASE k \in 1..n - 3
    <3>1. PICK j \in 1..k : body[j] = "exit"
      BY <1>3, <2>3 DEF EarlyRet
    <3>2. j # k
      BY <1>2, <1>3, <3>1
    <3>3. j \in 1..(k - 1)
      BY <3>2
    <3> QED
      BY <3>1, <3>3
  <2>4. CASE k = n
    BY <1>1, <1>2, <2>4
  <2> QED
    BY <2>1, <2>2, <2>3, <2>4
<1> QED
  BY <1>3 DEF RetsLate

\* EndsByTail: a descendant of a sample crashes only when mutation has put a ret
\* before the exit block and before every other exit; otherwise the block ends
\* its program (create-exit-cell.c:26-50).
THEOREM EndsTheorem ==
  ASSUME FounderTails
  PROVE  Spec => []EndsByTail
<1>1. LineInv /\ TailOfCell => EndsByTail
  <2> SUFFICES ASSUME LineInv, TailOfCell, pc = "rated", result.status = Crashed,
                      cell.dna # <<>>, cell.dna[Len(cell.dna)].dis = Flag,
                      ~EarlyRet(cell.body)
               PROVE  FALSE
    <3>1. Len(ExitDna) = 3
      BY DEF ExitDna
    <3> QED
      BY <3>1 DEF EndsByTail, EarlyRet
  <2> DEFINE body == cell.body
  <2>1. cell.dna \in Seq(Codon) /\ body \in Seq(Instructions) /\ Function(body) \in Seq(Int)
    BY CodeBytes DEF LineInv, CellOfLine
  <2>2. elf = Cell2Elf(Function(body)) /\ result = Execute(elf, body)
    BY DEF LineInv, ElfOfCell, RatedCell
  <2>3. Flag \in FlagSets(cell.dna)
    <3>1. Len(cell.dna) \in DOMAIN cell.dna
      BY <2>1
    <3> QED
      BY <3>1 DEF FlagSets
  <2>4. ProteinEnds(body)
    BY <2>3 DEF TailOfCell
  <2> HIDE DEF body
  <2>5. RetsLate(body)
    BY <2>1, <2>4, NoEarlyRet DEF body
  <2>6. Len(body) - 1 \in 1..Len(body) /\ body[Len(body) - 1] = "exit" /\ body # <<>>
    BY <2>1, <2>4 DEF ProteinEnds
  <2>7. \A a \in Int : ByteAt(elf, a) \in Int
    BY <2>1, <2>2, FileBytes
  <2>8. Last(elf, body).status \in {0, 1}
    BY <2>1, <2>5, <2>6, <2>7, ExitEnds
  <2>9. Starts(elf, body)
    BY <2>1, <2>2, <2>6, ProgramStarts
  <2>10. Running \notin {0, 1} /\ Crashed \notin {0, 1}
    BY DEF Running, Crashed
  <2>11. Outcome(elf, body) = Last(elf, body)
    BY <2>8, <2>9, <2>10 DEF Outcome
  <2>12. result.status = Last(elf, body).status
    BY <2>2, <2>11 DEF Execute
  <2> QED
    BY <2>8, <2>10, <2>12
<1>2. Init => LineInv /\ TailOfCell
  BY InitLineInv, InitTail
<1>3. LineInv /\ TailOfCell /\ [Next]_vars => (LineInv /\ TailOfCell)'
  BY NextLineInv, NextTail
<1> QED
  BY <1>1, <1>2, <1>3, PTL DEF Spec

-----------------------------------------------------------------------------
(* The text of a DNA *)

\* What characters are, except for the NUL.
Letters == Nat \ {NUL}

\* Buffer h holds the characters of t and no others.
Filled(h, t) == DOMAIN h = 0..(Len(t) - 1) /\ \A k \in 1..Len(t) : h[k - 1] = t[k]

\* A write at the end of t, over the rest of what was there.
LEMMA PutHolds ==
  ASSUME NEW u \in Seq(Nat), NEW t \in Seq(Nat), NEW s \in Seq(Nat), Filled(buf, u),
         Len(t) <= Len(u), Len(u) <= Len(t) + Len(s),
         \A k \in 1..Len(t) : u[k] = t[k]
  PROVE  Filled(Put(Len(t), s), t \o s)
<1> DEFINE n == Len(t)
           m == Len(s)
           D == DOMAIN buf \cup n..(n + m - 1)
           w(k) == IF k \in n..(n + m - 1) THEN s[k - n + 1] ELSE buf[k]
           h == [k \in D |-> w(k)]
<1>1. n \in Nat /\ m \in Nat /\ Len(u) \in Nat
  OBVIOUS
<1>2. Put(n, s) = h
  BY DEF Put
<1>3. D = 0..(n + m - 1)
  BY <1>1 DEF Filled
<1>4. Len(t \o s) = n + m /\ \A k \in 1..n : (t \o s)[k] = t[k]
  BY TwoJoined
<1>5. \A k \in 1..m : (t \o s)[n + k] = s[k]
  BY TwoJoined
<1> HIDE DEF D, n, m
<1>6. ASSUME NEW k \in 1..n + m
      PROVE  h[k - 1] = (t \o s)[k]
  <2>1. k - 1 \in D
    BY <1>1, <1>3
  <2>2. h[k - 1] = w(k - 1)
    BY <2>1
  <2>3. CASE k \in 1..n
    <3>1. k - 1 \notin n..(n + m - 1)
      BY <1>1, <2>3
    <3>2. k \in 1..Len(u)
      BY <1>1, <2>3 DEF n
    <3>3. buf[k - 1] = u[k]
      BY <3>2 DEF Filled
    <3>4. u[k] = t[k]
      BY <2>3 DEF n
    <3> QED
      BY <1>4, <2>2, <2>3, <3>1, <3>3, <3>4
  <2>4. CASE k \notin 1..n
    <3>1. k - 1 \in n..(n + m - 1) /\ k - n \in 1..m /\ k - 1 - n + 1 = k - n /\ n + (k - n) = k
      BY <1>1, <2>4
    <3>2. w(k - 1) = s[k - n]
      BY <3>1
    <3>3. (t \o s)[n + (k - n)] = s[k - n]
      BY <1>5, <3>1
    <3> QED
      BY <2>2, <3>1, <3>2, <3>3
  <2> QED
    BY <2>3, <2>4
<1>7. DOMAIN h = 0..(n + m - 1)
  BY <1>3
<1> HIDE DEF h
<1>8. DOMAIN h = 0..(Len(t \o s) - 1)
  <2>1. Len(t \o s) = n + m
    BY <1>4
  <2>2. n + m - 1 = Len(t \o s) - 1
    BY <1>1, <2>1
  <2> QED
    BY <1>7, <2>2, Zenon
<1>9. \A k \in 1..Len(t \o s) : h[k - 1] = (t \o s)[k]
  BY <1>4, <1>6
<1>10. Filled(h, t \o s)
  BY <1>8, <1>9 DEF Filled
<1> QED
  BY <1>2, <1>10 DEF n

\* The end of the text is where the next part goes.
LEMMA PutAppends ==
  ASSUME NEW t \in Seq(Nat), NEW s \in Seq(Nat), Filled(buf, t)
  PROVE  Filled(Put(Len(t), s), t \o s)
<1>1. Len(t) \in Nat /\ Len(s) \in Nat
  OBVIOUS
<1>2. Len(t) <= Len(t) /\ Len(t) <= Len(t) + Len(s)
  BY <1>1
<1> QED
  BY <1>2, PutHolds

\* So is the NUL that ends it.
LEMMA PutOverNul ==
  ASSUME NEW t \in Seq(Nat), NEW s \in Seq(Nat), s # <<>>, Filled(buf, t \o <<NUL>>)
  PROVE  Filled(Put(Len(t), s), t \o s)
<1>1. <<NUL>> \in Seq(Nat) /\ Len(<<NUL>>) = 1
  BY DEF NUL
<1>2. /\ t \o <<NUL>> \in Seq(Nat) /\ Len(t \o <<NUL>>) = Len(t) + 1
      /\ \A k \in 1..Len(t) : (t \o <<NUL>>)[k] = t[k]
  BY <1>1, TwoJoined
<1>3. Len(t) \in Nat /\ Len(s) \in Nat /\ Len(s) # 0
  OBVIOUS
<1>4. Len(t) <= Len(t) + 1 /\ Len(t) + 1 <= Len(t) + Len(s)
  BY <1>3
<1> HIDE DEF NUL
<1> QED
  BY <1>2, <1>4, PutHolds

-----------------------------------------------------------------------------
(* The measure of a DNA *)

LEMMA OffsetsAre ==
  ASSUME NEW l \in Seq(1..MaxLen)
  PROVE  /\ Offsets(l) \in [0..Len(l) -> Nat]
         /\ Offsets(l)[0] = 0
         /\ \A k \in 1..Len(l) : Offsets(l)[k] = Offsets(l)[k - 1] + 3 * l[k] + 1
<1> DEFINE n == Len(l)
           g == [k \in 1..n |-> [x \in Nat |-> x + 3 * l[k] + 1]]
           F(h) == [k \in 0..n |-> IF k = 0 THEN 0 ELSE h[k - 1] + 3 * l[k] + 1]
           c == CHOOSE h : h = F(h)
<1>1. n \in Nat /\ \A k \in 1..n : l[k] \in Nat
  BY DumpAssumption
<1>2. g \in [1..n -> [Nat -> Nat]] /\ \A k \in 1..n : \A x \in Nat : g[k][x] = x + 3 * l[k] + 1
  BY <1>1
<1> HIDE DEF g
<1>3. 0 \in Nat
  OBVIOUS
<1>4. PICK f : Loop(f, Nat, 0, n, g)
  BY <1>1, <1>2, <1>3, LoopExists
<1>5. f \in [0..n -> Nat] /\ f[0] = 0
  BY <1>4 DEF Loop
<1>6. ASSUME NEW k \in 1..n
      PROVE  f[k] = f[k - 1] + 3 * l[k] + 1
  <2>0. k - 1 \in 0..n
    BY <1>1
  <2>1. f[k - 1] \in Nat
    BY <1>5, <2>0
  <2>2. f[k] = g[k][f[k - 1]]
    BY <1>4 DEF Loop
  <2> QED
    BY <1>2, <2>1, <2>2
<1>7. f = F(f)
  <2>1. \A k \in 0..n : f[k] = IF k = 0 THEN 0 ELSE f[k - 1] + 3 * l[k] + 1
    <3> SUFFICES ASSUME NEW k \in 0..n
                 PROVE  f[k] = IF k = 0 THEN 0 ELSE f[k - 1] + 3 * l[k] + 1
      OBVIOUS
    <3>1. k # 0 => k \in 1..n
      BY <1>1
    <3> QED
      BY <1>5, <1>6, <3>1
  <2> QED
    BY <1>5, <2>1
<1>8. c = F(c)
  BY <1>7
<1>9. Offsets(l) = c
  BY DEF Offsets
<1> HIDE DEF c
<1> DEFINE T == {k \in Nat : c[k] = f[k]}
<1>10. 0 \in T
  BY <1>1, <1>5, <1>8
<1>11. ASSUME NEW k \in 1..n, k - 1 \in T
       PROVE  k \in T
  <2>1. k \in 0..n /\ k # 0 /\ k \in Nat
    BY <1>1
  <2>2. c[k] = c[k - 1] + 3 * l[k] + 1
    BY <1>8, <2>1
  <2>3. c[k - 1] = f[k - 1]
    BY <1>11
  <2> QED
    BY <1>6, <2>1, <2>2, <2>3
<1>12. \A k \in 0..n : k \in T
  <2> HIDE DEF T, n
  <2> QED
    BY <1>1, <1>10, <1>11, LoopInduction
<1>13. c = f
  <2>1. \A k \in 0..n : c[k] = f[k]
    BY <1>12
  <2>2. DOMAIN c = 0..n /\ c = [k \in 0..n |-> c[k]]
    BY <1>8
  <2> QED
    BY <1>5, <2>1, <2>2
<1> QED
  BY <1>5, <1>6, <1>9, <1>13

\* They grow.
LEMMA OffsetsGrow ==
  ASSUME NEW l \in Seq(1..MaxLen), NEW k \in 0..Len(l)
  PROVE  Offsets(l)[k] <= BufSize(l)
<1> DEFINE n == Len(l)
           at == Offsets(l)
           T == {m \in Nat : \A i \in 0..m : at[i] <= at[m]}
<1>1. n \in Nat /\ \A i \in 1..n : l[i] \in Nat
  BY DumpAssumption
<1>2. at \in [0..n -> Nat] /\ \A i \in 1..n : at[i] = at[i - 1] + 3 * l[i] + 1
  BY OffsetsAre
<1> HIDE DEF at, n
<1>3. 0 \in T
  BY <1>1, <1>2
<1>4. ASSUME NEW m \in 1..n, m - 1 \in T
      PROVE  m \in T
  <2>1. \A i \in 0..(m - 1) : at[i] <= at[m - 1]
    BY <1>4
  <2>2. m \in Nat /\ m - 1 \in 0..n /\ m \in 0..n /\ l[m] \in Nat
    BY <1>1
  <2>3. at[m - 1] \in Nat /\ at[m] = at[m - 1] + 3 * l[m] + 1
    BY <1>2, <2>2
  <2>4. ASSUME NEW i \in 0..m
        PROVE  at[i] <= at[m]
    <3>1. i \in 0..n /\ (i = m \/ i \in 0..(m - 1))
      BY <1>1
    <3>2. at[i] \in Nat
      BY <1>2, <3>1
    <3>3. at[i] = at[m] \/ at[i] <= at[m - 1]
      BY <2>1, <3>1
    <3> QED
      BY <2>2, <2>3, <3>2, <3>3
  <2> QED
    BY <2>2, <2>4
<1>5. \A i \in 0..n : i \in T
  <2> HIDE DEF T
  <2> QED
    BY <1>1, <1>3, <1>4, LoopInduction
<1>6. n \in T /\ k \in 0..n
  BY <1>1, <1>5 DEF n
<1> QED
  BY <1>6 DEF BufSize, at, n

-----------------------------------------------------------------------------
(* The text as it should be *)

\* The digits of a byte are letters, and so are the separators.
LEMMA AreLetters ==
  /\ \A k \in Nat, b \in Nat, half \in {0, 1} : Digit(k, b, half) \in Letters
  /\ Space \in Letters /\ Comma \in Letters
  BY DEF Digit, Letters, NUL, Space, Comma

LEMMA BytesAre ==
  ASSUME NEW k \in Nat, NEW n \in Nat
  PROVE  Bytes(k, n) \in Seq(Seq(Letters)) /\ Len(Bytes(k, n)) = n
<1>1. ASSUME NEW b \in 1..n
      PROVE  Bytes(k, n)[b] \in Seq(Letters)
  <2> DEFINE p == <<Digit(k, b - 1, 0), Digit(k, b - 1, 1)>>
             e == IF b < n THEN <<Space>> ELSE <<>>
  <2>1. b - 1 \in Nat
    OBVIOUS
  <2>2. p \in Seq(Letters)
    BY <2>1, AreLetters
  <2>3. e \in Seq(Letters)
    BY AreLetters
  <2>4. Bytes(k, n)[b] = p \o e
    BY DEF Bytes
  <2> HIDE DEF p, e
  <2> QED
    BY <2>2, <2>3, <2>4, ConcatProperties
<1>2. DOMAIN Bytes(k, n) = 1..n /\ Bytes(k, n) = [b \in 1..n |-> Bytes(k, n)[b]]
  BY DEF Bytes
<1>3. Bytes(k, n) \in [1..n -> Seq(Letters)]
  <2> DEFINE s == Bytes(k, n)
  <2>1. s = [b \in 1..n |-> s[b]] /\ \A b \in 1..n : s[b] \in Seq(Letters)
    BY <1>1, <1>2
  <2> HIDE DEF s
  <2>2. s \in [1..n -> Seq(Letters)]
    BY <2>1
  <2> QED
    BY <2>2 DEF s
<1> QED
  BY <1>3, SeqOfFunction

\* f holds the parts of the text of an instruction, byte by byte.
BytesOf(f, k, n) ==
  Joins(f, Letters, n, Bytes(k, n)) /\ SeqX!FlattenSeq(Bytes(k, n)) = f[n]

LEMMA BytesJoin ==
  ASSUME NEW k \in Nat, NEW n \in Nat
  PROVE  \E f : BytesOf(f, k, n)
<1>1. Bytes(k, n) \in Seq(Seq(Letters)) /\ Len(Bytes(k, n)) = n
  BY BytesAre
<1>2. \E f : /\ Joins(f, Letters, Len(Bytes(k, n)), Bytes(k, n))
             /\ SeqX!FlattenSeq(Bytes(k, n)) = f[Len(Bytes(k, n))]
  BY <1>1, FlattenIsJoin
<1> QED
  BY <1>1, <1>2 DEF BytesOf

\* f holds the parts of the text of a DNA, instruction by instruction.
TextOf(f, l) == Joins(f, Letters, Len(l), Instructed(l)) /\ Joined(l) = f[Len(l)]

LEMMA TextJoin ==
  ASSUME NEW l \in Seq(1..MaxLen)
  PROVE  \E f : TextOf(f, l)
<1> DEFINE n == Len(l)
           s == Instructed(l)
<1>1. n \in Nat /\ DOMAIN l = 1..n /\ \A k \in 1..n : k \in Nat /\ l[k] \in Nat
  BY DumpAssumption
<1>2. ASSUME NEW k \in 1..n
      PROVE  s[k] \in Seq(Letters)
  <2> DEFINE p == SeqX!FlattenSeq(Bytes(k, l[k]))
             e == IF k < n THEN <<Comma, Space>> ELSE <<>>
  <2>1. k \in Nat /\ l[k] \in Nat
    BY <1>1
  <2>2. PICK f : BytesOf(f, k, l[k])
    BY <2>1, BytesJoin
  <2>3. l[k] \in 0..l[k]
    BY <2>1
  <2>4. p \in Seq(Letters)
    BY <2>2, <2>3 DEF BytesOf, Joins
  <2>5. e \in Seq(Letters)
    BY AreLetters
  <2>6. s[k] = p \o e
    BY <1>1 DEF Instructed
  <2> HIDE DEF p, e, s
  <2> QED
    BY <2>4, <2>5, <2>6, ConcatProperties
<1>3. s = [k \in 1..n |-> s[k]]
  BY <1>1 DEF Instructed
<1>4. s \in Seq(Seq(Letters)) /\ Len(s) = n
  <2> HIDE DEF s, n
  <2>1. s \in [1..n -> Seq(Letters)]
    BY <1>2, <1>3
  <2> QED
    BY <1>1, <2>1, SeqOfFunction
<1>5. \E f : Joins(f, Letters, Len(s), s) /\ SeqX!FlattenSeq(s) = f[Len(s)]
  <2> HIDE DEF s
  <2> QED
    BY <1>4, FlattenIsJoin
<1>6. Joined(l) = SeqX!FlattenSeq(s)
  BY DEF Joined
<1> QED
  BY <1>4, <1>5, <1>6 DEF TextOf

\* The text so far, while byte bi of instruction ci is to be written: the
\* instructions before it, its bytes so far and, after the last of them, the NUL.
Writing(f, g) ==
  /\ ci \in 1..Len(lens) /\ bi \in 0..lens[ci]
  /\ TextOf(f, lens) /\ BytesOf(g, ci, lens[ci])
  /\ buf_p = Len(f[ci - 1]) /\ buf_p = Offsets(lens)[ci - 1]
  /\ Len(g[bi]) = IF bi = lens[ci] THEN 3 * bi - 1 ELSE 3 * bi
  /\ Filled(buf, (f[ci - 1] \o g[bi]) \o (IF bi = lens[ci] THEN <<NUL>> ELSE <<>>))

\* Text and buffer agree, and there is room for the NUL.
Written == Filled(buf, Joined(lens) \o <<NUL>>) /\ Len(Joined(lens)) < BufSize(lens)

TextInv ==
  /\ lens \in Seq(1..MaxLen)
  /\ \/ phase = "byte" /\ \E f, g : Writing(f, g)
     \/ phase = "done" /\ Joined(lens) \in Seq(Letters) /\ Written
     \/ phase # "byte" /\ lens = <<>> /\ buf = <<>>

Regrouped(a, b, c, d) == (a \o b) \o (c \o d) = (a \o (b \o c)) \o d

LEMMA Regroup ==
  ASSUME NEW S, NEW a \in Seq(S), NEW b \in Seq(S), NEW c \in Seq(S), NEW d \in Seq(S)
  PROVE  Regrouped(a, b, c, d)
<1>1. b \o c \in Seq(S) /\ c \o d \in Seq(S)
  BY ConcatProperties
<1>2. (a \o b) \o (c \o d) = a \o (b \o (c \o d))
  BY <1>1, ConcatAssociative
<1>3. b \o (c \o d) = (b \o c) \o d
  BY ConcatAssociative
<1>4. a \o ((b \o c) \o d) = (a \o (b \o c)) \o d
  BY <1>1, ConcatAssociative
<1> QED
  BY <1>2, <1>3, <1>4 DEF Regrouped

LEMMA ElementOf ==
  ASSUME NEW S, NEW s \in Seq(S), NEW k \in 1..Len(s)
  PROVE  Len(s) \in Nat /\ s[k] \in S /\ k \in DOMAIN s
  OBVIOUS

\* What Writing says of its parts.
LEMMA WritingTypes ==
  ASSUME NEW f, NEW g, lens \in Seq(1..MaxLen), Writing(f, g)
  PROVE  /\ ci \in Nat /\ Len(lens) \in Nat /\ bi \in Nat /\ lens[ci] \in Nat /\ lens[ci] >= 1
         /\ f[ci - 1] \in Seq(Letters) /\ f[ci] \in Seq(Letters)
         /\ f[ci] = f[ci - 1] \o Instructed(lens)[ci]
         /\ \A b \in 0..lens[ci] : g[b] \in Seq(Letters)
         /\ g[0] = <<>>
<1>1. ci \in 1..Len(lens) /\ Len(lens) \in Nat /\ lens[ci] \in 1..MaxLen
  <2>1. ci \in 1..Len(lens)
    BY DEF Writing
  <2> QED
    BY <2>1, ElementOf
<1>2. lens[ci] \in Nat /\ lens[ci] >= 1
  BY <1>1, DumpAssumption
<1>3. ci - 1 \in 0..Len(lens) /\ ci \in 0..Len(lens)
  BY <1>1
<1>4. f \in [0..Len(lens) -> Seq(Letters)] /\ f[ci] = f[ci - 1] \o Instructed(lens)[ci]
  BY <1>1 DEF Writing, TextOf, Joins
<1>5. g \in [0..lens[ci] -> Seq(Letters)] /\ g[0] = <<>>
  BY DEF Writing, BytesOf, Joins
<1>6. bi \in Nat
  BY <1>2 DEF Writing
<1>7. f[ci - 1] \in Seq(Letters) /\ f[ci] \in Seq(Letters)
  BY <1>3, <1>4
<1>8. \A b \in 0..lens[ci] : g[b] \in Seq(Letters)
  BY <1>5
<1>9. ci \in Nat
  BY <1>1
<1> QED
  BY <1>1, <1>2, <1>4, <1>5, <1>6, <1>7, <1>8, <1>9

LEMMA LettersAreNumbers == \A s \in Seq(Letters) : s \in Seq(Nat)
  BY DEF Letters

LEMMA ByteStep ==
  ASSUME NEW f, NEW g, lens \in Seq(1..MaxLen), Writing(f, g), Byte
  PROVE  Writing(f, g)'
<1> DEFINE n == lens[ci]
           p == <<Digit(ci, bi, 0), Digit(ci, bi, 1)>>
           e == IF bi + 1 < n THEN <<Space>> ELSE <<>>
           z == IF bi + 1 = n THEN <<NUL>> ELSE <<>>
           s == <<Digit(ci, bi, 0), Digit(ci, bi, 1), IF bi < n - 1 THEN Space ELSE NUL>>
           t == f[ci - 1] \o g[bi]
<1>1. /\ ci \in Nat /\ bi \in Nat /\ n \in Nat /\ bi < n
      /\ f[ci - 1] \in Seq(Nat) /\ g[bi] \in Seq(Nat) /\ g[bi + 1] \in Seq(Nat)
  <2>1. bi < n
    BY DEF Byte
  <2>2. ci \in Nat /\ bi \in Nat /\ n \in Nat
    BY WritingTypes
  <2>3. bi \in 0..n /\ bi + 1 \in 0..n
    BY <2>1, <2>2
  <2>4. f[ci - 1] \in Seq(Letters) /\ \A b \in 0..n : g[b] \in Seq(Letters)
    BY WritingTypes
  <2> HIDE DEF n
  <2> QED
    BY <2>1, <2>2, <2>3, <2>4, LettersAreNumbers
<1>2. t \in Seq(Nat) /\ Len(t) = buf_p + 3 * bi
  <2>1. bi # n
    BY <1>1
  <2>2. Len(g[bi]) = 3 * bi /\ Len(f[ci - 1]) = buf_p
    BY <2>1 DEF Writing
  <2>3. t \in Seq(Nat) /\ Len(t) = Len(f[ci - 1]) + Len(g[bi])
    BY <1>1, ConcatProperties
  <2> QED
    BY <2>2, <2>3
<1>3. Filled(buf, t)
  <2>1. bi # n
    BY <1>1
  <2>2. Filled(buf, t \o <<>>)
    BY <2>1 DEF Writing
  <2>3. t \o <<>> = t
    BY <1>2
  <2> QED
    BY <2>2, <2>3
<1>4. /\ p \in Seq(Nat) /\ Len(p) = 2 /\ e \in Seq(Nat) /\ z \in Seq(Nat) /\ s \in Seq(Nat)
      /\ s = (p \o e) \o z /\ Len(e) = IF bi + 1 < n THEN 1 ELSE 0
  <2>1. Digit(ci, bi, 0) \in Nat /\ Digit(ci, bi, 1) \in Nat /\ Space \in Nat /\ NUL \in Nat
    BY <1>1 DEF Digit, Space, NUL
  <2> HIDE DEF n
  <2>2. CASE bi + 1 < n
    <3>1. bi < n - 1 /\ bi + 1 # n
      BY <1>1, <2>2
    <3> QED
      BY <2>1, <2>2, <3>1
  <2>3. CASE ~(bi + 1 < n)
    <3>1. ~(bi < n - 1) /\ bi + 1 = n
      BY <1>1, <2>3
    <3> QED
      BY <2>1, <2>3, <3>1
  <2> QED
    BY <2>2, <2>3
<1>5. g[bi + 1] = g[bi] \o (p \o e)
  <2>1. bi + 1 \in 1..n /\ bi + 1 - 1 = bi
    BY <1>1
  <2> DEFINE d == bi + 1
  <2>2. \A b \in 1..n : g[b] = g[b - 1] \o Bytes(ci, n)[b]
    BY DEF Writing, BytesOf, Joins
  <2>3. \A b \in 1..n : Bytes(ci, n)[b] =
          <<Digit(ci, b - 1, 0), Digit(ci, b - 1, 1)>> \o (IF b < n THEN <<Space>> ELSE <<>>)
    BY DEF Bytes
  <2>4. d \in 1..n /\ d - 1 = bi
    BY <1>1
  <2>5. g[d] = g[d - 1] \o Bytes(ci, n)[d]
    BY <2>2, <2>4
  <2>6. Bytes(ci, n)[d] = <<Digit(ci, d - 1, 0), Digit(ci, d - 1, 1)>> \o (IF d < n THEN <<Space>> ELSE <<>>)
    BY <2>3, <2>4
  <2> QED
    BY <2>4, <2>5, <2>6
<1>6. buf' = Put(Len(t), s)
  BY <1>2 DEF Byte
<1>7. t \o s = (f[ci - 1] \o g[bi + 1]) \o z
  <2> HIDE DEF p, e, z, s, n
  <2>1. p \o e \in Seq(Nat)
    BY <1>4, ConcatProperties
  <2> DEFINE q == p \o e
             a == f[ci - 1]
             b == g[bi]
  <2>2. a \in Seq(Nat) /\ b \in Seq(Nat) /\ q \in Seq(Nat) /\ z \in Seq(Nat) /\ t = a \o b
    BY <1>1, <1>4, <2>1 DEF t
  <2>3. Regrouped(a, b, q, z)
    <3> DEFINE N == Nat
    <3>1. a \in Seq(N) /\ b \in Seq(N) /\ q \in Seq(N) /\ z \in Seq(N)
      BY <2>2
    <3> HIDE DEF a, b, q, N
    <3> QED
      BY <3>1, Regroup
  <2> QED
    BY <1>4, <1>5, <2>2, <2>3 DEF Regrouped
<1>8. Filled(buf', (f[ci - 1] \o g[bi + 1]) \o z)
  <2> HIDE DEF t, s, z
  <2> QED
    BY <1>2, <1>3, <1>4, <1>6, <1>7, PutAppends
<1>9. Len(g[bi + 1]) = IF bi + 1 = n THEN 3 * (bi + 1) - 1 ELSE 3 * (bi + 1)
  <2>1. Len(g[bi]) = 3 * bi
    BY <1>1 DEF Writing
  <2>2. Len(g[bi + 1]) = Len(g[bi]) + (Len(p) + Len(e))
    <3> HIDE DEF p, e
    <3>1. p \o e \in Seq(Nat) /\ Len(p \o e) = Len(p) + Len(e)
      BY <1>4, ConcatProperties
    <3> QED
      BY <1>1, <1>5, <3>1, ConcatProperties
  <2> HIDE DEF p, e, n
  <2> QED
    BY <1>1, <1>4, <2>1, <2>2
<1>10. ci' = ci /\ lens' = lens /\ buf_p' = buf_p /\ bi' = bi + 1
  BY DEF Byte
<1>11. bi + 1 \in 0..n
  BY <1>1
<1>12. /\ ci' \in 1..Len(lens') /\ bi' \in 0..lens'[ci'] /\ TextOf(f, lens') /\ BytesOf(g, ci', lens'[ci'])
       /\ buf_p' = Len(f[ci' - 1]) /\ buf_p' = Offsets(lens')[ci' - 1]
  BY <1>10, <1>11 DEF Writing
<1>13. Len(g[bi']) = IF bi' = lens'[ci'] THEN 3 * bi' - 1 ELSE 3 * bi'
  BY <1>9, <1>10
<1>14. Filled(buf', (f[ci' - 1] \o g[bi']) \o (IF bi' = lens'[ci'] THEN <<NUL>> ELSE <<>>))
  BY <1>8, <1>10
<1> HIDE DEF p, e, s, t, n, z
<1> QED
  BY <1>12, <1>13, <1>14 DEF Writing, TextOf, BytesOf, Joined, Instructed, Bytes, Joins, Offsets, Filled, Digit

\* When an instruction is complete, so is its part of the text.
LEMMA CodonStep ==
  ASSUME NEW f, NEW g, lens \in Seq(1..MaxLen), Writing(f, g), NextCodon, phase = "byte"
  PROVE  \/ phase' = "byte" /\ \E h : Writing(f, h)'
         \/ phase' = "done" /\ Joined(lens) \in Seq(Letters) /\ Written'
<1> DEFINE n == lens[ci]
           sep == IF ci < Len(lens) THEN <<Comma, Space>> ELSE <<>>
           t == f[ci - 1] \o g[n]
           at == Offsets(lens)
<1>1. /\ ci \in Nat /\ Len(lens) \in Nat /\ n \in Nat /\ n >= 1 /\ bi = n /\ ci \in 1..Len(lens)
      /\ f[ci - 1] \in Seq(Letters) /\ f[ci] \in Seq(Letters) /\ g[n] \in Seq(Letters)
  <2>1. bi = n
    BY DEF NextCodon
  <2>2. ci \in Nat /\ Len(lens) \in Nat /\ n \in Nat /\ n >= 1
    BY WritingTypes
  <2>3. n \in 0..n
    BY <2>2
  <2>4. f[ci - 1] \in Seq(Letters) /\ f[ci] \in Seq(Letters) /\ \A b \in 0..n : g[b] \in Seq(Letters)
    BY WritingTypes
  <2>5. ci \in 1..Len(lens)
    BY DEF Writing
  <2> HIDE DEF n
  <2> QED
    BY <2>1, <2>2, <2>3, <2>4, <2>5
<1>2. sep \in Seq(Letters) /\ t \in Seq(Letters)
  <2>1. sep \in Seq(Letters)
    BY AreLetters
  <2>2. t \in Seq(Letters)
    BY <1>1, ConcatProperties
  <2> QED
    BY <2>1, <2>2
<1>3. Len(t) = buf_p + n * 3 - 1
  <2>1. Len(g[n]) = 3 * n - 1 /\ Len(f[ci - 1]) = buf_p
    BY <1>1 DEF Writing
  <2>2. Len(t) = Len(f[ci - 1]) + Len(g[n])
    BY <1>1, ConcatProperties
  <2>3. Len(f[ci - 1]) \in Nat
    BY <1>1
  <2> HIDE DEF t, n
  <2> QED
    BY <1>1, <2>1, <2>2, <2>3
<1>4. Filled(buf, t \o <<NUL>>)
  BY <1>1 DEF Writing
<1>5. f[ci] = t \o sep
  <2>1. f[ci] = f[ci - 1] \o Instructed(lens)[ci]
    BY WritingTypes
  <2>2. SeqX!FlattenSeq(Bytes(ci, n)) = g[n]
    BY DEF Writing, BytesOf
  <2>3. Instructed(lens)[ci] = g[n] \o sep
    <3>1. ci \in DOMAIN lens
      BY <1>1, ElementOf
    <3>2. Instructed(lens)[ci] = SeqX!FlattenSeq(Bytes(ci, n)) \o sep
      BY <3>1 DEF Instructed
    <3> QED
      BY <2>2, <3>2
  <2>4. f[ci - 1] \o (g[n] \o sep) = t \o sep
    <3> DEFINE a == f[ci - 1]
               b == g[n]
               S == Letters
    <3>1. a \in Seq(S) /\ b \in Seq(S) /\ sep \in Seq(S)
      BY <1>1, <1>2
    <3> HIDE DEF a, b, S, sep
    <3>2. (a \o b) \o sep = a \o (b \o sep)
      BY <3>1, ConcatAssociative
    <3> QED
      BY <3>2 DEF a, b
  <2> QED
    BY <2>1, <2>3, <2>4
<1>6. /\ at \in [0..Len(lens) -> Nat] /\ at[ci] = at[ci - 1] + 3 * n + 1
      /\ at[ci - 1] = buf_p /\ buf_p \in Nat
  <2>1. at \in [0..Len(lens) -> Nat] /\ at[ci] = at[ci - 1] + 3 * n + 1
    BY <1>1, OffsetsAre
  <2>2. at[ci - 1] = buf_p
    BY DEF Writing
  <2>3. ci - 1 \in 0..Len(lens)
    BY <1>1
  <2> HIDE DEF at
  <2> QED
    BY <2>1, <2>2, <2>3
<1>7. CASE ci < Len(lens)
  <2>1. /\ buf' = Put(Len(t), sep) /\ buf_p' = Len(t) + 2 /\ ci' = ci + 1 /\ bi' = 0
        /\ phase' = "byte" /\ lens' = lens
    BY <1>3, <1>7 DEF NextCodon
  <2>2. sep = <<Comma, Space>> /\ sep # <<>> /\ Len(sep) = 2
    BY <1>7
  <2>3. Filled(buf', f[ci])
    <3>1. t \in Seq(Nat) /\ sep \in Seq(Nat)
      BY <1>2, LettersAreNumbers
    <3> HIDE DEF t, sep
    <3> QED
      BY <1>4, <1>5, <2>1, <2>2, <3>1, PutOverNul
  <2>4. Len(f[ci]) = Len(t) + 2
    <3> HIDE DEF t, sep
    <3> QED
      BY <1>2, <1>5, <2>2, ConcatProperties
  <2>5. buf_p' = Len(f[ci]) /\ buf_p' = at[ci]
    <3> HIDE DEF t, at, n
    <3> QED
      BY <1>1, <1>3, <1>6, <2>1, <2>4
  <2> DEFINE c == ci + 1
  <2>6. c \in 1..Len(lens) /\ c - 1 = ci /\ c \in Nat
    BY <1>1, <1>7
  <2>7. lens[c] \in Nat /\ lens[c] # 0 /\ 0 \in 0..lens[c]
    <3>1. lens[c] \in 1..MaxLen
      BY <2>6, ElementOf
    <3> QED
      BY <3>1, DumpAssumption
  <2>8. PICK h : BytesOf(h, c, lens[c])
    BY <2>6, <2>7, BytesJoin
  <2>9. h[0] = <<>> /\ Len(h[0]) = 0
    BY <2>8 DEF BytesOf, Joins
  <2>10. (f[ci] \o h[0]) \o <<>> = f[ci]
    BY <1>1, <2>9
  <2>11. /\ TextOf(f, lens)
    BY DEF Writing
  <2>12. Filled(buf', (f[c - 1] \o h[0]) \o (IF 0 = lens[c] THEN <<NUL>> ELSE <<>>))
    BY <2>3, <2>6, <2>7, <2>10
  <2>13. Len(h[0]) = IF 0 = lens[c] THEN 3 * 0 - 1 ELSE 3 * 0
    BY <2>7, <2>9
  <2>14. /\ ci' \in 1..Len(lens') /\ bi' \in 0..lens'[ci'] /\ TextOf(f, lens') /\ BytesOf(h, ci', lens'[ci'])
         /\ buf_p' = Len(f[ci' - 1]) /\ buf_p' = Offsets(lens')[ci' - 1]
    BY <2>1, <2>5, <2>6, <2>7, <2>8, <2>11
  <2>15. /\ Len(h[bi']) = IF bi' = lens'[ci'] THEN 3 * bi' - 1 ELSE 3 * bi'
         /\ Filled(buf', (f[ci' - 1] \o h[bi']) \o (IF bi' = lens'[ci'] THEN <<NUL>> ELSE <<>>))
    BY <2>1, <2>12, <2>13
  <2> HIDE DEF c, t, sep, n, at
  <2>16. Writing(f, h)'
    BY <2>14, <2>15 DEF Writing, TextOf, BytesOf, Joined, Instructed, Bytes, Joins, Offsets, Filled, Digit
  <2> QED
    BY <2>1, <2>16
<1>8. CASE ~(ci < Len(lens))
  <2>1. ci = Len(lens) /\ sep = <<>>
    BY <1>1, <1>8
  <2>2. phase' = "done" /\ buf' = buf /\ lens' = lens
    BY <1>8 DEF NextCodon
  <2>3. t = f[ci]
    <3> HIDE DEF t
    <3> QED
      BY <1>2, <1>5, <2>1
  <2>4. Joined(lens) = t
    BY <2>1, <2>3 DEF Writing, TextOf
  <2>5. BufSize(lens) = at[ci]
    BY <2>1 DEF BufSize
  <2>6. Len(Joined(lens)) < BufSize(lens)
    <3> HIDE DEF t, at, n
    <3> QED
      BY <1>1, <1>3, <1>6, <2>4, <2>5
  <2>7. Filled(buf', Joined(lens') \o <<NUL>>) /\ Len(Joined(lens')) < BufSize(lens')
    <3> HIDE DEF t
    <3> QED
      BY <1>4, <2>2, <2>4, <2>6
  <2>8. Written'
    BY <2>7 DEF Written
  <2> HIDE DEF t
  <2> QED
    BY <1>2, <2>2, <2>4, <2>8
<1> QED
  BY <1>7, <1>8

LEMMA InitTextInv == DumpInit => TextInv
<1>1. ASSUME InitText
      PROVE  TextInv
  <2>1. lens \in Seq(1..MaxLen)
    BY <1>1, DumpAssumption DEF InitText
  <2>2. CASE lens = <<>>
    BY <1>1, <2>1, <2>2 DEF InitText, TextInv
  <2>3. CASE lens # <<>>
    <3>1. phase = "byte" /\ ci = 1 /\ bi = 0 /\ buf = <<>> /\ buf_p = 0
      BY <1>1, <2>3 DEF InitText
    <3>2. Len(lens) \in Nat /\ Len(lens) # 0 /\ 1 \in 1..Len(lens)
      BY <2>1, <2>3
    <3>3. lens[1] \in Nat /\ lens[1] # 0 /\ 0 \in 0..lens[1]
      <4>1. lens[1] \in 1..MaxLen
        BY <2>1, <3>2, ElementOf
      <4> QED
        BY <4>1, DumpAssumption
    <3>4. PICK f : TextOf(f, lens)
      BY <2>1, TextJoin
    <3>5. PICK g : BytesOf(g, 1, lens[1])
      BY <3>3, BytesJoin
    <3>6. f[0] = <<>> /\ g[0] = <<>> /\ Offsets(lens)[0] = 0
      BY <2>1, <3>4, <3>5, OffsetsAre DEF TextOf, BytesOf, Joins
    <3>7. 1 - 1 = 0 /\ (<<>> \o <<>>) \o <<>> = <<>> /\ Len(<<>>) = 0
      OBVIOUS
    <3>8. Filled(<<>>, <<>>)
      BY DEF Filled
    <3>9. Filled(buf, (f[1 - 1] \o g[0]) \o (IF 0 = lens[1] THEN <<NUL>> ELSE <<>>))
      BY <3>1, <3>3, <3>6, <3>7, <3>8
    <3>10. buf_p = Len(f[1 - 1]) /\ buf_p = Offsets(lens)[1 - 1]
      BY <3>1, <3>6, <3>7
    <3>11. Len(g[0]) = IF 0 = lens[1] THEN 3 * 0 - 1 ELSE 3 * 0
      BY <3>3, <3>6, <3>7
    <3>12. Writing(f, g)
      BY <3>1, <3>2, <3>3, <3>4, <3>5, <3>9, <3>10, <3>11 DEF Writing
    <3> QED
      BY <2>1, <3>1, <3>12 DEF TextInv
  <2> QED
    BY <2>2, <2>3
<1>2. ASSUME InitJson
      PROVE  TextInv
  <2>1. phase = "attr" /\ lens = <<>> /\ buf = <<>>
    BY <1>2 DEF InitJson
  <2> QED
    BY <2>1 DEF TextInv
<1> QED
  BY <1>1, <1>2 DEF DumpInit

LEMMA NextTextInv == TextInv /\ [DumpNext]_dumpVars => TextInv'
<1> SUFFICES ASSUME TextInv, [DumpNext]_dumpVars
             PROVE  TextInv'
  OBVIOUS
<1>1. lens \in Seq(1..MaxLen)
  BY DEF TextInv
<1>2. CASE Byte
  <2>1. phase = "byte" /\ phase' = "byte" /\ lens' = lens
    BY <1>2 DEF Byte
  <2>2. PICK f, g : Writing(f, g)
    BY <2>1 DEF TextInv
  <2>3. Writing(f, g)'
    BY <1>1, <1>2, <2>2, ByteStep
  <2> QED
    BY <1>1, <2>1, <2>3 DEF TextInv
<1>3. CASE NextCodon
  <2>1. phase = "byte" /\ lens' = lens
    BY <1>3 DEF NextCodon
  <2>2. PICK f, g : Writing(f, g)
    BY <2>1 DEF TextInv
  <2>3. \/ phase' = "byte" /\ \E h : Writing(f, h)'
        \/ phase' = "done" /\ Joined(lens) \in Seq(Letters) /\ Written'
    BY <1>1, <1>3, <2>1, <2>2, CodonStep
  <2> QED
    BY <1>1, <2>1, <2>3 DEF TextInv
<1>4. CASE Json
  <2>1. phase \in {"attr", "codons", "func"} /\ phase' \in {"codons", "func", "end"}
        /\ lens' = lens /\ buf' = buf
    BY <1>4 DEF Json, JsonAttr, JsonCodon, JsonFunc, JsonByte, JsonEnd, Write
  <2>2. lens = <<>> /\ buf = <<>>
    BY <2>1 DEF TextInv
  <2> QED
    BY <1>1, <2>1, <2>2 DEF TextInv
<1>5. CASE UNCHANGED dumpVars
  <2>1. /\ phase' = phase /\ lens' = lens /\ ci' = ci /\ bi' = bi /\ buf' = buf /\ buf_p' = buf_p
    BY <1>5 DEF dumpVars
  <2>2. ASSUME NEW f, NEW g, Writing(f, g)
        PROVE  Writing(f, g)'
    <3>1. /\ ci' \in 1..Len(lens') /\ bi' \in 0..lens'[ci'] /\ TextOf(f, lens') /\ BytesOf(g, ci', lens'[ci'])
          /\ buf_p' = Len(f[ci' - 1]) /\ buf_p' = Offsets(lens')[ci' - 1]
          /\ Len(g[bi']) = IF bi' = lens'[ci'] THEN 3 * bi' - 1 ELSE 3 * bi'
          /\ Filled(buf', (f[ci' - 1] \o g[bi']) \o (IF bi' = lens'[ci'] THEN <<NUL>> ELSE <<>>))
      BY <2>1, <2>2 DEF Writing
    <3> QED
      BY <3>1 DEF Writing, TextOf, BytesOf, Joined, Instructed, Bytes, Joins, Offsets, Filled, Digit
  <2>3. Written => Written'
    BY <2>1 DEF Written, Joined, Instructed, Bytes, BufSize, Offsets, Filled, Digit
  <2> QED
    BY <2>1, <2>2, <2>3 DEF TextInv
<1> QED
  BY <1>2, <1>3, <1>4, <1>5 DEF DumpNext, Text

\* WholeText: no character of the text is written behind the buffer that was
\* measured for the DNA, and the text ends up whole, for DNAs of any length
\* (cell.c:158-166, 830-855).
THEOREM TextTheorem == DumpSpec => []WholeText
<1>1. TextInv => WholeText
  <2> SUFFICES ASSUME TextInv
               PROVE  WholeText
    OBVIOUS
  <2>1. lens \in Seq(1..MaxLen)
    BY DEF TextInv
  <2>2. CASE phase = "byte" /\ \E f, g : Writing(f, g)
    <3>1. PICK f, g : Writing(f, g)
      BY <2>2
    <3> DEFINE n == lens[ci]
               z == IF bi = n THEN <<NUL>> ELSE <<>>
               t == f[ci - 1] \o g[bi]
               at == Offsets(lens)
    <3>2. /\ ci \in Nat /\ bi \in Nat /\ n \in Nat /\ f[ci - 1] \in Seq(Letters)
          /\ \A b \in 0..n : g[b] \in Seq(Letters)
      BY <2>1, <3>1, WritingTypes
    <3>3. ci \in 1..Len(lens) /\ bi \in 0..n /\ Filled(buf, t \o z)
      BY <3>1 DEF Writing
    <3>4. g[bi] \in Seq(Letters)
      BY <3>2, <3>3
    <3>5. t \in Seq(Nat) /\ Len(t) = Len(f[ci - 1]) + Len(g[bi])
      <4>1. f[ci - 1] \in Seq(Nat) /\ g[bi] \in Seq(Nat)
        BY <3>2, <3>4, LettersAreNumbers
      <4> QED
        BY <4>1, ConcatProperties
    <3>6. z \in Seq(Nat) /\ Len(z) = IF bi = n THEN 1 ELSE 0
      BY DEF NUL
    <3>7. Len(t \o z) = Len(t) + Len(z)
      <4> HIDE DEF t, z
      <4> QED
        BY <3>5, <3>6, ConcatProperties
    <3>8. Len(f[ci - 1]) = at[ci - 1] /\ Len(g[bi]) = IF bi = n THEN 3 * bi - 1 ELSE 3 * bi
      BY <3>1 DEF Writing
    <3>9. Len(t \o z) = at[ci - 1] + 3 * bi /\ at[ci - 1] \in Nat
      <4>1. Len(f[ci - 1]) \in Nat
        BY <3>2
      <4> HIDE DEF t, z, at, n
      <4> QED
        BY <3>2, <3>5, <3>6, <3>7, <3>8, <4>1
    <3>10. at \in [0..Len(lens) -> Nat] /\ at[ci] = at[ci - 1] + 3 * n + 1
      BY <2>1, <3>3, OffsetsAre
    <3>11. ci \in 0..Len(lens)
      BY <3>3
    <3>12. at[ci] <= BufSize(lens)
      BY <2>1, <3>11, OffsetsGrow
    <3>13. BufSize(lens) \in Nat
      <4>1. Len(lens) \in Nat /\ Len(lens) \in 0..Len(lens)
        BY <2>1
      <4> HIDE DEF at
      <4> QED
        BY <3>10, <4>1 DEF BufSize, at
    <3>14. Len(t \o z) - 1 <= BufSize(lens) - 1 /\ Len(t \o z) \in Nat
      <4> HIDE DEF t, z, at, n
      <4> QED
        BY <3>2, <3>3, <3>9, <3>10, <3>12, <3>13
    <3>15. DOMAIN buf = 0..(Len(t \o z) - 1)
      BY <3>3 DEF Filled
    <3>16. DOMAIN buf \subseteq 0..(BufSize(lens) - 1)
      <4> HIDE DEF t, z
      <4> QED
        BY <3>13, <3>14, <3>15
    <3> QED
      BY <2>2, <3>16 DEF WholeText
  <2>3. CASE phase = "done" /\ Joined(lens) \in Seq(Letters) /\ Written
    <3> DEFINE s == Joined(lens)
    <3>1. s \in Seq(Letters) /\ s \in Seq(Nat) /\ Len(s) \in Nat
      BY <2>3, LettersAreNumbers
    <3>2. Filled(buf, s \o <<NUL>>) /\ Len(s) < BufSize(lens)
      BY <2>3 DEF Written
    <3> HIDE DEF s
    <3>3. /\ Len(s \o <<NUL>>) = Len(s) + 1
          /\ \A k \in 1..Len(s) : (s \o <<NUL>>)[k] = s[k]
          /\ (s \o <<NUL>>)[Len(s) + 1] = NUL
      <4>1. <<NUL>> \in Seq(Nat) /\ Len(<<NUL>>) = 1 /\ <<NUL>>[1] = NUL /\ 1 \in 1..1
        BY DEF NUL
      <4> QED
        BY <3>1, <4>1, TwoJoined
    <3>4. DOMAIN buf = 0..Len(s) /\ buf[Len(s)] = NUL
      <4>1. Len(s) + 1 \in 1..(Len(s) + 1) /\ Len(s) + 1 - 1 = Len(s)
        BY <3>1
      <4> QED
        BY <3>2, <3>3, <4>1 DEF Filled
    <3>5. ASSUME NEW k \in 1..Len(s)
          PROVE  buf[k - 1] = s[k] /\ s[k] # NUL
      <4>1. k \in 1..(Len(s) + 1)
        BY <3>1
      <4>2. s[k] \in Letters
        BY <3>1
      <4>3. buf[k - 1] = s[k]
        BY <3>2, <3>3, <4>1 DEF Filled
      <4> QED
        BY <4>2, <4>3 DEF Letters
    <3>6. IsString(s)
      BY <3>4, <3>5 DEF IsString
    <3>7. BufSize(lens) \in Nat
      <4>1. Len(lens) \in Nat /\ Len(lens) \in 0..Len(lens)
        BY <2>1
      <4>2. Offsets(lens) \in [0..Len(lens) -> Nat]
        BY <2>1, OffsetsAre
      <4> QED
        BY <4>1, <4>2 DEF BufSize
    <3>8. DOMAIN buf \subseteq 0..(BufSize(lens) - 1)
      BY <3>1, <3>2, <3>4, <3>7
    <3> QED
      BY <3>6, <3>8 DEF WholeText, s
  <2>4. CASE phase # "byte" /\ lens = <<>> /\ buf = <<>>
    <3>1. DOMAIN buf = {}
      BY <2>4
    <3> QED
      BY <2>4, <3>1 DEF WholeText
  <2> QED
    BY <2>2, <2>3, <2>4 DEF TextInv
<1> QED
  BY <1>1, InitTextInv, NextTextInv, PTL DEF DumpSpec

-----------------------------------------------------------------------------
(* The JSON of a cell *)

\* The cells that are written.
JsonCell ==
  /\ dumped.num \in 0..MaxCodons /\ dumped.len \in 1..MaxLen
  /\ dumped.size \in Nat /\ dumped.size <= 8 * (dumped.num + 1)

\* Where the writer is, and how far it can have come.
JsonInv ==
  /\ phase \in {"attr", "codons", "func", "end"} => JsonCell /\ buf_p \in Nat
  /\ phase = "attr" => ci = 1 /\ bi = 0 /\ buf_p = 0
  /\ phase = "codons" => /\ ci \in 1..(dumped.num + 1) /\ bi = 0
                         /\ buf_p <= 391 + 378 * (ci - 1)
  /\ phase = "func" => bi \in 0..dumped.size /\ buf_p <= 411 + 378 * dumped.num + 5 * bi
  /\ phase = "end" => buf_p <= 418 + 378 * dumped.num + 5 * dumped.size

LEMMA Bounds == MaxLen \in 1..8 /\ MaxCodons \in Nat
  BY DumpAssumption

LEMMA Widths ==
  /\ Bool \in 4..5 /\ Unsigned \in 1..11 /\ LongLong \in 1..20 /\ Char \in 1..3
  /\ Width(1, 2) \in 1..2
  BY DEF Bool, Unsigned, LongLong, Char, Width

LEMMA AttrFits == AttrText + 15 + 2 \in 0..391
  BY Widths DEF AttrText

LEMMA ByteFits == ByteText \in 3..5
  BY Widths DEF ByteText

LEMMA CodonFits ==
  ASSUME dumped.len \in 1..8, NEW more \in {6, 7}
  PROVE  CodonText + (IF dumped.verbose THEN VerboseText + 8 * ByteText ELSE dumped.len * ByteText)
           + 2 + more \in 0..378
<1>1. CodonText \in 0..222 /\ VerboseText \in 0..107 /\ 8 * ByteText \in 0..40
  BY Widths, ByteFits DEF CodonText, VerboseText
<1>2. dumped.len * ByteText \in 0..40
  <2>1. ByteText \in {3, 4, 5}
    BY ByteFits
  <2>2. CASE ByteText = 3
    BY <2>2
  <2>3. CASE ByteText = 4
    BY <2>3
  <2>4. CASE ByteText = 5
    BY <2>4
  <2> QED
    BY <2>1, <2>2, <2>3, <2>4
<1> DEFINE x == IF dumped.verbose THEN VerboseText + 8 * ByteText ELSE dumped.len * ByteText
<1>3. x \in 0..147
  BY <1>1, <1>2
<1>4. CodonText + x + 2 + more \in 0..378
  <2> HIDE DEF x
  <2> QED
    BY <1>1, <1>3
<1> QED
  BY <1>4

LEMMA InitJsonInv == DumpInit => JsonInv
<1>1. ASSUME InitText
      PROVE  JsonInv
  <2>1. phase \in {"done", "byte"}
    BY <1>1 DEF InitText
  <2> QED
    BY <2>1 DEF JsonInv
<1>2. ASSUME InitJson
      PROVE  JsonInv
  <2>1. PICK n \in 0..MaxCodons, l \in {1, MaxLen}, verbose, wide \in BOOLEAN :
          \E k \in 1..(n + 1) :
            dumped = [num |-> n, size |-> k * l, len |-> l, verbose |-> verbose, wide |-> wide]
    BY <1>2 DEF InitJson
  <2>2. PICK k \in 1..(n + 1) :
          dumped = [num |-> n, size |-> k * l, len |-> l, verbose |-> verbose, wide |-> wide]
    BY <2>1
  <2>3. dumped.num = n /\ dumped.size = k * l /\ dumped.len = l
    BY <2>2
  <2>4. l \in 1..8 /\ l \in 1..MaxLen /\ n \in Nat /\ k \in Nat /\ k <= n + 1
    BY DumpAssumption
  <2>5. k * l \in Nat /\ k * l <= 8 * (n + 1)
    <3>1. l \in {1, 2, 3, 4, 5, 6, 7, 8}
      BY <2>4
    <3>2. ASSUME NEW c \in {1, 2, 3, 4, 5, 6, 7, 8}
          PROVE  k * c \in Nat /\ k * c <= 8 * (n + 1)
      <4>1. CASE c = 1
        BY <2>4, <4>1
      <4>2. CASE c = 2
        BY <2>4, <4>2
      <4>3. CASE c = 3
        BY <2>4, <4>3
      <4>4. CASE c = 4
        BY <2>4, <4>4
      <4>5. CASE c = 5
        BY <2>4, <4>5
      <4>6. CASE c = 6
        BY <2>4, <4>6
      <4>7. CASE c = 7
        BY <2>4, <4>7
      <4>8. CASE c = 8
        BY <2>4, <4>8
      <4> QED
        BY <4>1, <4>2, <4>3, <4>4, <4>5, <4>6, <4>7, <4>8
    <3> QED
      BY <3>1, <3>2
  <2>6. JsonCell
    BY <2>3, <2>4, <2>5 DEF JsonCell
  <2>7. phase = "attr" /\ ci = 1 /\ bi = 0 /\ buf_p = 0
    BY <1>2 DEF InitJson
  <2> QED
    BY <2>6, <2>7 DEF JsonInv
<1> QED
  BY <1>1, <1>2 DEF DumpInit

LEMMA NextJsonInv == JsonInv /\ [DumpNext]_dumpVars => JsonInv'
<1> SUFFICES ASSUME JsonInv, [DumpNext]_dumpVars
             PROVE  JsonInv'
  OBVIOUS
<1>1. CASE Text
  <2>1. phase' \in {"byte", "done"}
    BY <1>1 DEF Text, Byte, NextCodon
  <2> QED
    BY <2>1 DEF JsonInv
<1>2. CASE JsonAttr
  <2>1. /\ phase = "attr" /\ phase' = "codons" /\ ci' = ci /\ bi' = bi /\ dumped' = dumped
        /\ buf_p' = buf_p + (AttrText + 15 + 2)
    BY <1>2 DEF JsonAttr, Write
  <2>2. JsonCell /\ ci = 1 /\ bi = 0 /\ buf_p = 0
    BY <2>1 DEF JsonInv
  <2>3. JsonCell'
    BY <2>1, <2>2 DEF JsonCell
  <2>4. buf_p' \in Nat /\ buf_p' <= 391 + 378 * (ci' - 1)
    BY <2>1, <2>2, AttrFits
  <2>5. ci' \in 1..(dumped.num + 1)
    BY <2>1, <2>2 DEF JsonCell
  <2> QED
    BY <2>1, <2>2, <2>3, <2>4, <2>5 DEF JsonInv
<1>3. CASE JsonCodon
  <2> DEFINE more == IF ci < dumped.num THEN 7 ELSE 6
             x == CodonText + (IF dumped.verbose THEN VerboseText + 8 * ByteText ELSE dumped.len * ByteText)
                    + 2 + more
  <2>1. /\ phase = "codons" /\ phase' = "codons" /\ ci' = ci + 1 /\ bi' = bi /\ dumped' = dumped
        /\ buf_p' = buf_p + x /\ ci <= dumped.num
    BY <1>3 DEF JsonCodon, Write
  <2>2. JsonCell /\ ci \in 1..(dumped.num + 1) /\ bi = 0 /\ buf_p \in Nat /\ buf_p <= 391 + 378 * (ci - 1)
    BY <2>1 DEF JsonInv
  <2>3. x \in 0..378
    <3>1. dumped.len \in 1..MaxLen
      BY <2>2 DEF JsonCell
    <3>2. dumped.len \in 1..8
      BY <3>1, Bounds
    <3>3. more \in {6, 7}
      OBVIOUS
    <3> HIDE DEF more
    <3> QED
      BY <3>2, <3>3, CodonFits
  <2> HIDE DEF x
  <2>4. JsonCell'
    BY <2>1, <2>2 DEF JsonCell
  <2>5. dumped.num \in Nat
    BY <2>2, DumpAssumption DEF JsonCell
  <2>6. buf_p' \in Nat /\ buf_p' <= 391 + 378 * (ci' - 1) /\ ci' \in 1..(dumped.num + 1)
    BY <2>1, <2>2, <2>3, <2>5
  <2> QED
    BY <2>1, <2>2, <2>4, <2>6 DEF JsonInv
<1>4. CASE JsonFunc
  <2>1. /\ phase = "codons" /\ phase' = "func" /\ ci' = ci /\ bi' = bi /\ dumped' = dumped
        /\ buf_p' = buf_p + 20 /\ ci > dumped.num
    BY <1>4 DEF JsonFunc, Write
  <2>2. JsonCell /\ ci \in 1..(dumped.num + 1) /\ bi = 0 /\ buf_p \in Nat /\ buf_p <= 391 + 378 * (ci - 1)
    BY <2>1 DEF JsonInv
  <2>3. JsonCell'
    BY <2>1, <2>2 DEF JsonCell
  <2>4. dumped.num \in Nat /\ dumped.size \in Nat
    BY <2>2, DumpAssumption DEF JsonCell
  <2>5. buf_p' \in Nat /\ buf_p' <= 411 + 378 * dumped.num + 5 * 0 /\ 0 \in 0..dumped.size
    BY <2>1, <2>2, <2>4
  <2> QED
    BY <2>1, <2>2, <2>3, <2>5 DEF JsonInv
<1>5. CASE JsonByte
  <2> DEFINE x == ByteText - (IF bi + 1 < dumped.size THEN 0 ELSE 1)
  <2>1. /\ phase = "func" /\ phase' = "func" /\ bi' = bi + 1 /\ dumped' = dumped
        /\ buf_p' = buf_p + x /\ bi < dumped.size
    BY <1>5 DEF JsonByte, Write
  <2>2. JsonCell /\ bi \in 0..dumped.size /\ buf_p \in Nat /\ buf_p <= 411 + 378 * dumped.num + 5 * bi
    BY <2>1 DEF JsonInv
  <2>3. x \in 0..5
    BY ByteFits
  <2> HIDE DEF x
  <2>4. JsonCell'
    BY <2>1, <2>2 DEF JsonCell
  <2>5. dumped.num \in Nat /\ dumped.size \in Nat
    BY <2>2, DumpAssumption DEF JsonCell
  <2>6. buf_p' \in Nat /\ buf_p' <= 411 + 378 * dumped.num + 5 * bi' /\ bi' \in 0..dumped.size
    BY <2>1, <2>2, <2>3, <2>5
  <2> QED
    BY <2>1, <2>4, <2>6 DEF JsonInv
<1>6. CASE JsonEnd
  <2>1. /\ phase = "func" /\ phase' = "end" /\ dumped' = dumped
        /\ buf_p' = buf_p + 7 /\ bi = dumped.size
    BY <1>6 DEF JsonEnd, Write
  <2>2. JsonCell /\ buf_p \in Nat /\ buf_p <= 411 + 378 * dumped.num + 5 * bi
    BY <2>1 DEF JsonInv
  <2>3. JsonCell'
    BY <2>1, <2>2 DEF JsonCell
  <2>4. dumped.num \in Nat /\ dumped.size \in Nat
    BY <2>2, DumpAssumption DEF JsonCell
  <2>5. buf_p' \in Nat /\ buf_p' <= 418 + 378 * dumped.num + 5 * dumped.size
    BY <2>1, <2>2, <2>4
  <2> QED
    BY <2>1, <2>3, <2>5 DEF JsonInv
<1>7. CASE UNCHANGED dumpVars
  BY <1>7 DEF dumpVars, JsonInv, JsonCell
<1> QED
  BY <1>1, <1>2, <1>3, <1>4, <1>5, <1>6, <1>7 DEF DumpNext, Json

\* Fits: the buffer of cell_make_json is large enough for every cell of up to
\* 96 codons (cell.c:14, 563, 794); from 97 on it is a matter of luck.
THEOREM JsonTheorem ==
  ASSUME MaxCodons <= 96
  PROVE  DumpSpec => []Fits
<1>1. JsonInv => Fits
  <2> SUFFICES ASSUME JsonInv, phase \in {"attr", "codons", "func", "end"}
               PROVE  buf_p < 40960
    BY DEF Fits, StrBufSize
  <2>1. dumped.num \in 0..96 /\ dumped.size \in Nat /\ dumped.size <= 8 * (dumped.num + 1) /\ buf_p \in Nat
    <3>1. dumped.num \in 0..MaxCodons /\ dumped.size \in Nat /\ dumped.size <= 8 * (dumped.num + 1)
      BY DEF JsonInv, JsonCell
    <3>2. buf_p \in Nat
      BY DEF JsonInv
    <3>3. dumped.num \in 0..96
      BY <3>1, Bounds
    <3> QED
      BY <3>1, <3>2, <3>3
  <2>2. CASE phase = "attr"
    BY <2>2 DEF JsonInv
  <2>3. CASE phase = "codons"
    <3>1. ci \in 1..(dumped.num + 1) /\ buf_p <= 391 + 378 * (ci - 1)
      BY <2>3 DEF JsonInv
    <3> QED
      BY <2>1, <3>1
  <2>4. CASE phase = "func"
    <3>1. bi \in 0..dumped.size /\ buf_p <= 411 + 378 * dumped.num + 5 * bi
      BY <2>4 DEF JsonInv
    <3> QED
      BY <2>1, <3>1
  <2>5. CASE phase = "end"
    <3>1. buf_p <= 418 + 378 * dumped.num + 5 * dumped.size
      BY <2>5 DEF JsonInv
    <3> QED
      BY <2>1, <3>1
  <2> QED
    BY <2>2, <2>3, <2>4, <2>5
<1> QED
  BY <1>1, InitJsonInv, NextJsonInv, PTL DEF DumpSpec
=============================================================================
