--------------------------- MODULE CellFileProofs ---------------------------
(***************************************************************************)
(* Theorems about CellFile, for cells of any length, any sizes of the      *)
(* attributes, codons and buffer, and any number of saves and crashes.     *)
(***************************************************************************)
EXTENDS CellFile, TLAPS

USE CellFileAssumption

-----------------------------------------------------------------------------
(* The layout *)

LEMMA DivTimes ==
  ASSUME NEW K \in Nat \ {0}, NEW j \in Nat
  PROVE  (K * j) \div K = j
BY SMT

\* The parts follow one another.
LEMMA Layout ==
  ASSUME NEW c \in Versions
  PROVE  /\ c.num \in Nat /\ c.size \in Nat \ {0}
         /\ DnaAt(c) \in Nat \ {0} /\ BodyAt(c) \in Nat /\ Size(c) \in Nat
         /\ DnaAt(c) <= BodyAt(c) /\ Size(c) = BodyAt(c) + c.size
         /\ BodyAt(c) = DnaAt(c) + CodonSize * c.num
<1>1. c.num \in Nat /\ c.size \in Nat /\ c.size > 0
  BY DEF IsCell
<1>2. CodonSize * c.num \in Nat
  BY <1>1
<1> QED
  BY <1>1, <1>2 DEF DnaAt, BodyAt, Size

\* The first byte of codon k, where a load looks for it.
LEMMA CodonByte ==
  ASSUME NEW c \in Versions, NEW k \in 1..c.num
  PROVE  /\ DnaAt(c) + CodonSize * (k - 1) + 1 \in 1..BodyAt(c)
         /\ ByteOf(c, DnaAt(c) + CodonSize * (k - 1) + 1) = c.dna[k]
<1> DEFINE i == DnaAt(c) + CodonSize * (k - 1) + 1
<1>1. c.num \in Nat /\ DnaAt(c) \in Nat /\ BodyAt(c) = DnaAt(c) + CodonSize * c.num
  BY Layout
<1>2. CodonSize \in Nat \ {0} /\ k \in Nat /\ k - 1 \in Nat /\ k <= c.num
  BY <1>1
<1>3. CodonSize * (k - 1) \in Nat
  BY <1>2
<1>4. CodonSize * (k - 1) + CodonSize <= CodonSize * c.num
  <2>1. CodonSize * (k - 1) + CodonSize = CodonSize * k
    BY <1>2
  <2>2. CodonSize * k <= CodonSize * c.num
    BY <1>1, <1>2
  <2> QED
    BY <2>1, <2>2
<1>5. i > DnaAt(c) /\ i <= BodyAt(c) /\ i - DnaAt(c) - 1 = CodonSize * (k - 1)
  BY <1>1, <1>2, <1>3, <1>4
<1>6. ((i - DnaAt(c) - 1) \div CodonSize) + 1 = k
  <2>1. (CodonSize * (k - 1)) \div CodonSize = k - 1
    BY <1>2, DivTimes
  <2> QED
    BY <1>2, <1>5, <2>1
<1>7. ~(i <= DnaAt(c))
  BY <1>1, <1>3
<1>8. ByteOf(c, i) = c.dna[((i - DnaAt(c) - 1) \div CodonSize) + 1]
  BY <1>5, <1>7 DEF ByteOf
<1> QED
  BY <1>1, <1>3, <1>5, <1>6, <1>8

LEMMA BodyByte ==
  ASSUME NEW c \in Versions, NEW k \in 1..c.size
  PROVE  /\ BodyAt(c) + k \in 1..Size(c)
         /\ ByteOf(c, BodyAt(c) + k) = c.body[k]
<1>1. /\ BodyAt(c) \in Nat /\ DnaAt(c) \in Nat /\ DnaAt(c) <= BodyAt(c) /\ c.size \in Nat
      /\ Size(c) = BodyAt(c) + c.size
  BY Layout
<1>2. ~(BodyAt(c) + k <= DnaAt(c)) /\ ~(BodyAt(c) + k <= BodyAt(c))
      /\ BodyAt(c) + k - BodyAt(c) = k
  BY <1>1
<1> QED
  BY <1>1, <1>2 DEF ByteOf

\* What a reader finds of a file that was cut at k.
LEMMA Cut ==
  ASSUME NEW c \in Versions, NEW k \in 0..Size(c)
  PROVE  /\ SubSeq(Bytes(c), 1, k) = [i \in 1..k |-> ByteOf(c, i)]
         /\ Len(SubSeq(Bytes(c), 1, k)) = k
<1>1. Size(c) \in Nat /\ k \in Nat /\ k <= Size(c)
  BY Layout
<1>2. Len(Bytes(c)) = Size(c) /\ Bytes(c) = [i \in 1..Size(c) |-> ByteOf(c, i)]
  BY <1>1 DEF Bytes
<1>3. SubSeq(Bytes(c), 1, k) = [i \in 1..k |-> Bytes(c)[1 + i - 1]]
  BY <1>1
<1>4. \A i \in 1..k : Bytes(c)[1 + i - 1] = ByteOf(c, i)
  BY <1>1, <1>2
<1>5. SubSeq(Bytes(c), 1, k) = [i \in 1..k |-> ByteOf(c, i)]
  BY <1>3, <1>4
<1> QED
  BY <1>1, <1>5

-----------------------------------------------------------------------------

(***************************************************************************)
(* A load gives back what was saved, and nothing if a single byte is       *)
(* missing (cell.c:630-705): so a file whose writer was interrupted is     *)
(* told from a shorter cell, whatever the lengths.                         *)
(***************************************************************************)
THEOREM CutTheorem ==
  ASSUME NEW c \in Versions, NEW k \in 0..Size(c)
  PROVE  LoadOf(SubSeq(Bytes(c), 1, k)) = IF k = Size(c) THEN c ELSE Failed
<1> DEFINE s == SubSeq(Bytes(c), 1, k)
<1>1. s = [i \in 1..k |-> ByteOf(c, i)] /\ Len(s) = k
  BY Cut
<1>2. /\ c.num \in Nat /\ c.size \in Nat \ {0} /\ Size(c) \in Nat /\ k \in Nat
      /\ DnaAt(c) \in Nat \ {0} /\ BodyAt(c) \in Nat /\ DnaAt(c) <= BodyAt(c)
      /\ Size(c) = BodyAt(c) + c.size
  BY Layout
<1>3. DnaAt(c) = AttrSize
  BY DEF DnaAt
<1> DEFINE a == [attr |-> c.attr, num |-> c.num, size |-> c.size]
<1>4. k >= AttrSize => s[1] = a
  BY <1>1, <1>2, <1>3 DEF ByteOf
<1>5. Size(a) = Size(c) /\ BodyAt(a) = BodyAt(c) /\ DnaAt(a) = DnaAt(c) /\ a.size = c.size
  BY DEF Size, BodyAt, DnaAt
<1>6. CASE k # Size(c)
  <2>1. ~Enough(s)
    <3>1. CASE k < AttrSize
      BY <1>1, <3>1, <1>2, <1>3 DEF Enough
    <3>2. CASE k >= AttrSize
      <4>1. ~(Len(s) >= Size(s[1]))
        BY <1>1, <1>2, <1>4, <1>5, <1>6, <3>2
      <4> QED
        BY <4>1 DEF Enough
    <3> QED
      BY <1>2, <1>3, <3>1, <3>2
  <2> QED
    BY <1>6, <2>1 DEF LoadOf
<1>7. CASE k = Size(c)
  <2>1. k >= AttrSize
    BY <1>2, <1>3, <1>7
  <2>2. s[1] = a
    BY <1>4, <2>1
  <2>3. Enough(s)
    BY <1>1, <1>2, <1>5, <1>7, <2>1, <2>2 DEF Enough
  <2>4. \A j \in 1..c.num : s[DnaAt(a) + CodonSize * (j - 1) + 1] = c.dna[j]
    <3> SUFFICES ASSUME NEW j \in 1..c.num
                 PROVE  s[DnaAt(a) + CodonSize * (j - 1) + 1] = c.dna[j]
      OBVIOUS
    <3>1. DnaAt(c) + CodonSize * (j - 1) + 1 \in 1..k
      BY <1>2, <1>7, CodonByte
    <3> QED
      BY <1>1, <1>5, <3>1, CodonByte
  <2>5. \A j \in 1..c.size : BodyAt(a) + j \in DOMAIN s /\ s[BodyAt(a) + j] = c.body[j]
    BY <1>1, <1>5, <1>7, BodyByte
  <2>6. c.dna = [j \in 1..c.num |-> c.dna[j]] /\ c.body = [j \in 1..c.size |-> c.body[j]]
    <3>1. /\ c.dna \in Seq(Codon) /\ c.num = Len(c.dna)
          /\ c.body \in Seq(Code) /\ c.size = Len(c.body)
      BY DEF IsCell
    <3>2. \A T, x : x \in Seq(T) => x = [j \in 1..Len(x) |-> x[j]]
      OBVIOUS
    <3> QED
      BY <3>1, <3>2
  <2>7. c = [attr |-> c.attr, num |-> c.num, size |-> c.size, dna |-> c.dna, body |-> c.body]
    BY DEF IsCell
  <2> DEFINE dna == [j \in 1..a.num |-> s[DnaAt(a) + CodonSize * (j - 1) + 1]]
             body == [j \in 1..a.size |->
                        IF BodyAt(a) + j \in DOMAIN s THEN s[BodyAt(a) + j] ELSE Nothing]
  <2>8. dna = c.dna
    <3>1. dna = [j \in 1..c.num |-> c.dna[j]]
      BY <2>4
    <3> QED
      BY <2>6, <3>1
  <2>9. body = c.body
    <3>1. body = [j \in 1..c.size |-> c.body[j]]
      BY <2>5
    <3> QED
      BY <2>6, <3>1
  <2>10. LoadOf(s) = [attr |-> a.attr, num |-> a.num, size |-> a.size,
                      dna |-> dna, body |-> body]
    BY <2>2, <2>3 DEF LoadOf
  <2>11. LoadOf(s) = c
    <3> HIDE DEF dna, body
    <3>1. LoadOf(s) = [attr |-> c.attr, num |-> c.num, size |-> c.size,
                       dna |-> c.dna, body |-> c.body]
      BY <2>8, <2>9, <2>10
    <3> QED
      BY <2>7, <3>1
  <2> QED
    BY <1>7, <2>11
<1> QED
  BY <1>6, <1>7

-----------------------------------------------------------------------------

\* The inductive invariant.
IInv == TypeOK /\ LoadSound

LEMMA InitIInv == Init => IInv
<1> SUFFICES ASSUME Init PROVE IInv
  OBVIOUS
<1>1. PICK c \in Versions : file = [of |-> c, len |-> Size(c)] /\ disk = file
  BY DEF Init
<1>2. Size(c) \in Nat
  BY Layout
<1> QED
  <2>1. full \in BOOLEAN /\ done \in BOOLEAN
    BY DEF Init
  <2> QED
    BY <1>1, <1>2, <2>1 DEF Init, IInv, TypeOK, LoadSound, Prefix

\* A fwrite keeps the file within the cell it writes.
LEMMA WriteIInv ==
  ASSUME IInv, NEW p, NEW q \in {"dna", "body", "sync"}, NEW n \in 0..Size(file.of), Write(p, q, n)
  PROVE  IInv'
<1>1. PICK k \in file.len..n :
        /\ file' = [file EXCEPT !.len = k]
        /\ pc' = q \/ pc' = "failed"
  BY DEF Write
<1>2. file \in Prefix /\ Size(file.of) \in Nat
  BY Layout DEF IInv, TypeOK, Prefix
<1>3. k \in Nat /\ k <= Size(file.of)
  BY <1>1, <1>2 DEF Prefix
<1>4. file' = [of |-> file.of, len |-> k]
  BY <1>1, <1>2 DEF Prefix
<1>5. file' \in Prefix /\ file'.of = file.of /\ file'.len <= Size(file'.of)
  BY <1>2, <1>3, <1>4 DEF Prefix
<1>6. UNCHANGED <<disk, done, loaded>> /\ full' \in BOOLEAN /\ put' \in 0..Size(file'.of)
  BY <1>5 DEF Write, IInv, TypeOK
<1> QED
  BY <1>1, <1>5, <1>6 DEF IInv, TypeOK, LoadSound

LEMMA NextIInv == IInv /\ [Next]_vars => IInv'
<1> SUFFICES ASSUME IInv, [Next]_vars PROVE IInv'
  OBVIOUS
<1>0. file \in Prefix /\ file.of \in Versions /\ Size(file.of) \in Nat
      /\ DnaAt(file.of) \in 0..Size(file.of) /\ BodyAt(file.of) \in 0..Size(file.of)
  <2>1. file \in Prefix /\ file.of \in Versions
    BY DEF IInv, TypeOK, Prefix
  <2> QED
    BY <2>1, Layout
<1>1. CASE Open
  <2>1. PICK c \in Versions : file' = [of |-> c, len |-> 0]
    BY <1>1 DEF Open
  <2>2. Size(c) \in Nat
    BY Layout
  <2>3. file' \in Prefix /\ file'.of = c /\ file'.len = 0
    BY <2>1 DEF Prefix
  <2>4. file'.len <= Size(file'.of) /\ 0 \in 0..Size(file'.of)
    BY <2>2, <2>3
  <2> QED
    BY <1>1, <2>3, <2>4 DEF Open, IInv, TypeOK, LoadSound
<1>2. CASE WriteAttr
  BY <1>0, <1>2, WriteIInv DEF WriteAttr
<1>3. CASE WriteDna
  BY <1>0, <1>3, WriteIInv DEF WriteDna
<1>4. CASE WriteBody
  BY <1>0, <1>4, WriteIInv DEF WriteBody
<1>5. CASE Sync
  BY <1>5 DEF Sync, IInv, TypeOK, LoadSound
<1>6. CASE Close
  <2>1. PICK k \in file.len..put : file' = [file EXCEPT !.len = k]
    BY <1>6 DEF Close
  <2>2. put \in 0..Size(file.of) /\ k \in Nat /\ k <= Size(file.of)
    BY <1>0, <1>6, <2>1 DEF Close, IInv, TypeOK, Prefix
  <2>3. file' = [of |-> file.of, len |-> k]
    BY <1>0, <2>1 DEF Prefix
  <2>4. file' \in Prefix /\ file'.of = file.of /\ file'.len <= Size(file'.of)
    BY <1>0, <2>2, <2>3 DEF Prefix
  <2> QED
    BY <1>6, <2>4 DEF Close, IInv, TypeOK, LoadSound
<1>7. CASE Load
  <2>1. file.len \in 0..Size(file.of)
    BY <1>0 DEF IInv, TypeOK, Prefix
  <2>2. loaded' = file.of \/ loaded' = Failed
    BY <1>0, <1>7, <2>1, CutTheorem DEF Load, Content
  <2>3. pc' \in {"off", "failed"} /\ UNCHANGED <<file, disk, put, full, done>>
    BY <1>7 DEF Load
  <2> QED
    BY <1>0, <2>2, <2>3 DEF IInv, TypeOK, LoadSound
<1>8. CASE WriteBack
  BY <1>8 DEF WriteBack, IInv, TypeOK, LoadSound
<1>9. CASE Kill
  BY <1>9 DEF Kill, IInv, TypeOK, LoadSound
<1>10. CASE PowerFails
  BY <1>10 DEF PowerFails, IInv, TypeOK, LoadSound
<1>11. CASE Restart
  BY <1>11 DEF Restart, IInv, TypeOK, LoadSound
<1>12. CASE UNCHANGED vars
  BY <1>12 DEF vars, IInv, TypeOK, LoadSound
<1> QED
  BY <1>1, <1>2, <1>3, <1>4, <1>5, <1>6, <1>7, <1>8, <1>9, <1>10, <1>11, <1>12 DEF Next

(***************************************************************************)
(* What a load accepts is the cell last saved there, to the last byte,     *)
(* after any number of kills, power failures and full disks.               *)
(***************************************************************************)
THEOREM LoadTheorem == Spec => []LoadSound
<1>1. IInv => LoadSound
  BY DEF IInv
<1> QED
  BY <1>1, InitIInv, NextIInv, PTL DEF Spec

-----------------------------------------------------------------------------
(* A save that returned *)

\* A disk that is not full takes what the buffer holds: nothing is missing once
\* fwrite has taken all of the cell.
Pending ==
  /\ pc \in {"sync", "close"} => put = Size(file.of)
  /\ done => pc \in {"off", "failed"}

(***************************************************************************)
(* Unless the disk is full, a save that returned left the whole cell in    *)
(* the file, however the buffer was emptied on the way.                    *)
(***************************************************************************)
THEOREM SavedTheorem == Spec => []SavedWhole
<1> DEFINE Inv == Pending /\ SavedWhole
<1>0. Init => IInv /\ Inv
  BY InitIInv DEF Init, Pending, SavedWhole
<1>1. IInv /\ Inv /\ [Next]_vars => Inv'
  <2> SUFFICES ASSUME IInv, Inv, [Next]_vars PROVE Inv'
    OBVIOUS
  <2> USE DEF Pending, SavedWhole
  <2>1. CASE Open
    BY <2>1 DEF Open
  <2>2. CASE WriteAttr \/ WriteDna
    BY <2>2 DEF WriteAttr, WriteDna, Write
  <2>3. CASE WriteBody
    <3>1. PICK k \in file.len..Size(file.of) : file' = [file EXCEPT !.len = k]
      BY <2>3 DEF WriteBody, Write
    <3>2. file'.of = file.of
      BY <3>1 DEF IInv, TypeOK, Prefix
    <3> QED
      BY <2>3, <3>2 DEF WriteBody, Write
  <2>4. CASE Close
    <3>1. PICK k \in file.len..put : file' = [file EXCEPT !.len = k] /\ full' = (k < put)
      BY <2>4 DEF Close
    <3>2. put = Size(file.of) /\ put \in Nat /\ file.len \in Nat
      BY <2>4, Layout DEF Close, IInv, TypeOK, Prefix
    <3>3. ~full' => k = put
      <4>1. ~full' => ~(k < put)
        BY <3>1
      <4> QED
        BY <4>1, <3>1, <3>2
    <3>4. file'.of = file.of /\ file'.len = k
      BY <3>1 DEF IInv, TypeOK, Prefix
    <3> QED
      BY <2>4, <3>2, <3>3, <3>4 DEF Close
  <2>5. CASE Sync \/ Load \/ WriteBack \/ Kill \/ PowerFails \/ Restart
    BY <2>5 DEF Sync, Load, WriteBack, Kill, PowerFails, Restart
  <2>6. CASE UNCHANGED vars
    BY <2>6 DEF vars
  <2> QED
    BY <2>1, <2>2, <2>3, <2>4, <2>5, <2>6 DEF Next
<1>2. Inv => SavedWhole
  OBVIOUS
<1> HIDE DEF Inv
<1> QED
  BY <1>0, <1>1, <1>2, NextIInv, PTL DEF Spec
=============================================================================
