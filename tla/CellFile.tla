------------------------------ MODULE CellFile ------------------------------
(***************************************************************************)
(* The bytes of a cell file (docs/file-format.md) and how they get there:  *)
(* attributes, then the codons, then the protein, each by one fwrite into  *)
(* a stdio buffer that reaches the file in parts, fsync before the rest is *)
(* written by fclose.  The process may be killed at any moment, the disk   *)
(* may be full, the power may fail.  A load reads the three parts by the   *)
(* sizes it finds in the attributes.                                       *)
(***************************************************************************)
EXTENDS Integers, Sequences

CONSTANTS
  Attr,       \* what the attributes hold besides num_codns and func_size
  Codon,      \* what a codon can be
  Code,       \* what a byte of the protein can be
  AttrSize,   \* the bytes of struct cell_attributes without the file name: 56
  CodonSize,  \* the bytes of struct codon: 16
  BufSize,    \* the bytes stdio may hold back
  Versions,   \* the cells that are saved
  Failed,     \* a load that ends in a failed assertion
  Nothing,    \* nothing was loaded
  MayKill     \* the process may be killed and the power may fail

\* A struct cell with its two lists; num and size are num_codns and func_size.
IsCell(c) ==
  /\ c = [attr |-> c.attr, num |-> c.num, size |-> c.size, dna |-> c.dna, body |-> c.body]
  /\ c.attr \in Attr
  /\ c.dna \in Seq(Codon) /\ c.num = Len(c.dna)
  /\ c.body \in Seq(Code) /\ c.size = Len(c.body) /\ c.size > 0

ASSUME CellFileAssumption ==
  /\ {AttrSize, CodonSize} \subseteq Nat \ {0} /\ BufSize \in Nat
  /\ \A c \in Versions : IsCell(c)
  /\ Failed \notin Versions /\ Nothing \notin Versions /\ Failed # Nothing
  /\ MayKill \in BOOLEAN

-----------------------------------------------------------------------------
(* What a save writes and what a load makes of it *)

\* Where the codons and the protein begin, by the sizes in the attributes.
DnaAt(c) == AttrSize
BodyAt(c) == AttrSize + CodonSize * c.num
Size(c) == AttrSize + CodonSize * c.num + c.size

\* The part of the cell that byte i belongs to.
ByteOf(c, i) ==
  IF i <= DnaAt(c) THEN [attr |-> c.attr, num |-> c.num, size |-> c.size]
  ELSE IF i <= BodyAt(c) THEN c.dna[((i - DnaAt(c) - 1) \div CodonSize) + 1]
  ELSE c.body[i - BodyAt(c)]

Bytes(c) == [i \in 1..Size(c) |-> ByteOf(c, i)]

\* Mutant: the last assertion, on the bytes of the protein, is missing.
EnoughDna(s) == Len(s) >= AttrSize /\ Len(s) >= BodyAt(s[1])

\* The assertions on read_bytes, and mmap, which refuses a size of zero.
Enough(s) == Len(s) >= AttrSize /\ Len(s) >= Size(s[1]) /\ s[1].size > 0

LoadOf(s) ==
  IF Enough(s)
  THEN LET a == s[1] IN
       [attr |-> a.attr, num |-> a.num, size |-> a.size,
        dna |-> [k \in 1..a.num |-> s[DnaAt(a) + CodonSize * (k - 1) + 1]],
        body |-> [k \in 1..a.size |->
                    IF BodyAt(a) + k \in DOMAIN s THEN s[BodyAt(a) + k] ELSE Nothing]]
  ELSE Failed

-----------------------------------------------------------------------------

VARIABLES
  file,    \* what a reader sees: the first len bytes of the cell of
  disk,    \* what is left of it after a power failure
  pc, put, \* the next call of the save and how many bytes fwrite has taken
  full,    \* the disk was full in the save of what the file holds
  done,    \* the save of what the file holds has returned
  loaded   \* the cell the last load returned, or Failed

vars == <<file, disk, pc, put, full, done, loaded>>

Content(f) == SubSeq(Bytes(f.of), 1, f.len)

Init ==
  /\ \E c \in Versions : file = [of |-> c, len |-> Size(c)]
  /\ disk = file
  /\ pc = "off" /\ put = 0
  /\ full = FALSE /\ done = TRUE /\ loaded = Nothing

\* fopen("w+b")
Open ==
  /\ pc = "off"
  /\ \E c \in Versions : file' = [of |-> c, len |-> 0]
  /\ pc' = "attr" /\ put' = 0
  /\ full' = FALSE /\ done' = FALSE /\ loaded' = Nothing
  /\ UNCHANGED disk

\* fwrite takes the bytes up to n; the buffer keeps at most BufSize of them.
\* A write that fails ends the process.
Write(p, q, n) ==
  /\ pc = p
  /\ \E k \in file.len..n :
       /\ file' = [file EXCEPT !.len = k]
       /\ \/ n - k <= BufSize /\ pc' = q /\ UNCHANGED full
          \/ k < n /\ pc' = "failed" /\ full' = TRUE
  /\ put' = n
  /\ UNCHANGED <<disk, done, loaded>>

WriteAttr == Write("attr", "dna", DnaAt(file.of))
WriteDna == Write("dna", "body", BodyAt(file.of))
WriteBody == Write("body", "sync", Size(file.of))

Sync ==
  /\ pc = "sync"
  /\ disk' = file
  /\ pc' = "close"
  /\ UNCHANGED <<file, put, full, done, loaded>>

\* Mutant: the file is not closed.
CloseNot ==
  /\ pc = "close"
  /\ pc' = "off" /\ done' = TRUE
  /\ UNCHANGED <<file, put, full, disk, loaded>>

\* fclose writes what the buffer still holds; its result is not looked at.
Close ==
  /\ pc = "close"
  /\ \E k \in file.len..put :
       /\ file' = [file EXCEPT !.len = k]
       /\ full' = (k < put)
  /\ pc' = "off" /\ done' = TRUE
  /\ UNCHANGED <<put, disk, loaded>>

Load ==
  /\ pc = "off"
  /\ loaded' = LoadOf(Content(file))
  /\ pc' = IF loaded' = Failed THEN "failed" ELSE "off"
  /\ UNCHANGED <<file, disk, put, full, done>>

-----------------------------------------------------------------------------
(* The operating system and the user *)

\* The kernel writes the file to the disk when it likes.
WriteBack ==
  /\ disk # file /\ disk' = file
  /\ UNCHANGED <<file, pc, put, full, done, loaded>>

Kill ==
  /\ MayKill /\ pc # "failed"
  /\ pc' = "failed"
  /\ UNCHANGED <<file, disk, put, full, done, loaded>>

PowerFails ==
  /\ MayKill
  /\ file' = disk
  /\ pc' = "failed" /\ done' = FALSE /\ loaded' = Nothing
  /\ UNCHANGED <<disk, put, full>>

Restart ==
  /\ pc = "failed"
  /\ pc' = "off"
  /\ UNCHANGED <<file, disk, put, full, done, loaded>>

Next ==
  \/ Open \/ WriteAttr \/ WriteDna \/ WriteBody \/ Sync \/ Close \/ Load
  \/ WriteBack \/ Kill \/ PowerFails \/ Restart

Spec == Init /\ [][Next]_vars

-----------------------------------------------------------------------------

Prefix == [of : Versions, len : Nat]

TypeOK ==
  /\ file \in Prefix /\ disk \in Prefix
  /\ file.len <= Size(file.of) /\ disk.len <= Size(disk.of)
  /\ pc \in {"off", "failed", "attr", "dna", "body", "sync", "close"}
  /\ put \in 0..Size(file.of) \/ pc \in {"off", "failed"}
  /\ full \in BOOLEAN /\ done \in BOOLEAN
  /\ loaded \in Versions \cup {Failed, Nothing}

(***************************************************************************)
(* What cell_load_from_file accepts is the cell that was last saved there, *)
(* to the last byte, after kills, power failures and full disks: a file    *)
(* that a crash cut short never passes for a shorter cell.  So to try      *)
(* dsy-dump-cell on it, as docs/tips.md advises, is a sound check.         *)
(***************************************************************************)
LoadSound == loaded \notin {Failed, Nothing} => loaded = file.of

(***************************************************************************)
(* A save that returned left a whole file, whenever the buffer was         *)
(* emptied, unless the disk was full.  That condition is needed:           *)
(* cell.c:693 asserts that all was written, but only into the buffer of    *)
(* stdio, and the result of the fclose that writes it is not looked at.    *)
(***************************************************************************)
SavedWhole == done /\ ~full => file.len = Size(file.of)
============================================================================
