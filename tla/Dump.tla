-------------------------------- MODULE Dump --------------------------------
(***************************************************************************)
(* The two writers of text that the process runs on every division and     *)
(* death: the instructions of a DNA into a buffer measured for them        *)
(* (codn_list_make_str), and the whole cell as JSON into a buffer of fixed *)
(* length (cell_make_json).  Neither looks at the end of its buffer.       *)
(***************************************************************************)
EXTENDS Seqs

CONSTANTS
  MaxLen,     \* the bytes of an instruction, at most MAX_COMPOUND_ELEMENTS = 8
  Lists,      \* the instruction lengths of the DNAs that are written as text
  MaxCodons   \* the codons of the cells that are written as JSON, at most

ASSUME DumpAssumption ==
  /\ MaxLen \in 1..8 /\ MaxCodons \in Nat
  /\ \A l \in Lists : l \in Seq(1..MaxLen)

VARIABLES
  phase,
  lens,      \* the lengths of the instructions
  ci, bi,    \* the loops over codons and bytes
  buf,       \* the characters written, by their place in the buffer
  buf_p,     \* where the next one goes
  dumped     \* the cell written as JSON

dumpVars == <<phase, lens, ci, bi, buf, buf_p, dumped>>

-----------------------------------------------------------------------------
(* The instructions of a DNA: "48 89,c3" *)

\* Characters are numbers; the digits of a byte are told apart.
NUL == 0
Space == 1
Comma == 2
Digit(k, b, half) == 10 + 2 * (8 * k + b) + half

\* Where each instruction would begin.
Offsets(l) ==
  LET at[k \in 0..Len(l)] == IF k = 0 THEN 0 ELSE at[k - 1] + 3 * l[k] + 1
  IN  at

\* _malloc_codn_list_str_buf
BufSize(l) == Offsets(l)[Len(l)]

\* A write of several characters, over what was there.
Put(at, s) ==
  [k \in DOMAIN buf \cup at..(at + Len(s) - 1) |->
     IF k \in at..(at + Len(s) - 1) THEN s[k - at + 1] ELSE buf[k]]

InitText ==
  /\ lens \in Lists
  /\ phase = IF lens = <<>> THEN "done" ELSE "byte"
  /\ ci = 1 /\ bi = 0 /\ buf = <<>> /\ buf_p = 0
  /\ dumped = [num |-> 0, size |-> 0, len |-> 0, verbose |-> FALSE, wide |-> FALSE]

\* Mutant: the NUL that sprintf leaves behind a byte stays there.
ByteNul ==
  /\ phase = "byte" /\ bi < lens[ci]
  /\ buf' = Put(buf_p + 3 * bi, <<Digit(ci, bi, 0), Digit(ci, bi, 1), NUL>>)
  /\ bi' = bi + 1
  /\ UNCHANGED <<phase, lens, ci, buf_p, dumped>>

\* codn_make_str: sprintf ends each byte with a NUL, a blank takes its place
\* when another byte follows.
Byte ==
  /\ phase = "byte" /\ bi < lens[ci]
  /\ buf' = Put(buf_p + 3 * bi,
                <<Digit(ci, bi, 0), Digit(ci, bi, 1), IF bi < lens[ci] - 1 THEN Space ELSE NUL>>)
  /\ bi' = bi + 1
  /\ UNCHANGED <<phase, lens, ci, buf_p, dumped>>

\* The next instruction begins on the NUL of this one.
NextCodon ==
  /\ phase = "byte" /\ bi = lens[ci]
  /\ LET p == buf_p + lens[ci] * 3 - 1 IN
     IF ci < Len(lens)
     THEN /\ buf' = Put(p, <<Comma, Space>>) /\ buf_p' = p + 2
          /\ ci' = ci + 1 /\ bi' = 0 /\ UNCHANGED phase
     ELSE phase' = "done" /\ buf_p' = p /\ UNCHANGED <<buf, ci, bi>>
  /\ UNCHANGED <<lens, dumped>>

-----------------------------------------------------------------------------
(* The cell as JSON, by the number of characters *)

\* Mutant: a digit of the size is missing.
StrBufSizeShort == 4096

\* CELL_STR_BUF_SIZE and JSON_BUF_SIZE
StrBufSize == 40960

\* The characters of a value: as few or as many as its type allows.
Width(few, many) == IF dumped.wide THEN many ELSE few
Bool == Width(4, 5)
Unsigned == Width(1, 11)        \* %d of an unsigned int
LongLong == Width(1, 20)
Char == Width(1, 3)

AttrText == 227 + 3 * Unsigned + 3 * Char + Bool + 4 * LongLong + LongLong
CodonText == 193 + 1 + 5 * Bool + Char
VerboseText == 21 + 16 + 17 + 17 + Width(1, 2) + Char + Unsigned + LongLong
ByteText == 1 + Char + 1

\* The protein of a cell is one instruction away from its DNA at most; one
\* length stands for all its instructions.
InitJson ==
  /\ phase = "attr"
  /\ \E n \in 0..MaxCodons, l \in {1, MaxLen}, verbose, wide \in BOOLEAN :
       \E k \in 1..(n + 1) :
         /\ k >= n - 1
         /\ dumped = [num |-> n, size |-> k * l, len |-> l, verbose |-> verbose, wide |-> wide]
  /\ lens = <<>> /\ ci = 1 /\ bi = 0 /\ buf = <<>> /\ buf_p = 0

Write(n, next) ==
  /\ buf_p' = buf_p + n /\ phase' = next
  /\ UNCHANGED <<lens, buf, dumped>>

JsonAttr ==
  /\ phase = "attr"
  /\ Write(AttrText + 15 + 2, "codons")
  /\ UNCHANGED <<ci, bi>>

JsonCodon ==
  /\ phase = "codons" /\ ci <= dumped.num
  /\ Write(CodonText + (IF dumped.verbose THEN VerboseText + 8 * ByteText ELSE dumped.len * ByteText)
             + 2 + (IF ci < dumped.num THEN 7 ELSE 6),
           "codons")
  /\ ci' = ci + 1 /\ UNCHANGED bi

JsonFunc ==
  /\ phase = "codons" /\ ci > dumped.num
  /\ Write(5 + 10 + 2 + 3, "func")
  /\ UNCHANGED <<ci, bi>>

JsonByte ==
  /\ phase = "func" /\ bi < dumped.size
  /\ Write(ByteText - (IF bi + 1 < dumped.size THEN 0 ELSE 1), "func")
  /\ bi' = bi + 1 /\ UNCHANGED ci

JsonEnd ==
  /\ phase = "func" /\ bi = dumped.size
  /\ Write(1 + 4 + 2, "end")
  /\ UNCHANGED <<ci, bi>>

-----------------------------------------------------------------------------

\* One call of either writer.
DumpInit == InitText \/ InitJson
Text == Byte \/ NextCodon
Json == JsonAttr \/ JsonCodon \/ JsonFunc \/ JsonByte \/ JsonEnd
DumpNext == Text \/ Json

DumpSpec == DumpInit /\ [][DumpNext]_dumpVars

\* A C string: up to the first NUL, if there is one.
IsString(s) == /\ 0..Len(s) = DOMAIN buf /\ buf[Len(s)] = NUL
               /\ \A k \in 1..Len(s) : buf[k - 1] = s[k] /\ s[k] # NUL

\* "xx xx, xx": bytes by blanks, instructions by a comma and a blank.
Bytes(k, n) ==
  [b \in 1..n |-> <<Digit(k, b - 1, 0), Digit(k, b - 1, 1)>> \o (IF b < n THEN <<Space>> ELSE <<>>)]

Instructed(l) ==
  [k \in DOMAIN l |->
     SeqX!FlattenSeq(Bytes(k, l[k])) \o (IF k < Len(l) THEN <<Comma, Space>> ELSE <<>>)]

Joined(l) == SeqX!FlattenSeq(Instructed(l))

\* No character of the text in the log is written behind the buffer that was
\* measured for the DNA (cell.c:163-165), and the text has every byte of every
\* instruction, in order: no NUL that sprintf wrote cuts it short (cell.c:834-851).
\* For an empty DNA nothing is written, not even the NUL.
WholeText ==
  /\ DOMAIN buf \subseteq 0..(BufSize(lens) - 1)
  /\ phase = "done" /\ lens # <<>> => IsString(Joined(lens))

\* The JSON of a cell of up to MaxCodons codons is written within the buffer
\* with its NUL, whatever its values (cell.c:563, 794, dsy-dump-cell.c:49).
Fits == phase \in {"attr", "codons", "func", "end"} => buf_p < StrBufSize
============================================================================
