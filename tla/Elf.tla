-------------------------------- MODULE Elf --------------------------------
(***************************************************************************)
(* The executable an evaluator makes of a cell (dsy-cell2elf.c), and the   *)
(* one a reader of the exercises makes by hand (create-elf-header.c).      *)
(*                                                                         *)
(* A file is two headers, for dsy-cell2elf the list of characters that a   *)
(* cell may print, and the machine code; all of it is one segment.  Only   *)
(* the header fields with which the kernel places and starts the program   *)
(* are kept.  Nothing here has state: Evaluation builds and runs files.    *)
(***************************************************************************)
EXTENDS Integers, Sequences

EhdrSize == 64       \* sizeof(Elf64_Ehdr)
PhdrSize == 56       \* sizeof(Elf64_Phdr)
Headers == EhdrSize + PhdrSize

LoadVaddr == 4194304

PageSize == 4096     \* of the machine that runs the file

\* load_data_char_list: a newline, then every character from ' ' to '~'.
Chars == [k \in 1..96 |-> IF k = 1 THEN 10 ELSE k + 30]

\* Mutant: the entry point does not count the list.
Cell2ElfEntry(code) ==
  [entry  |-> LoadVaddr + Headers,
   filesz |-> Headers + Len(Chars) + Len(code),
   data   |-> Chars \o code]

Cell2Elf(code) ==
  [entry  |-> LoadVaddr + Headers + Len(Chars),
   filesz |-> Headers + Len(Chars) + Len(code),
   data   |-> Chars \o code]

\* create-elf-header writes the headers for CODE_SIZE bytes, cat adds the code.
HandMade(code, size) ==
  [entry  |-> LoadVaddr + Headers,
   filesz |-> Headers + size,
   data   |-> code]

(***************************************************************************)
(* The kernel maps the segment, the whole of its pages, at LoadVaddr; past *)
(* the end of the file they read as zeros.  No page is writable.           *)
(***************************************************************************)
Readable(elf, a) ==
  /\ a >= LoadVaddr
  /\ a < LoadVaddr + ((elf.filesz + PageSize - 1) \div PageSize) * PageSize

\* The byte at address a after the headers.
ByteAt(elf, a) ==
  LET i == a - LoadVaddr - Headers + 1 IN
  IF i \in DOMAIN elf.data THEN elf.data[i] ELSE 0

\* SKIP_BYTES_TO_CODE of bin/dsy-elf2asm.
SkipBytesToCode == 216

\* What bin/dsy-elf2asm disassembles: the file from that byte on.
AsmBytes(elf) == SubSeq(elf.data, SkipBytesToCode - Headers + 1, Len(elf.data))
============================================================================
