------------------------------ MODULE Samples ------------------------------
(***************************************************************************)
(* The machine instructions that samples/ puts into code/ and the cells it *)
(* puts into cell/.  An instruction is a name and its bytes, a cell is the *)
(* DNA of its codons with the mutations each of them forbids.  A system    *)
(* call and the instruction that sets its number can be one codon (write,  *)
(* exit) or be left to mutation (mov_1_rax, mov_60_rax, syscall).          *)
(***************************************************************************)
EXTENDS Dna, FiniteSets

\* add $n,%rsi: create-add_1_rsi-add_95_rsi-codes.c makes one for each n.
AddName == [n \in {33, 34, 41, 70, 77, 80} |->
              CASE n = 33 -> "add_33_rsi" [] n = 34 -> "add_34_rsi"
                [] n = 41 -> "add_41_rsi" [] n = 70 -> "add_70_rsi"
                [] n = 77 -> "add_77_rsi" [] n = 80 -> "add_80_rsi"]

Amount(x) == CHOOSE n \in DOMAIN AddName : AddName[n] = x

Adds == {AddName[n] : n \in DOMAIN AddName}

Instructions ==
  {"mov_1_rdi", "mov_buf_rsi", "sub_1_rsi", "mov_1_rdx", "mov_1_rax", "mov_60_rax",
   "syscall", "write", "exit", "xor_rdi_rdi", "ret"} \cup Adds

\* The bytes of an instruction.
Machine(x) ==
  CASE x = "mov_1_rdi"   -> <<72, 199, 199, 1, 0, 0, 0>>
    [] x = "mov_buf_rsi" -> <<72, 199, 198, 120, 0, 64, 0>>
    [] x \in Adds        -> <<72, 131, 198, Amount(x)>>
    [] x = "sub_1_rsi"   -> <<72, 131, 238, 1>>
    [] x = "mov_1_rdx"   -> <<72, 199, 194, 1, 0, 0, 0>>
    [] x = "mov_1_rax"   -> <<72, 199, 192, 1, 0, 0, 0>>
    [] x = "mov_60_rax"  -> <<72, 199, 192, 60, 0, 0, 0>>
    [] x = "syscall"     -> <<15, 5>>
    [] x = "write"       -> <<72, 49, 192, 176, 1, 15, 5>>
    [] x = "exit"        -> <<72, 49, 192, 176, 60, 15, 5>>
    [] x = "xor_rdi_rdi" -> <<72, 49, 255>>
    [] x = "ret"         -> <<195>>

Codn(x, dis) == [code |-> x, buffered |-> FALSE, dis |-> dis]

\* START_ASCII_SPACE, the address that mov_buf_rsi loads.
AsciiSpace == 4194424

\* Mutant: the exit call may be taken out of the tail.
LastCallLoose == Codn("exit", {"insp", "insn", "mod"})

\* The last call of a protected cell: nothing may touch it.
LastCall == Codn("exit", Flag)

Ret == Codn("ret", Flag)

\* Before the first codon of the protected end new ones may be inserted.
EndFirst(x) == Codn(x, {"insn", "mod", "rem"})

InitDna == <<EndFirst("ret")>>

ExitDna == <<EndFirst("xor_rdi_rdi"), LastCall, Ret>>

Exit1Dna == <<EndFirst("mov_1_rdi"), LastCall, Ret>>

\* The codons that print the character n places after the newline.
WriteCodons(n) ==
  <<Codn("mov_1_rdi", {}), Codn("mov_buf_rsi", {}), Codn(AddName[n], {}),
    Codn("mov_1_rdx", {}), Codn("write", {})>>

PutaDna == WriteCodons(34) \o ExitDna

\* The same with the number of the call in a codon of its own.
WriteHello(n) ==
  <<Codn("mov_1_rdi", {}), Codn("mov_buf_rsi", {}), Codn(AddName[n], {}),
    Codn("mov_1_rdx", {}), Codn("mov_1_rax", {}), Codn("syscall", {})>>

HelloDna ==
  [WriteHello(41) EXCEPT ![1].dis = {"insp"}]
    \o WriteHello(70) \o WriteHello(77) \o WriteHello(77) \o WriteHello(80)
    \o <<Codn("xor_rdi_rdi", {}), Codn("mov_60_rax", {}), Codn("syscall", {}),
         Codn("ret", {})>>

\* The compounds made for a cell: those of the instructions of its codons.
CodesOf(dna) == {dna[i].code : i \in DOMAIN dna}
============================================================================
