----------------------------- MODULE Evaluation -----------------------------
(***************************************************************************)
(* What evolution does to the program of a cell and what the evaluators of *)
(* samples/ make of it.  The module follows one line of descent from a     *)
(* sample cell: in each generation the evaluator turns the protein into an *)
(* executable, runs it, and rates it; then the cell divides and its child  *)
(* takes its place.  That the parent first finds its compounds is left     *)
(* out, the others of the colony are: their lines are other behaviours.    *)
(***************************************************************************)
EXTENDS Samples, Elf

CONSTANTS
  Founders,    \* the DNAs of the first cells
  Evaluators,  \* the names of the evaluators asked: dsy-eval-...
  MaxDna,      \* bound on the codons of a DNA
  MaxMutants(_)  \* bound on the mutations in a line, by the codons of the DNA

\* The evaluators of samples/ that run the program of the cell.
Known == {"puta", "puta_0", "putchar", "putchar-2", "putchar-3", "puthi", "puthi-2",
          "exit", "exit_0", "exit_1", "init", "hello"}

\* Environment and founders are made of the instructions of samples/.
ASSUME EvaluationAssumption ==
  /\ Code \subseteq Instructions
  /\ Founders \subseteq Seq(Codon) \ {<<>>}
  /\ Evaluators \subseteq Known
  /\ MaxDna \in Nat
  /\ \A n \in 0..MaxDna : MaxMutants(n) \in Nat

VARIABLES
  cell,     \* the living cell of the line
  mutants,  \* mutations so far, for the bound
  elf,      \* .test.elf
  result,   \* what running it showed: exit status, output, system calls
  fitness,  \* the exit status of each evaluator
  pc

vars == <<cell, mutants, elf, result, fitness, pc>>

None == [entry |-> 0, filesz |-> 0, data |-> <<>>]
Unrun == [status |-> 0, out |-> <<>>, calls |-> {}]
Unrated == [e \in {} |-> 0]

FirstLife == 100   \* life_duration of every sample

Born(dna) == [dna |-> dna, body |-> Protein(dna), life |-> FirstLife, left |-> FirstLife]

Init ==
  /\ cell \in {Born(d) : d \in Founders}
  /\ mutants = 0
  /\ elf = None
  /\ result = Unrun
  /\ fitness = Unrated
  /\ pc = "adult"

\* cell->func: the bytes of one instruction after those of the other.
Function(body) == SeqX!FlattenSeq([k \in DOMAIN body |-> Machine(body[k])])

(***************************************************************************)
(* The processor and the kernel.  A program starts with its registers zero *)
(* and an empty stack frame: ret jumps to address 1, the bytes after the   *)
(* code store through rax, both end with a segmentation fault.  Address    *)
(* or descriptor errors of write return to the program, which then has an  *)
(* unknown number in rax, as after every call.                             *)
(***************************************************************************)
Running == -1
Crashed == 139       \* 128 + SIGSEGV, as the shell reports it
Unknown == -1

Started == [rax |-> 0, rdi |-> 0, rsi |-> 0, rdx |-> 0,
            out |-> <<>>, calls |-> {}, status |-> Running]

Printed(m, elf1) ==
  IF m.rdi = 1 /\ m.rdx = 1 /\ Readable(elf1, m.rsi)
  THEN <<ByteAt(elf1, m.rsi)>>
  ELSE <<>>

Call(m, nr, elf1) ==
  CASE nr = 60 -> [m EXCEPT !.status = m.rdi, !.calls = @ \cup {nr}]
    [] nr = 1  -> [m EXCEPT !.out = @ \o Printed(m, elf1), !.rax = Unknown,
                            !.calls = @ \cup {nr}]
    [] OTHER   -> [m EXCEPT !.rax = Unknown, !.calls = @ \cup {nr}]

Instruction(m, x, elf1) ==
  CASE x = "mov_1_rdi"    -> [m EXCEPT !.rdi = 1]
    [] x = "xor_rdi_rdi"  -> [m EXCEPT !.rdi = 0]
    [] x = "mov_buf_rsi"  -> [m EXCEPT !.rsi = AsciiSpace]
    [] x \in Adds         -> [m EXCEPT !.rsi = @ + Amount(x)]
    [] x = "sub_1_rsi"    -> [m EXCEPT !.rsi = @ - 1]
    [] x = "mov_1_rdx"    -> [m EXCEPT !.rdx = 1]
    [] x = "mov_1_rax"    -> [m EXCEPT !.rax = 1]
    [] x = "mov_60_rax"   -> [m EXCEPT !.rax = 60]
    [] x = "write"        -> Call(m, 1, elf1)
    [] x = "exit"         -> Call(m, 60, elf1)
    [] x = "syscall"      -> Call(m, m.rax, elf1)
    [] x = "ret"          -> [m EXCEPT !.status = Crashed]

Step(m, x, elf1) == IF m.status = Running THEN Instruction(m, x, elf1) ELSE m

\* The machine after all codes of the body, which run in their order.
Last(elf1, body) ==
  LET run[k \in 0..Len(body)] ==
        IF k = 0 THEN Started ELSE Step(run[k - 1], body[k], elf1)
  IN  run[Len(body)]

\* They do when the program starts at the first of them.
Starts(elf1, body) == body # <<>> /\ ByteAt(elf1, elf1.entry) = Head(Function(body))

Outcome(elf1, body) ==
  LET last == Last(elf1, body) IN
  IF ~Starts(elf1, body) THEN [Started EXCEPT !.status = Crashed]
  ELSE IF last.status = Running THEN [last EXCEPT !.status = Crashed]
  ELSE last

Execute(elf1, body) ==
  LET o == Outcome(elf1, body) IN [status |-> o.status, out |-> o.out, calls |-> o.calls]

(***************************************************************************)
(* The listing of dsy-elf2asm, a line for each instruction, and the guard  *)
(* of dsy-eval-init and dsy-eval-hello: the line before every syscall must *)
(* set rax.                                                                *)
(***************************************************************************)
Lines(x) ==
  CASE x \in {"write", "exit"}           -> <<"other", "other", "syscall">>
    [] x \in {"mov_1_rax", "mov_60_rax"} -> <<"mov_rax">>
    [] x = "syscall"                     -> <<"syscall">>
    [] OTHER                             -> <<"other">>

Listing(body) == SeqX!FlattenSeq([k \in DOMAIN body |-> Lines(body[k])])

\* Mutant: only the first syscall of the listing is looked at.
GuardFirst(asm) ==
  \A i \in DOMAIN asm :
     (asm[i] = "syscall" /\ \A j \in 1..i-1 : asm[j] # "syscall")
        => i > 1 /\ asm[i - 1] = "mov_rax"

Guard(asm) ==
  \A i \in DOMAIN asm : asm[i] = "syscall" => i > 1 /\ asm[i - 1] = "mov_rax"

(***************************************************************************)
(* The evaluators: the exit status of each, given the result r of running  *)
(* the program, the n codons of the DNA or the listing of the protein.     *)
(***************************************************************************)
Least(a, b) == IF a <= b THEN a ELSE b

Wrong == 200   \* 何かがおかしい: more than dsy-sysenv accepts

Has(out, chars) == \E i \in 0..Len(out) - Len(chars) : SubSeq(out, i + 1, i + Len(chars)) = chars

Ascii(out) == \A i \in DOMAIN out : out[i] = 10 \/ out[i] \in 32..126

CodonsWorth(n, most) == Least(6 * n + 32, most)

RatePuta(r, n) ==
  IF r.status # 0 THEN 0
  ELSE IF n = 0 THEN Wrong
  ELSE IF Has(r.out, <<65>>) THEN 100
  ELSE CodonsWorth(n, 90) + (IF r.out # <<>> THEN 9 ELSE 0)

RatePuta0(r) == IF Has(r.out, <<65>>) THEN 100 ELSE 50

RatePutchar(r, n) ==
  IF r.status # 0 THEN 0
  ELSE IF n = 0 THEN Wrong
  ELSE IF r.out = <<>> THEN CodonsWorth(n, 60)
  ELSE Least(80 + Len(r.out), 100)

RatePutchar2(r, n) ==
  IF r.status # 0 THEN 0
  ELSE IF n = 0 THEN Wrong
  ELSE IF r.out = <<>> THEN CodonsWorth(n, 50)
  ELSE Least(60 + 10 * Len(r.out), 100)

RatePutchar3(r, n) ==
  IF r.status = 0 /\ ~Ascii(r.out) THEN 0 ELSE RatePutchar2(r, n)

\* Mutant: the points for the characters have the cap of dsy-eval-putchar-2.
PuthiBaseHigh(r, n, each) ==
  IF r.out = <<>> THEN Least(n, 30) ELSE Least(60 + each * Len(r.out), 100)

PuthiBase(r, n, each) ==
  IF r.out = <<>> THEN Least(n, 30) ELSE Least(40 + each * Len(r.out), 70)

RatePuthi(r, n, each) ==
  IF r.status # 0 \/ ~Ascii(r.out) THEN 0
  ELSE IF n = 0 THEN Wrong
  ELSE IF Has(r.out, <<72, 105>>) THEN 100
  ELSE PuthiBase(r, n, each) + (IF Has(r.out, <<72>>) THEN 10 ELSE 0)
                             + (IF Has(r.out, <<105>>) THEN 10 ELSE 0)

RateExit(r, n) ==
  IF r.status = 0 THEN 100
  ELSE IF n = 0 THEN Wrong
  ELSE Least(15 * n + 35, 90) + (IF r.status < 128 THEN 9 ELSE 0)

RateExit0(r) == IF r.status = 0 THEN 100 ELSE 50

RateExit1(r) == IF r.status = 1 THEN 100 ELSE 50

RateInit(r, asm) ==
  IF ~Guard(asm) THEN 0
  ELSE IF r.status = 0 THEN 100
  ELSE IF asm = <<>> THEN Wrong
  ELSE Least(10 * Len(asm), 60) + (IF r.status < 128 THEN 30 ELSE 0)

Hello == <<72, 101, 108, 108, 111>>

\* grep '^...' : the first k characters of Hello at the start of a line.
Greets(out, k) ==
  LET said == SubSeq(Hello, 1, k) IN
  Has(<<10>> \o out, <<10>> \o said)

RateHello(r, asm) ==
  IF ~Guard(asm) \/ r.status # 0 THEN 0
  ELSE IF asm = <<>> THEN Wrong
  ELSE IF Greets(r.out, 5) THEN 100
  ELSE IF \E k \in 1..4 : Greets(r.out, k)
       THEN 70 + 6 * (CHOOSE k \in 1..4 : Greets(r.out, k) /\ (k = 4 \/ ~Greets(r.out, k + 1)))
  ELSE Least(Len(asm) + 46, 90)

Rate(e, r, c) ==
  LET n == Len(c.dna)
      asm == Listing(c.body)
  IN  CASE e = "puta"      -> RatePuta(r, n)
        [] e = "puta_0"    -> RatePuta0(r)
        [] e = "putchar"   -> RatePutchar(r, n)
        [] e = "putchar-2" -> RatePutchar2(r, n)
        [] e = "putchar-3" -> RatePutchar3(r, n)
        [] e = "puthi"     -> RatePuthi(r, n, 5)
        [] e = "puthi-2"   -> RatePuthi(r, n, 10)
        [] e = "exit"      -> RateExit(r, n)
        [] e = "exit_0"    -> RateExit0(r)
        [] e = "exit_1"    -> RateExit1(r)
        [] e = "init"      -> RateInit(r, asm)
        [] e = "hello"     -> RateHello(r, asm)

Guarded == {"init", "hello"}

(***************************************************************************)
(* A generation.                                                           *)
(***************************************************************************)
Convert ==
  /\ pc = "adult"
  /\ elf' = Cell2Elf(Function(cell.body))
  /\ pc' = "elf"
  /\ UNCHANGED <<cell, mutants, result, fitness>>

Evaluate ==
  /\ pc = "elf"
  /\ result' = Execute(elf, cell.body)
  /\ fitness' = [e \in Evaluators |-> Rate(e, result', cell)]
  /\ pc' = "rated"
  /\ UNCHANGED <<cell, mutants, elf>>

\* The list of all codes is Code; once the line has had its mutations only
\* the draws that meet a flag go on.
Offspring ==
  IF mutants < MaxMutants(Len(cell.dna))
  THEN Children(cell, Code, Len(cell.dna) < MaxDna)
  ELSE Copies(cell)

\* A cell that has lost its last codon has no child: the process ends when it
\* divides (cell.c:199).
Divide ==
  /\ pc = "rated"
  /\ cell.dna # <<>>
  /\ cell' \in Offspring
  /\ mutants' = IF cell'.dna = Cleared(cell.dna) THEN mutants ELSE mutants + 1
  /\ elf' = None
  /\ result' = Unrun
  /\ fitness' = Unrated
  /\ pc' = "adult"

\* Exercise 7: the reader makes an executable of the same code by hand.
HandMake ==
  /\ pc = "adult"
  /\ LET code == Function(cell.body) IN elf' = HandMade(code, Len(code))
  /\ pc' = "hand"
  /\ UNCHANGED <<cell, mutants, result, fitness>>

PutAway ==
  /\ pc = "hand"
  /\ elf' = None
  /\ pc' = "adult"
  /\ UNCHANGED <<cell, mutants, result, fitness>>

Next == Convert \/ Evaluate \/ Divide \/ HandMake \/ PutAway

Spec == Init /\ [][Next]_vars

-----------------------------------------------------------------------------
(***************************************************************************)
(* An executable starts with the first byte of the protein, has all of it  *)
(* in its segment and nothing after it, whichever tool made it: the entry  *)
(* point and the sizes of dsy-cell2elf.c:50-52 and 69-70 agree with what   *)
(* its three writes put into the file.  And dsy-elf2asm and the samples,   *)
(* which know the layout of dsy-cell2elf on their own, agree with it: the  *)
(* listing is that of the protein, the address the samples load is that of *)
(* the list of characters.                                                 *)
(***************************************************************************)
EntryIsCode ==
  pc \in {"elf", "hand"} =>
    LET code == Function(cell.body) IN
    /\ \A i \in DOMAIN code :
          Readable(elf, elf.entry + i - 1) /\ ByteAt(elf, elf.entry + i - 1) = code[i]
    /\ LoadVaddr + elf.filesz = elf.entry + Len(code)
    /\ pc = "elf" =>
         /\ AsmBytes(elf) = code
         /\ \A k \in DOMAIN Chars : ByteAt(elf, AsciiSpace + k - 1) = Chars[k]

\* What each evaluator asks a program to do.
Goal(e) ==
  CASE e = "puta"            -> result.status = 0 /\ Has(result.out, <<65>>)
    [] e = "puta_0"          -> Has(result.out, <<65>>)
    [] e = "putchar"         -> result.status = 0 /\ Len(result.out) >= 20
    [] e = "putchar-2"       -> result.status = 0 /\ Len(result.out) >= 4
    [] e = "putchar-3"       -> result.status = 0 /\ Len(result.out) >= 4 /\ Ascii(result.out)
    [] e \in {"puthi", "puthi-2"} ->
         result.status = 0 /\ Ascii(result.out) /\ Has(result.out, <<72, 105>>)
    [] e \in {"exit", "exit_0", "init"} -> result.status = 0
    [] e = "exit_1"          -> result.status = 1
    [] e = "hello"           -> result.status = 0 /\ Greets(result.out, 5)

\* The evaluators that do not run the program of this cell.
Refused(e) == e \in Guarded /\ ~Guard(Listing(cell.body))

(***************************************************************************)
(* 100 ends the experiment and saves out.cell (cell.c:762-776): a cell     *)
(* with codons gets it exactly when its program does what the evaluator is *)
(* for, never by adding up points for codons and characters, and it never  *)
(* gets more, which would abort the process (sysenv.c:275).  To a cell     *)
(* that has lost its last codon the evaluators give at most 100 as well,   *)
(* or the 200 by which they say that something is wrong.                   *)
(***************************************************************************)
HundredIsGoal ==
  pc = "rated" =>
    \A e \in Evaluators :
      IF cell.dna = <<>> THEN fitness[e] <= 100 \/ fitness[e] = Wrong
      ELSE /\ fitness[e] <= 100
           /\ fitness[e] = 100 <=> Goal(e) /\ ~Refused(e)

(***************************************************************************)
(* docs/tips.md:105-111: what evolution makes of the codes of the samples  *)
(* asks the kernel for nothing but write(2) and exit(2), as long as the    *)
(* evaluators that have the guard run it: a mutation that takes away the   *)
(* instruction before a bare syscall leaves some other number in rax.      *)
(***************************************************************************)
MeantSyscalls ==
  pc = "rated" =>
    \A e \in Evaluators \cap Guarded : Refused(e) \/ result.calls \subseteq {1, 60}

(***************************************************************************)
(* The protected end of a sample cell does what it is for: a descendant of *)
(* a cell with the exit block, known by its untouchable ret, crashes only  *)
(* when a ret that came in before the block runs before the first exit;    *)
(* otherwise it ends by itself, by the block if by no other                *)
(* (create-exit-cell.c:26-50).                                             *)
(***************************************************************************)
EndsByTail ==
  (/\ pc = "rated" /\ result.status = Crashed
   /\ cell.dna # <<>> /\ cell.dna[Len(cell.dna)].dis = Flag) =>
     \E i \in 1..Len(cell.body) - Len(ExitDna) :
        cell.body[i] = "ret" /\ \A j \in 1..i : cell.body[j] # "exit"
============================================================================
