----------------------------- MODULE Ecosystem -----------------------------
(***************************************************************************)
(* What daisy-tools promises of its environment, without the file system,  *)
(* the processes and the order in which things are done: cells that take   *)
(* code compounds, divide, age and die, and the amount of each instruction *)
(* that exists in cells and in code/.  SysEnv, which follows the code step *)
(* by step, implements this specification.                                 *)
(***************************************************************************)
EXTENDS Dna, FiniteSets

CONSTANTS
  Name,       \* the names a cell file can have
  Absent,     \* there is no file of that name
  Tail0,      \* the protected end of every genome (<<>> when there is none)
  Colonies,   \* what cell/ may hold at the start: a set of functions on Name
  Stores,     \* what code/ may hold at the start: a set of functions on Code
  Visitors,   \* the cells the user may place while the environment runs
  MaxDna,     \* bound of the model: the longest DNA
  MaxMatter   \* bound of the model: instructions in cells and in code/

VARIABLES
  cells,  \* cell/: the cell of each name, or Absent
  code,   \* code/: how many compounds of each instruction
  list,   \* all_code_list: the instructions mutation draws from
  brought \* history: the instructions of the cells placed since the directory
          \* was read for the list

vars == <<cells, code, list, brought>>

Cell == [dna : Seq(Codon), body : Seq(Code), life : 0..Word-1, left : 0..Word-1]

\* A cell as the sample programs write it, or as an earlier run left it.
Founder(c) ==
  /\ c \in Cell
  /\ Len(c.dna) <= MaxDna
  /\ EndsWith(c.dna, Tail0)
  /\ OneEdit(c.body, Protein(c.dna))
  /\ c.left \in 1..c.life

ASSUME EcosystemAssumption ==
  /\ IsFiniteSet(Name) /\ IsFiniteSet(Code)
  /\ Tail0 \in Seq(Gene)
  /\ SealsTail(Tail0)
  /\ MaxDna \in Nat
  /\ MaxMatter \in Nat
  /\ \A n \in 0..MaxDna : LifeOf(n) # 0
  /\ \A store \in Stores : store \in [Code -> Nat]
  /\ \A colony \in Colonies :
        /\ colony \in [Name -> Cell \cup {Absent}]
        /\ \A n \in Name : colony[n] # Absent => Founder(colony[n])
  /\ \A c \in Visitors : Founder(c)

ASSUME AbsentAssumption == Absent \notin Cell

-----------------------------------------------------------------------------

Living == {n \in Name : cells[n] # Absent}

\* The instructions that exist somewhere: in a DNA or as a compound.
InDna == UNION {Codes(cells[n].dna) : n \in Living}
Present == InDna \cup {x \in Code : code[x] > 0}

\* What the death of a cell with this DNA leaves of the instruction x: one
\* compound for each codon, one more if a compound is bonded to it.
Remains(dna, x) ==
  Cardinality({i \in DOMAIN dna : dna[i].code = x})
    + Cardinality({i \in DOMAIN dna : dna[i].code = x /\ dna[i].buffered})

\* The instruction x in the cells, piece by piece: a codon, or a compound
\* bonded to one.
Held(x) ==
  UNION {{<<n, i, "codon">> : i \in {j \in DOMAIN cells[n].dna : cells[n].dna[j].code = x}}
           \cup {<<n, i, "compound">> :
                   i \in {j \in DOMAIN cells[n].dna :
                            cells[n].dna[j].code = x /\ cells[n].dna[j].buffered}} :
         n \in Living}

\* How much of the instruction x there is, and of all instructions.
Amount(x) == code[x] + Cardinality(Held(x))
Matter ==
  Cardinality(UNION {Held(x) : x \in Code})
    + Cardinality(UNION {{<<x, k>> : k \in 1..code[x]} : x \in Code})

-----------------------------------------------------------------------------

Init ==
  /\ cells \in Colonies
  /\ code \in Stores
  /\ list = {} /\ brought = {}

\* Mutant: the codons of the cells are forgotten.
RefreshCodeOnly ==
  /\ list' = {x \in Code : code[x] > 0} /\ brought' = {}
  /\ UNCHANGED <<cells, code>>

\* The list of all codes is rebuilt: first cycle, or the update_code file.  A cell
\* that is placed after cell/ was read is late: what only it has is not listed.
Refresh ==
  /\ \E late \in SUBSET brought : list' = Present \ late /\ brought' = late
  /\ UNCHANGED <<cells, code>>

\* A cell takes a compound that one of its codons is waiting for.
Bond(n) ==
  /\ n \in Living
  /\ \E x \in Code : \E i \in DOMAIN cells[n].dna :
        /\ code[x] > 0
        /\ IsFirstFree(cells[n].dna, x, i)
        /\ code' = [code EXCEPT ![x] = @ - 1]
        /\ cells' = [cells EXCEPT ![n].dna = Bonded(@, i)]
  /\ UNCHANGED <<list, brought>>

\* A cell all of whose codons hold a compound has a child; the compounds
\* become the child.  The bounds leave out children that are too long.  (An
\* empty DNA has no child: the program stops when it tries.)
Divide(n, m) ==
  /\ n \in Living
  /\ m \in Name \ Living
  /\ Dividable(cells[n].dna)
  /\ cells[n].dna # <<>>
  /\ \E child \in Children(cells[n], list,
                           Len(cells[n].dna) < MaxDna /\ Matter < MaxMatter) :
        cells' = [cells EXCEPT ![n].dna = Cleared(@), ![m] = child]
  /\ UNCHANGED <<code, list, brought>>

\* Mutant: no cell dies.
AgeForever(n) ==
  /\ n \in Living
  /\ cells' = [cells EXCEPT ![n].left = @ - 1]
  /\ UNCHANGED <<code, list, brought>>

Age(n) ==
  /\ n \in Living
  /\ cells[n].left > 1
  /\ cells' = [cells EXCEPT ![n].left = @ - 1]
  /\ UNCHANGED <<code, list, brought>>

\* Mutants: death forgets the bonded compounds, or the codons themselves.
ReleasedOnce(dna, x) == Cardinality({i \in DOMAIN dna : dna[i].code = x})
ReleasedBonded(dna, x) ==
  Cardinality({i \in DOMAIN dna : dna[i].code = x /\ dna[i].buffered})

\* What death() puts into code/: all that is left of the cell.
Released(dna, x) == Remains(dna, x)

\* A life that ends returns what the cell is made of to code/.
Die(n) ==
  /\ n \in Living
  /\ cells[n].left = 1
  /\ cells' = [cells EXCEPT ![n] = Absent]
  /\ code' = [x \in Code |-> code[x] + Released(cells[n].dna, x)]
  /\ UNCHANGED <<list, brought>>

\* The user puts one more compound into code/.
Supply(x) ==
  /\ code' = [code EXCEPT ![x] = @ + 1]
  /\ UNCHANGED <<cells, list, brought>>
  /\ Matter < MaxMatter

\* The user places a cell file; no list is rebuilt (docs/tips.md:54-56).
Arrive(n) ==
  /\ n \in Name \ Living
  /\ \E c \in Visitors :
        /\ cells' = [cells EXCEPT ![n] = c]
        /\ brought' = brought \cup Codes(c.dna)
        /\ Matter + Len(c.dna) <= MaxMatter
  /\ UNCHANGED <<code, list>>

\* A new process starts with an empty list.
Restart ==
  /\ list' = {} /\ brought' = {}
  /\ UNCHANGED <<cells, code>>

\* Mutation draws from a list that was empty when it was made and stayed so:
\* rand() % 0 ends the process, and the compound bonded last, which is not in
\* the file of the cell, is gone.
DrawFails(n) ==
  /\ n \in Living /\ list = {}
  /\ MayMutate /\ Draws(cells[n].dna) /\ Dividable(cells[n].dna)
  /\ \E i \in DOMAIN cells[n].dna : cells' = [cells EXCEPT ![n].dna = Unbonded(@, i)]
  /\ list' = {} /\ brought' = {}
  /\ UNCHANGED code

Next ==
  \/ Refresh
  \/ Restart
  \/ \E x \in Code : Supply(x)
  \/ \E n \in Name :
       \/ Bond(n)
       \/ Age(n)
       \/ Die(n)
       \/ Arrive(n)
       \/ DrawFails(n)
       \/ \E m \in Name : Divide(n, m)

Spec == Init /\ [][Next]_vars

-----------------------------------------------------------------------------

TypeOK ==
  /\ cells \in [Name -> Cell \cup {Absent}]
  /\ code \in [Code -> Nat]
  /\ list \in SUBSET Code
  /\ brought \in SUBSET Code

(***************************************************************************)
(* Whatever mutates, and for however many generations, every genome still  *)
(* ends with the protected tail of its founder: no codon of the tail is    *)
(* changed or lost and none comes between two of them (cell.c:192-461, the *)
(* flags of cell.h:75-89).  With a tail, no genome becomes empty.          *)
(***************************************************************************)
TailIntact == \A n \in Living : EndsWith(cells[n].dna, Tail0)

(***************************************************************************)
(* The protein of a cell is never more than one insertion, change or       *)
(* removal away from its DNA: a mutation shows in the DNA one generation   *)
(* before it shows in the protein (cell.h:112-118, central_dogma).  The    *)
(* distance is measured with the sequence operators of the community       *)
(* modules, not with the copy loops.                                       *)
(***************************************************************************)
BodyNearDna == \A n \in Living : OneEdit(cells[n].body, Protein(cells[n].dna))

\* Between cycles a cell always has a cycle left to live and never more than
\* its life, so the unsigned decrement of cell.c:788 never wraps.
LifeLeft == \A n \in Living : cells[n].left \in 1..cells[n].life

(***************************************************************************)
(* A list of all codes that is not empty holds every instruction of every  *)
(* living DNA, however the cells mutated since, except those that came     *)
(* with a cell file placed after cell/ was read for it, and no instruction *)
(* that does not exist: sysenv_get_mutated_codon draws only instructions   *)
(* the user placed (docs/tips.md:54-56, 105).  So in an environment into   *)
(* which nobody places cells, the list is complete.                        *)
(***************************************************************************)
ListSound ==
  /\ list \subseteq Present
  /\ list # {} => InDna \subseteq list \cup brought

(***************************************************************************)
(* No instruction is ever lost: as long as the environment runs, each      *)
(* instruction that existed once exists in a DNA or in code/, whatever     *)
(* mutation removes and whichever cell dies; and only the user brings in a *)
(* new one: a step that adds an instruction leaves the living cells as     *)
(* they are.                                                               *)
(***************************************************************************)
SpeciesStep ==
  /\ Present \subseteq Present'
  /\ Present' # Present => \A n \in Living : cells'[n] = cells[n]

SpeciesKept == [][SpeciesStep]_vars

(***************************************************************************)
(* The books of matter balance: what a cell takes it holds, what it holds  *)
(* it returns.  Only the birth of a mutant, which adds, drops or swaps one *)
(* instruction, the user, and a mutation that draws from an empty list     *)
(* change how much there is of any instruction: at most one goes up, by    *)
(* one, and at most one goes down, by one, unless a whole cell is placed.  *)
(***************************************************************************)
Arrived ==
  /\ \E n \in Name \ Living : \E c \in Visitors : cells' = [cells EXCEPT ![n] = c]
  /\ UNCHANGED code

BalanceStep ==
  LET gained == {x \in Code : Amount(x)' > Amount(x)}
      lost   == {x \in Code : Amount(x)' < Amount(x)}
  IN /\ \A x \in Code : Amount(x)' - Amount(x) \in -1..1
     /\ Cardinality(gained) <= 1
     /\ Cardinality(lost) <= 1
     /\ gained # {} => Living \subseteq Living' /\ (Living' # Living \/ UNCHANGED cells)
     /\ lost # {} => \/ Living \subseteq Living' /\ Living' # Living
                     \/ list = {} /\ UNCHANGED code

MatterStep == Arrived \/ BalanceStep

MatterBalances == [][MatterStep]_vars

(***************************************************************************)
(* Matter limits the population (docs/exercise/README.md:83): a cell that  *)
(* can divide always finds a name among as many names as there is matter,  *)
(* so create_filename ends.                                                *)
(***************************************************************************)
NameAvailable ==
  (\E n \in Living : Dividable(cells[n].dna)) => Cardinality(Living) < Matter

(***************************************************************************)
(* docs/tips.md:126: the life of a mutant is proportional to its codons,   *)
(* life = LifeSlope * codons - LifeOffset.  Then no cell lives longer than *)
(* LifeSlope cycles for each codon, if its founder does not.               *)
(***************************************************************************)
LifeProportional == \A n \in Living : cells[n].life <= LifeSlope * Len(cells[n].dna)
============================================================================
