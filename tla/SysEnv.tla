------------------------------ MODULE SysEnv ------------------------------
(***************************************************************************)
(* The process dsy-sysenv (main.c, sysenv.c, cell.c), one step for each of *)
(* its effects on the file system: the files of cell/, code/ and data/,    *)
(* and the files running, endless, update_code and out.cell by which the   *)
(* user and the process talk.  Between two steps the user may act, the     *)
(* evaluator may run dsy-exec-cell, and the process may be killed and      *)
(* started again.                                                          *)
(*                                                                         *)
(* pc says which call comes next; cur is the struct cell the process works *)
(* on, hand the compound it holds, kid the child it is about to save.      *)
(***************************************************************************)
EXTENDS Dna, FiniteSets

CONSTANTS
  Name,         \* the names a cell file can have
  Absent,       \* there is no such file
  Torn,         \* a file that fopen("w+b") truncated and nothing has filled
  Nothing,      \* an unset variable of the process
  Tail0,        \* the protected end of every genome (<<>> when there is none)
  MaxFitness,   \* CELL_MAX_FITNESS
  EvalResults,  \* the exit statuses of dsy-eval
  Colonies,     \* what cell/ may hold at the start
  Stores,       \* what code/ may hold at the start
  Visitors,     \* the cell files the user may place while the process runs
  StartData,    \* how many data compounds there are at the start
  MaxDna,       \* bound of the model: the longest DNA
  MaxMatter,    \* bound of the model: instructions in cells and in code/
  MaxData,      \* bound of the model: compounds in data/
  MaxKills      \* bound of the model: how often the process is killed

VARIABLES
  cells,    \* cell/: the content of each file
  code,     \* code/: how many compounds of each instruction
  data,     \* data/: how many compounds
  running,  \* whether the file running exists
  endless,  \* whether the file endless exists
  update,   \* whether the file update_code exists
  out,      \* whether the file out.cell exists
  copying,  \* what the user is copying: the name of a cell file, "code" or Nothing
  pc,       \* the next call of the process; "off" and "failed": no process
  list,     \* all_code_list
  brought,  \* history: the instructions of the cells the user placed since the
            \* directory was read for the list
  first,    \* num_cycle = 1
  todo,     \* the names of cell_namelist that have not had their turn
  me, cur,  \* the name and the struct of the cell whose turn it is
  hand,     \* the code compound taken from code/ and not yet bonded
  kidName, kid,  \* the name and the struct of the child being saved
  debris,   \* what death() has still to put into code/: <<i, 1>> for the codon i,
            \* <<i, 0>> for the compound bonded to it
  kills     \* how often the process was killed

files == <<cells, code, data>>
switches == <<running, endless, update, out, copying>>
held == <<me, cur, hand, kidName, kid, debris>>
memory == <<list, brought, first, todo, held>>
vars == <<files, switches, pc, memory, kills>>

Cell == [dna : Seq(Codon), body : Seq(Code), life : 0..Word-1, left : 0..Word-1,
         fitness : 0..MaxFitness, numArgs : Nat, hasArgs : Nat, retval : BOOLEAN]

Phases ==
  {"off", "failed", "check", "scan", "codes", "unflag", "turn", "args",
   "evalOpen", "evalWrite", "eval", "output", "endless", "stop", "unlink",
   "take", "bond", "divide", "birth", "age", "release", "saveOpen", "saveWrite"}

Whole(n) == cells[n] \notin {Absent, Torn}
Files == {n \in Name : cells[n] # Absent}
Alive == pc \notin {"off", "failed"}

-----------------------------------------------------------------------------
(***************************************************************************)
(* The state of the environment that the files and the process hold        *)
(* together, as Ecosystem sees it: the struct in memory counts, not the    *)
(* file it came from; a compound in hand and those of a dead cell count as *)
(* if they were in code/; a cell is dead when its life is over, a child is *)
(* born when it has a name.                                                *)
(***************************************************************************)
View(c) == [dna |-> c.dna, body |-> c.body, life |-> c.life, left |-> c.left]

ViewCell(n) ==
  IF n = me THEN (IF pc = "release" THEN Absent ELSE View(cur))
  ELSE IF n = kidName THEN View(kid)
  ELSE IF Whole(n) THEN View(cells[n]) ELSE Absent

ViewCells == [n \in Name |-> ViewCell(n)]

ViewCode ==
  [x \in Code |-> code[x] + (IF hand = x THEN 1 ELSE 0)
                    + Cardinality({d \in debris : cur.dna[d[1]].code = x})]

ViewColonies ==
  {[n \in Name |-> IF colony[n] = Absent THEN Absent ELSE View(colony[n])] :
     colony \in Colonies}

Eco == INSTANCE Ecosystem
         WITH cells <- ViewCells, code <- ViewCode, Colonies <- ViewColonies,
              Visitors <- {View(c) : c \in Visitors}

\* The compounds a cell has bonded.
Bonds(c) == Cardinality({i \in DOMAIN c.dna : c.dna[i].buffered})

\* A cell as the sample programs write it, or as an earlier run left it.
Founder(c) ==
  /\ c \in Cell
  /\ Eco!Founder(View(c))
  /\ Bonds(c) <= c.life - c.left

\* The bounds leave room for one instruction more.
Room == Eco!Matter < MaxMatter

ASSUME SysEnvAssumption ==
  /\ IsFiniteSet(Name)
  /\ Tail0 \in Seq(Gene)
  /\ SealsTail(Tail0)
  /\ MaxFitness \in Nat \ {0}
  /\ EvalResults \subseteq Nat
  /\ {MaxDna, MaxMatter, MaxData, MaxKills, StartData} \subseteq Nat
  /\ \A n \in 0..MaxDna : LifeOf(n) # 0
  /\ \A store \in Stores : store \in [Code -> Nat]
  /\ \A colony \in Colonies :
        /\ colony \in [Name -> Cell \cup {Absent}]
        /\ \A n \in Name : colony[n] # Absent => Founder(colony[n])
  /\ \A c \in Visitors : Founder(c)

\* No file, an empty file and an unset variable are told from what there may be.
ASSUME AbsentAssumption ==
  /\ Absent \notin Cell /\ Absent \notin Eco!Cell /\ Torn \notin Cell /\ Absent # Torn
  /\ Nothing \notin Name /\ Nothing \notin Code /\ Nothing \notin Cell
  /\ "code" \notin Name /\ Nothing # "code"

-----------------------------------------------------------------------------

Init ==
  /\ cells \in Colonies
  /\ code \in Stores
  /\ data = StartData
  /\ running = FALSE /\ endless = FALSE /\ update = FALSE /\ out = FALSE
  /\ copying = Nothing
  /\ pc = "off"
  /\ list = {} /\ brought = {} /\ first = TRUE /\ todo = {}
  /\ me = Nothing /\ cur = Nothing /\ hand = Nothing
  /\ kidName = Nothing /\ kid = Nothing /\ debris = {}
  /\ kills = 0

Goto(p) == pc' = p

\* The process ends: what it holds in memory is gone, the files stay.
EndWith(p) ==
  /\ Goto(p)
  /\ list' = {} /\ brought' = {} /\ first' = TRUE /\ todo' = {}
  /\ me' = Nothing /\ cur' = Nothing /\ hand' = Nothing
  /\ kidName' = Nothing /\ kid' = Nothing /\ debris' = {}

\* ASSERT and ERROR_WITH (common.h:24): err() ends the process at once.
Fail == EndWith("failed") /\ UNCHANGED <<files, switches, kills>>

-----------------------------------------------------------------------------
(* main and sysenv_do_cycle *)

\* Mutant: the file running is not looked at.
CheckRunningNever ==
  /\ pc = "check"
  /\ Goto("scan")
  /\ UNCHANGED <<files, switches, memory, kills>>

\* while (sysenv_is_running())
CheckRunning ==
  /\ pc = "check"
  /\ IF running
     THEN Goto("scan") /\ UNCHANGED memory
     ELSE EndWith("off")
  /\ UNCHANGED <<files, switches, kills>>

NoCells ==
  /\ pc = "scan" /\ Files = {}
  /\ Fail

ScanCells ==
  /\ pc = "scan" /\ Files # {}
  /\ todo' = Files
  /\ Goto("codes")
  /\ UNCHANGED <<files, switches, list, brought, first, held, kills>>

\* The DNA of every scanned cell, then every compound of code/.
ListedCodes ==
  (UNION {Codes(cells[n].dna) : n \in todo}) \cup {x \in Code : code[x] > 0}

\* What is in the DNA of whole files only that were not there to be scanned.
LateCodes == (UNION {Codes(cells[n].dna) : n \in {m \in Name : Whole(m)}}) \ ListedCodes

\* Mutant: the first cycle does not build the list.
MustListAsked == update

MustList == update \/ first

\* The assertions of cell_load_from_file and comp_load_from_file: every scanned
\* cell and every compound of code/ is whole.
Loadable == (\A n \in todo : Whole(n)) /\ copying # "code"

UpdateList ==
  /\ pc = "codes" /\ MustList /\ Loadable
  /\ list' = ListedCodes /\ brought' = LateCodes
  /\ Goto(IF update THEN "unflag" ELSE "turn")
  /\ UNCHANGED <<files, switches, first, todo, held, kills>>

UpdateListFails ==
  /\ pc = "codes" /\ MustList /\ ~Loadable
  /\ Fail

KeepList ==
  /\ pc = "codes" /\ ~MustList
  /\ Goto("turn")
  /\ UNCHANGED <<files, switches, memory, kills>>

\* Mutant: update_code stays.
RemoveUpdateCodeKept ==
  /\ pc = "unflag"
  /\ Goto("turn")
  /\ UNCHANGED <<files, switches, memory, kills>>

RemoveUpdateCode ==
  /\ pc = "unflag"
  /\ update' = FALSE
  /\ Goto("turn")
  /\ UNCHANGED <<files, running, endless, out, copying, memory, kills>>

EndCycle ==
  /\ pc = "turn" /\ todo = {}
  /\ first' = FALSE
  /\ Goto("check")
  /\ UNCHANGED <<files, switches, list, brought, todo, held, kills>>

\* cell_load_from_file of the next name; scandir promises no order.
Load ==
  /\ pc = "turn"
  /\ \E n \in todo :
       IF Whole(n)
       THEN /\ me' = n /\ cur' = cells[n] /\ todo' = todo \ {n}
            /\ Goto("args")
            /\ UNCHANGED <<files, switches, list, brought, first, hand, kidName, kid, debris, kills>>
       ELSE Fail

-----------------------------------------------------------------------------
(* cell_do_cycle: metabolism *)

\* sysenv_get_comp compares the fitness with rand() % CELL_MAX_FITNESS.
MayGet == cur.fitness > 0
MayMiss == cur.fitness < MaxFitness

NeedsNoArgs ==
  /\ pc = "args" /\ cur.numArgs = 0
  /\ Goto("evalOpen")
  /\ UNCHANGED <<files, switches, memory, kills>>

\* The assertion of get_args: a cell that has all its arguments is not loaded.
ArgsFull ==
  /\ pc = "args" /\ cur.numArgs > 0 /\ cur.hasArgs >= cur.numArgs
  /\ Fail

LacksArg == cur.hasArgs < cur.numArgs

TakeArg ==
  /\ pc = "args" /\ LacksArg
  /\ MayGet /\ data > 0
  /\ data' = data - 1
  /\ cur' = [cur EXCEPT !.hasArgs = @ + 1]
  /\ Goto(IF cur.hasArgs + 1 = cur.numArgs THEN "evalOpen" ELSE "take")
  /\ UNCHANGED <<cells, code, switches, list, brought, first, todo, me, hand, kidName, kid, debris, kills>>

MissArg ==
  /\ pc = "args" /\ LacksArg
  /\ MayMiss \/ data = 0
  /\ Goto("take")
  /\ UNCHANGED <<files, switches, memory, kills>>

\* cell_save_to_file: fopen("w+b") empties the file, fwrite fills it.
Open(p, q) ==
  /\ pc = p
  /\ cells' = [cells EXCEPT ![me] = Torn]
  /\ Goto(q)
  /\ UNCHANGED <<code, data, switches, memory, kills>>

EvalOpen == Open("evalOpen", "evalWrite")
SaveOpen == Open("saveOpen", "saveWrite")

EvalWrite ==
  /\ pc = "evalWrite"
  /\ cells' = [cells EXCEPT ![me] = cur]
  /\ Goto("eval")
  /\ UNCHANGED <<code, data, switches, memory, kills>>

\* dsy-eval may run dsy-exec-cell: it consumes the arguments of the file and
\* puts the return value of the function into data/.
ExecCell ==
  /\ pc = "eval"
  /\ cells[me].retval => data < MaxData
  /\ cells' = [cells EXCEPT ![me].hasArgs = 0]
  /\ data' = IF cells[me].retval THEN data + 1 ELSE data
  /\ UNCHANGED <<code, switches, pc, memory, kills>>

\* The assertion of sysenv_exec_and_eval on the exit status.
Accepted(r) == r <= MaxFitness

\* dsy-eval returns; the file it may have changed is loaded again.
Evaluated ==
  /\ pc = "eval"
  /\ \E r \in EvalResults :
       IF Accepted(r)
       THEN /\ cur' = [cells[me] EXCEPT !.fitness = r]
            /\ Goto(IF r = MaxFitness THEN "output" ELSE "take")
            /\ UNCHANGED <<files, switches, list, brought, first, todo, me, hand, kidName, kid, debris, kills>>
       ELSE Fail

SaveOutput ==
  /\ pc = "output"
  /\ out' = TRUE
  /\ Goto("endless")
  /\ UNCHANGED <<files, running, endless, update, copying, memory, kills>>

CheckEndless ==
  /\ pc = "endless"
  /\ Goto(IF endless THEN "take" ELSE "stop")
  /\ UNCHANGED <<files, switches, memory, kills>>

\* sysenv_exit looks for the file running, then removes it.
ExitCheck ==
  /\ pc = "stop"
  /\ Goto(IF running THEN "unlink" ELSE "take")
  /\ UNCHANGED <<files, switches, memory, kills>>

ExitRemove ==
  /\ pc = "unlink" /\ running
  /\ running' = FALSE
  /\ Goto("take")
  /\ UNCHANGED <<files, endless, update, out, copying, memory, kills>>

ExitRemoveFails ==
  /\ pc = "unlink" /\ ~running
  /\ Fail

-----------------------------------------------------------------------------
(* cell_do_cycle: growth and division *)

TakeCode ==
  /\ pc = "take" /\ MayGet
  /\ \E x \in Code :
       /\ code[x] > 0
       /\ code' = [code EXCEPT ![x] = @ - 1]
       /\ hand' = x
  /\ Goto("bond")
  /\ UNCHANGED <<cells, data, switches, list, brought, first, todo, me, cur, kidName, kid, debris, kills>>

\* The assertion of comp_load_from_file on the compound the user is copying.
TakeCodeFails ==
  /\ pc = "take" /\ MayGet /\ copying = "code"
  /\ Fail

MissCode ==
  /\ pc = "take"
  /\ MayMiss \/ (copying # "code" /\ \A x \in Code : code[x] = 0)
  /\ Goto("age")
  /\ UNCHANGED <<files, switches, memory, kills>>

BondCode ==
  /\ pc = "bond"
  /\ \E i \in DOMAIN cur.dna :
       /\ IsFirstFree(cur.dna, hand, i)
       /\ cur' = [cur EXCEPT !.dna = Bonded(@, i)]
       /\ Goto(IF Dividable(Bonded(cur.dna, i)) THEN "divide" ELSE "age")
  /\ hand' = Nothing
  /\ UNCHANGED <<files, switches, list, brought, first, todo, me, kidName, kid, debris, kills>>

ReleaseCode ==
  /\ pc = "bond" /\ ~HasFree(cur.dna, hand)
  /\ code' = [code EXCEPT ![hand] = @ + 1]
  /\ hand' = Nothing
  /\ Goto(IF Dividable(cur.dna) THEN "divide" ELSE "age")
  /\ UNCHANGED <<cells, data, switches, list, brought, first, todo, me, cur, kidName, kid, debris, kills>>

\* Mutant: the name of the child is not checked.
FreeNamesAny == Name \ {me}

\* create_filename tries names until no file has the name.
FreeNames == Name \ Files

\* Mutant: the child inherits the arguments.
NewbornArgs(child) == child

Newborn(child) == [child EXCEPT !.hasArgs = 0]

\* division() up to the creation of the child's file, under a name that
\* create_filename found free.  The bounds leave out children too long.
Divide ==
  /\ pc = "divide" /\ cur.dna # <<>>
  /\ \E m \in FreeNames :
     \E child \in Children(cur, list, Len(cur.dna) < MaxDna /\ Room) :
       /\ kidName' = m
       /\ kid' = Newborn(child)
       /\ cells' = [cells EXCEPT ![m] = Torn]
  /\ cur' = [cur EXCEPT !.dna = Cleared(@)]
  /\ Goto("birth")
  /\ UNCHANGED <<code, data, switches, list, brought, first, todo, me, hand, debris, kills>>

\* A DNA of no codon is dividable.  A mutation of it divides by zero when it
\* draws a codon with rand() % num_codns; without a mutation, the assertion of
\* central_dogma fails, since mmap refuses a length of zero.  A mutation that
\* draws an instruction divides by zero when the list is empty.
DivideByZero ==
  /\ pc = "divide"
  /\ cur.dna = <<>> \/ (list = {} /\ MayMutate /\ Draws(cur.dna))
  /\ Fail

\* Mutant: the file of the child is created and not written.
BirthUnwritten ==
  /\ pc = "birth"
  /\ kidName' = Nothing /\ kid' = Nothing
  /\ Goto("age")
  /\ UNCHANGED <<files, switches, list, brought, first, todo, me, cur, hand, debris, kills>>

BirthWrite ==
  /\ pc = "birth"
  /\ cells' = [cells EXCEPT ![kidName] = kid]
  /\ kidName' = Nothing /\ kid' = Nothing
  /\ Goto("age")
  /\ UNCHANGED <<code, data, switches, list, brought, first, todo, me, cur, hand, debris, kills>>

-----------------------------------------------------------------------------
(* cell_do_cycle: life and death *)

\* Mutant: a bonded compound is forgotten.
DebrisOnce(dna) == (DOMAIN dna) \X {1}

\* death() puts two compounds for a codon that holds one, and one otherwise.
Debris(dna) == {d \in (DOMAIN dna) \X {0, 1} : d[2] = 0 => dna[d[1]].buffered}

\* Mutant: no life ends.
OverNever(left) == FALSE

Over(left) == left = 0

\* life_left is unsigned.
Age ==
  /\ pc = "age"
  /\ LET left == (cur.left - 1) % Word IN
     /\ cur' = [cur EXCEPT !.left = left]
     /\ IF Over(left)
        THEN Goto("release") /\ debris' = Debris(cur.dna)
        ELSE Goto("saveOpen") /\ UNCHANGED debris
  /\ UNCHANGED <<files, switches, list, brought, first, todo, me, hand, kidName, kid, kills>>

ReleaseArg ==
  /\ pc = "release" /\ cur.hasArgs > 0
  /\ data' = data + 1
  /\ cur' = [cur EXCEPT !.hasArgs = @ - 1]
  /\ UNCHANGED <<cells, code, switches, pc, list, brought, first, todo, me, hand, kidName, kid, debris, kills>>

ReleaseCodon ==
  /\ pc = "release" /\ cur.hasArgs = 0
  /\ \E d \in debris :
       /\ \A e \in debris : d[1] < e[1] \/ (d[1] = e[1] /\ d[2] <= e[2])
       /\ code' = [code EXCEPT ![cur.dna[d[1]].code] = @ + 1]
       /\ debris' = debris \ {d}
  /\ UNCHANGED <<cells, data, switches, pc, list, brought, first, todo, me, cur, hand, kidName, kid, kills>>

RemoveCell ==
  /\ pc = "release" /\ cur.hasArgs = 0 /\ debris = {}
  /\ cells' = [cells EXCEPT ![me] = Absent]
  /\ me' = Nothing /\ cur' = Nothing
  /\ Goto("turn")
  /\ UNCHANGED <<code, data, switches, list, brought, first, todo, hand, kidName, kid, debris, kills>>

SaveWrite ==
  /\ pc = "saveWrite"
  /\ cells' = [cells EXCEPT ![me] = cur]
  /\ me' = Nothing /\ cur' = Nothing
  /\ Goto("turn")
  /\ UNCHANGED <<code, data, switches, list, brought, first, todo, hand, kidName, kid, debris, kills>>

-----------------------------------------------------------------------------

\* The single thread of dsy-sysenv and the evaluator it waits for.
Process ==
  \/ CheckRunning \/ NoCells \/ ScanCells \/ UpdateList \/ UpdateListFails
  \/ KeepList \/ RemoveUpdateCode \/ EndCycle \/ Load
  \/ NeedsNoArgs \/ ArgsFull \/ TakeArg \/ MissArg
  \/ EvalOpen \/ EvalWrite \/ Evaluated \/ SaveOutput
  \/ CheckEndless \/ ExitCheck \/ ExitRemove \/ ExitRemoveFails
  \/ TakeCode \/ TakeCodeFails \/ MissCode \/ BondCode \/ ReleaseCode
  \/ Divide \/ DivideByZero \/ BirthWrite
  \/ Age \/ ReleaseArg \/ ReleaseCodon \/ RemoveCell \/ SaveOpen \/ SaveWrite

\* The user starts the program when it does not run: bin/run touches the file
\* running, sysenv_init creates it if it is missing.
Start ==
  /\ ~Alive
  /\ running' = TRUE
  /\ Goto("check")
  /\ UNCHANGED <<files, endless, update, out, copying, memory, kills>>

\* The user stops it by removing the file running.
Stop ==
  /\ running
  /\ running' = FALSE
  /\ UNCHANGED <<files, endless, update, out, copying, pc, memory, kills>>

SwitchEndless ==
  /\ endless' = ~endless
  /\ UNCHANGED <<files, running, update, out, copying, pc, memory, kills>>

\* The user copies a compound into code/ and, in a step of its own, places
\* update_code.  While the copy is not complete nobody can load the file.
SupplyOpen ==
  /\ copying = Nothing /\ Room
  /\ copying' = "code"
  /\ UNCHANGED <<files, running, endless, update, out, pc, memory, kills>>

SupplyWrite ==
  /\ copying = "code" /\ Room
  /\ \E x \in Code : code' = [code EXCEPT ![x] = @ + 1]
  /\ copying' = Nothing
  /\ UNCHANGED <<cells, data, running, endless, update, out, pc, memory, kills>>

\* The user copies a cell file into cell/, under a name of no other file: the
\* next cycle sees it, and no list is rebuilt (docs/tips.md:54-56).
PlaceOpen ==
  /\ copying = Nothing /\ Visitors # {} /\ Room
  /\ \E n \in Name \ Files : copying' = n /\ cells' = [cells EXCEPT ![n] = Torn]
  /\ UNCHANGED <<code, data, running, endless, update, out, pc, memory, kills>>

PlaceWrite ==
  /\ copying \in Name
  /\ \E c \in Visitors :
       /\ Eco!Matter + Len(c.dna) <= MaxMatter
       /\ cells' = [cells EXCEPT ![copying] = c]
       /\ brought' = brought \cup Codes(c.dna)
  /\ copying' = Nothing
  /\ UNCHANGED <<code, data, running, endless, update, out, pc, list, first, todo, held, kills>>

RequestUpdate ==
  /\ ~update
  /\ update' = TRUE
  /\ UNCHANGED <<files, running, endless, out, copying, pc, memory, kills>>

Kill ==
  /\ Alive /\ kills < MaxKills
  /\ kills' = kills + 1
  /\ EndWith("failed")
  /\ UNCHANGED <<files, switches>>

User ==
  \/ Start \/ Stop \/ SwitchEndless \/ RequestUpdate
  \/ SupplyOpen \/ SupplyWrite \/ PlaceOpen \/ PlaceWrite

Next == Process \/ ExecCell \/ User \/ Kill

Spec == Init /\ [][Next]_vars

\* The process is never suspended for ever and every call it makes returns,
\* the evaluator and fsync included.
Live == Spec /\ WF_vars(Process)

-----------------------------------------------------------------------------

(***************************************************************************)
(* As long as nobody kills it, the process keeps the promise of Ecosystem  *)
(* through all the files it opens, removes and writes, through user        *)
(* actions at any moment, through its own aborts (err() in ASSERT, the     *)
(* division by zero) and through restarts: matter balances, no instruction *)
(* is lost, every cell ages by one cycle at a time.                        *)
(***************************************************************************)
Implements == Eco!Spec

(***************************************************************************)
(* The only files of cell/ without content are the one being written, the  *)
(* one the user is copying and one for each kill: no assertion that stands *)
(* in SysEnv and no division by zero ends the process between the fopen    *)
(* and the fwrite of a cell, so the next start can load every cell         *)
(* (cell.c:712, sysenv.c:85).  The assertions of the save itself, on a     *)
(* full disk, are in CellFile.                                             *)
(***************************************************************************)
TornFiles ==
  Cardinality({n \in Name : cells[n] = Torn} \ {me, kidName, copying}) <= kills

(***************************************************************************)
(* The directory listing of a cycle does not go stale: every cell that     *)
(* still waits for its turn has its file, whole unless the user still      *)
(* copies it, whichever cells died or were born before it in the cycle,    *)
(* and no child has a turn in the cycle of its birth (sysenv.c:149-177).   *)
(***************************************************************************)
TodoExists ==
  kills = 0 => /\ \A n \in todo : Whole(n) \/ (n = copying /\ cells[n] = Torn)
               /\ {me, kidName} \cap todo = {}

(***************************************************************************)
(* Two divisions of a cell are at least as many cycles apart as it has     *)
(* codons, which is what its life is for (docs/tips.md:130, cell.c:56-112, *)
(* 788).  A turn that ends well takes one cycle from the life in the file  *)
(* and adds at most one bond to those in the file; a cell that divides     *)
(* brought all its bonds but one, or all, to this turn in its file; and a  *)
(* division leaves none.                                                   *)
(***************************************************************************)
GrowthPace ==
  /\ pc = "divide" => Bonds(cells[me]) >= Len(cur.dna) - 1
  /\ pc = "birth" => Bonds(cur) = 0
  /\ pc = "saveOpen" => /\ cells[me].left = cur.left + 1
                        /\ Bonds(cur) <= Bonds(cells[me]) + 1

(***************************************************************************)
(* Whenever the process ends or is killed, every cell file with content is *)
(* one it could have been given at the start: the tail whole, the protein  *)
(* one mutation away from the DNA, some cycles left to live and not more   *)
(* than its life, which the unsigned life_left must never exceed, and no   *)
(* more compounds than cycles lived (cell.c:192-461, 516, 788).            *)
(***************************************************************************)
FoundersLeft == \A n \in Name : Whole(n) => Founder(cells[n])

(***************************************************************************)
(* The list mutation draws from holds every instruction of the DNA that    *)
(* divides, except those that came with a cell file the user placed after  *)
(* the directory was read for the list.  So rand() % num_all_codes         *)
(* (sysenv.c:282) divides by zero for such a cell only, in an environment  *)
(* that had no instruction at all when the list was made.                  *)
(***************************************************************************)
ListReady == pc = "divide" => Codes(cur.dna) \subseteq list \cup brought

(***************************************************************************)
(* A torn file stops the whole environment: no cell has a turn while one   *)
(* is there that nobody is going to fill, for every start rebuilds the     *)
(* list first and loads every cell (sysenv.c:162-165, cell.c:642-662).     *)
(***************************************************************************)
TornBlocks ==
  (\E n \in Name \ {me, kidName, copying} : cells[n] = Torn)
    => pc \in {"off", "failed", "check", "scan", "codes"}

(***************************************************************************)
(* Arguments: outside of the evaluator a data compound is either in data/  *)
(* or held by one cell.  The file counts while the evaluator runs, the     *)
(* struct while the cell has its turn (cell.c:17-54, 590-595, 811-828).    *)
(* One is lost only in the turn in which a cell has taken one of several   *)
(* arguments, when the process ends before the cell is saved: at a code    *)
(* compound that is still being copied (compound.c:36) or at a division by *)
(* zero.  A cell file that is placed brings its arguments.                 *)
(***************************************************************************)
ArgsHeld(n) ==
  IF n = me /\ pc # "eval" THEN cur.hasArgs
  ELSE IF Whole(n) THEN cells[n].hasArgs ELSE 0

ArgsOf(n) == {<<n, k>> : k \in 1..ArgsHeld(n)}

DataTotal == data + Cardinality(UNION {ArgsOf(n) : n \in Name})

DataStep ==
  pc # "eval" /\ kills' = kills =>
    \/ DataTotal' = DataTotal
    \/ pc \in {"take", "divide"} /\ pc' = "failed" /\ DataTotal' = DataTotal - 1
    \/ /\ copying \in Name /\ copying' = Nothing
       /\ DataTotal' = DataTotal + cells'[copying].hasArgs

DataBalances == [][DataStep]_vars

\* A process whose file running is removed ends (README.md:97).
StopObeyed == ~running ~> ~Alive

\* Every cell dies, unless the process ends first: its turn comes every cycle.
Mortal == \A n \in Name : cells[n] # Absent ~> cells[n] = Absent \/ ~Alive

\* A request to update the list is taken up, unless the process ends first.
UpdateServed == update ~> ~update \/ ~Alive

(***************************************************************************)
(* docs/tips.md:62-65: a compound file is added, update_code is placed,    *)
(* and at the start of the next cycle the list is brought up to date.      *)
(***************************************************************************)
SuppliedIsListed ==
  \A x \in Code : update /\ code[x] > 0 ~> x \in list \/ ~Alive
============================================================================
