---------------------------- MODULE SysEnvProofs ----------------------------
(***************************************************************************)
(* Theorems about SysEnv, for any finite set of names, any instructions,   *)
(* any population as the samples or an earlier run leave it, any exit      *)
(* statuses of the evaluator and any number of kills.                      *)
(***************************************************************************)
EXTENDS SysEnv, DnaProofs, FiniteSetTheorems

-----------------------------------------------------------------------------
(* The state *)

\* Where the process has the cell me in memory.
Working ==
  {"args", "evalOpen", "evalWrite", "eval", "output", "endless", "stop", "unlink",
   "take", "bond", "divide", "birth", "age", "release", "saveOpen", "saveWrite"}

\* What it holds there, and where it holds nothing.
MemoryOK ==
  /\ IF pc \in Working THEN me \in Name /\ cur \in Cell ELSE me = Nothing /\ cur = Nothing
  /\ IF pc = "bond" THEN hand \in Code ELSE hand = Nothing
  /\ IF pc = "birth" THEN kidName \in Name /\ kid \in Cell ELSE kidName = Nothing /\ kid = Nothing
  /\ IF pc = "release" THEN debris \subseteq Debris(cur.dna) ELSE debris = {}
  /\ list \subseteq Code /\ brought \subseteq Code /\ todo \subseteq Name /\ first \in BOOLEAN

TypeOK ==
  /\ cells \in [Name -> Cell \cup {Absent, Torn}]
  /\ code \in [Code -> Nat] /\ data \in Nat /\ kills \in Nat
  /\ pc \in Phases /\ copying \in Name \cup {Nothing, "code"}
  /\ MemoryOK

\* Where a file is torn and where it is not.
FilesOK ==
  /\ pc \in Working => (Whole(me) <=> pc \notin {"evalWrite", "saveWrite"})
  /\ pc \in {"evalWrite", "saveWrite"} => cells[me] = Torn
  /\ pc = "birth" => cells[kidName] = Torn /\ kidName # me
  /\ copying \in Name => cells[copying] = Torn /\ copying # me /\ copying # kidName
  /\ pc = "codes" => \A n \in Name \ todo : Whole(n) => Codes(cells[n].dna) \subseteq brought

Shape == TypeOK /\ FilesOK

-----------------------------------------------------------------------------
(* Types *)

\* The codons of a DNA and what is left of them.
LEMMA DnaTypes ==
  ASSUME NEW dna \in Seq(Codon)
  PROVE  /\ \A i \in DOMAIN dna : dna[i] \in Codon /\ dna[i].code \in Code
         /\ \A d \in Debris(dna) : d[1] \in DOMAIN dna /\ dna[d[1]].code \in Code
<1>1. \A i \in DOMAIN dna : dna[i] \in Codon
  OBVIOUS
<1>2. \A i \in DOMAIN dna : dna[i].code \in Code
  BY <1>1 DEF Codon
<1> QED
  BY <1>1, <1>2 DEF Debris

\* What changes in a cell when one of its fields does.
LEMMA CellFields ==
  ASSUME NEW c \in Cell
  PROVE  /\ c.dna \in Seq(Codon) /\ c.hasArgs \in Nat /\ c.numArgs \in Nat
         /\ c.life \in 0..Word-1 /\ c.left \in 0..Word-1
         /\ \A n \in Nat : LET d == [c EXCEPT !.hasArgs = n] IN
              d \in Cell /\ View(d) = View(c) /\ d.dna = c.dna /\ d.hasArgs = n
         /\ \A r \in 0..MaxFitness : LET d == [c EXCEPT !.fitness = r] IN
              d \in Cell /\ View(d) = View(c) /\ d.dna = c.dna /\ d.hasArgs = c.hasArgs
         /\ \A l \in 0..Word-1 : LET d == [c EXCEPT !.left = l] IN
              d \in Cell /\ View(d) = [View(c) EXCEPT !.left = l] /\ d.dna = c.dna
                /\ d.hasArgs = c.hasArgs
         /\ \A dna \in Seq(Codon) : LET d == [c EXCEPT !.dna = dna] IN
              d \in Cell /\ View(d) = [View(c) EXCEPT !.dna = dna] /\ d.dna = dna
                /\ d.hasArgs = c.hasArgs
BY DEF Cell, View

\* What Ecosystem sees of a cell is one of its cells.
LEMMA ViewType ==
  ASSUME NEW c \in Cell
  PROVE  View(c) \in Eco!Cell /\ View(c) # Absent
<1>1. View(c) \in Eco!Cell
  BY DEF Cell, View, Eco!Cell, Codon, Eco!Codon, Flag, Eco!Flag
<1> QED
  BY <1>1, AbsentAssumption

\* A child is a cell, of a DNA and with a life as ChildOfDna says.
LEMMA ChildIsCell ==
  ASSUME NEW c \in Cell, NEW all \in SUBSET Code, NEW growing,
         NEW child \in Children(c, all, growing)
  PROVE  /\ Newborn(child) \in Cell
         /\ View(Newborn(child)) = View(child)
         /\ child.dna \in NewDnas(c.dna, all, growing)
         /\ child.left = child.life
         /\ child.life = c.life \/ child.life = LifeOf(Len(child.dna))
<1>1. PICK d, life :
        /\ d \in NewDnas(c.dna, all, growing)
        /\ child = Child(c, d, life) /\ (life = c.life \/ life = LifeOf(Len(d)))
  BY ChildOfDna
<1>2. c.dna \in Seq(Codon) /\ c.life \in 0..Word-1
  BY DEF Cell
<1>3. d \in Seq(Codon)
  BY <1>1, <1>2, NewDna
<1>4. LifeOf(Len(d)) \in 0..Word-1
  <2>1. Len(d) \in Nat
    BY <1>3
  <2> QED
    BY <2>1, LifeOfWord
<1>5. Protein(c.dna) \in Seq(Code) /\ life \in 0..Word-1
  BY <1>1, <1>2, <1>4, ProteinSeq
<1>6. child = [dna |-> d, body |-> Protein(c.dna), life |-> life, left |-> life,
               fitness |-> c.fitness, numArgs |-> c.numArgs, hasArgs |-> c.hasArgs,
               retval |-> c.retval]
  BY <1>1 DEF Child, Cell
<1>7. child \in Cell /\ child.dna = d /\ child.life = life /\ child.left = life
  BY <1>3, <1>5, <1>6 DEF Cell
<1>8. Newborn(child) \in Cell /\ View(Newborn(child)) = View(child)
  BY <1>7 DEF Newborn, Cell, View
<1> QED
  BY <1>1, <1>7, <1>8

\* The list of all codes is made of instructions, and so is what came late.
LEMMA CodesTypes ==
  ASSUME NEW c \in Cell
  PROVE  Codes(c.dna) \subseteq Code
BY CellFields, DnaTypes DEF Codes

LEMMA ListedTypes ==
  ASSUME Shape, Loadable
  PROVE  ListedCodes \subseteq Code /\ LateCodes \subseteq Code
<1>1. \A n \in todo : cells[n] \in Cell
  BY DEF Shape, TypeOK, MemoryOK, Loadable, Whole
<1>2. \A n \in Name : Whole(n) => cells[n] \in Cell
  BY DEF Shape, TypeOK, Whole
<1>3. \A n \in todo : Codes(cells[n].dna) \subseteq Code
  BY <1>1, CodesTypes
<1>4. \A n \in Name : Whole(n) => Codes(cells[n].dna) \subseteq Code
  BY <1>2, CodesTypes
<1> QED
  BY <1>3, <1>4 DEF ListedCodes, LateCodes

LEMMA InitShape == Init => Shape
<1> SUFFICES ASSUME Init PROVE Shape
  OBVIOUS
<1>1. cells \in [Name -> Cell \cup {Absent, Torn}]
  BY SysEnvAssumption DEF Init
<1>2. StartData \in Nat /\ code \in [Code -> Nat]
  BY SysEnvAssumption DEF Init
<1>3. MemoryOK
  BY AbsentAssumption DEF Init, MemoryOK, Working
<1>4. FilesOK
  BY AbsentAssumption DEF Init, FilesOK, Working
<1>5. TypeOK
  BY <1>1, <1>2, <1>3 DEF Init, TypeOK, Phases
<1> QED
  BY <1>4, <1>5 DEF Shape

\* The main loop, the listing and the list of codes.
LEMMA MainShape ==
  ASSUME Shape,
         \/ CheckRunning \/ NoCells \/ ScanCells \/ UpdateList \/ UpdateListFails
         \/ KeepList \/ RemoveUpdateCode \/ EndCycle \/ Load
  PROVE  Shape'
<1> USE AbsentAssumption
    DEF Shape, TypeOK, MemoryOK, FilesOK, Working, Phases, Whole, Files, files, switches, held,
        memory, Goto, EndWith, Fail
<1>1. CASE CheckRunning BY <1>1 DEF CheckRunning
<1>2. CASE NoCells BY <1>2 DEF NoCells
<1>3. CASE ScanCells BY <1>3 DEF ScanCells
<1>4. CASE UpdateList
  <2>1. ListedCodes \subseteq Code /\ LateCodes \subseteq Code
    BY <1>4, ListedTypes DEF UpdateList
  <2> QED
    BY <1>4, <2>1 DEF UpdateList
<1>5. CASE UpdateListFails BY <1>5 DEF UpdateListFails
<1>6. CASE KeepList BY <1>6 DEF KeepList
<1>7. CASE RemoveUpdateCode BY <1>7 DEF RemoveUpdateCode
<1>8. CASE EndCycle BY <1>8 DEF EndCycle
<1>9. CASE Load BY <1>9 DEF Load
<1> QED
  BY <1>1, <1>2, <1>3, <1>4, <1>5, <1>6, <1>7, <1>8, <1>9

\* Metabolism: arguments, the evaluator and its file, the end of the process.
LEMMA MetabolismShape ==
  ASSUME Shape,
         \/ NeedsNoArgs \/ ArgsFull \/ TakeArg \/ MissArg
         \/ EvalOpen \/ EvalWrite \/ Evaluated \/ ExecCell \/ SaveOutput
         \/ CheckEndless \/ ExitCheck \/ ExitRemove \/ ExitRemoveFails
  PROVE  Shape'
<1> USE AbsentAssumption
    DEF Shape, TypeOK, MemoryOK, FilesOK, Working, Phases, Whole, files, switches, held,
        memory, Goto, EndWith, Fail
<1>1. CASE NeedsNoArgs BY <1>1 DEF NeedsNoArgs
<1>2. CASE ArgsFull BY <1>2 DEF ArgsFull
<1>3. CASE TakeArg
  <2>1. cur \in Cell
    BY <1>3 DEF TakeArg
  <2>2. cur.hasArgs + 1 \in Nat
    BY <2>1, CellFields
  <2>3. [cur EXCEPT !.hasArgs = cur.hasArgs + 1] \in Cell
    BY <2>1, <2>2, CellFields
  <2> QED
    BY <1>3, <2>3 DEF TakeArg
<1>4. CASE MissArg BY <1>4 DEF MissArg
<1>5. CASE EvalOpen BY <1>5 DEF EvalOpen, Open
<1>6. CASE EvalWrite BY <1>6 DEF EvalWrite
<1>7. CASE Evaluated
  <2>1. \A r \in 0..MaxFitness : [cells[me] EXCEPT !.fitness = r] \in Cell
    BY <1>7 DEF Evaluated, Cell
  <2>2. \A r \in EvalResults : r <= MaxFitness => r \in 0..MaxFitness
    BY SysEnvAssumption
  <2> QED
    BY <1>7, <2>1, <2>2 DEF Evaluated, Accepted
<1>8. CASE ExecCell
  <2>1. [cells[me] EXCEPT !.hasArgs = 0] \in Cell
    BY <1>8 DEF ExecCell, Cell
  <2> QED
    BY <1>8, <2>1 DEF ExecCell
<1>9. CASE SaveOutput BY <1>9 DEF SaveOutput
<1>10. CASE CheckEndless BY <1>10 DEF CheckEndless
<1>11. CASE ExitCheck BY <1>11 DEF ExitCheck
<1>12. CASE ExitRemove BY <1>12 DEF ExitRemove
<1>13. CASE ExitRemoveFails BY <1>13 DEF ExitRemoveFails
<1> QED
  BY <1>1, <1>2, <1>3, <1>4, <1>5, <1>6, <1>7, <1>8, <1>9, <1>10, <1>11, <1>12, <1>13

\* Growth and division: a compound in hand, the child and its file.
LEMMA GrowthShape ==
  ASSUME Shape,
         \/ TakeCode \/ TakeCodeFails \/ MissCode \/ BondCode \/ ReleaseCode
         \/ Divide \/ DivideByZero \/ BirthWrite
  PROVE  Shape'
<1> USE AbsentAssumption
    DEF Shape, TypeOK, MemoryOK, FilesOK, Working, Phases, Whole, Files, files, switches, held,
        memory, Goto, EndWith, Fail
<1>1. CASE TakeCode BY <1>1 DEF TakeCode
<1>2. CASE MissCode BY <1>2 DEF MissCode
<1>3. CASE BondCode
  <2>1. PICK i \in DOMAIN cur.dna : cur' = [cur EXCEPT !.dna = Bonded(cur.dna, i)]
    BY <1>3 DEF BondCode
  <2>2. cur \in Cell
    BY <1>3 DEF BondCode
  <2>3. Bonded(cur.dna, i) \in Seq(Codon)
    BY <2>2, CellFields, BondedDna
  <2>4. cur' \in Cell
    BY <2>1, <2>2, <2>3, CellFields
  <2>5. pc' \in {"divide", "age"}
    BY <1>3 DEF BondCode
  <2> QED
    BY <1>3, <2>4, <2>5 DEF BondCode
<1>4. CASE ReleaseCode BY <1>4 DEF ReleaseCode
<1>5. CASE Divide
  <2>1. PICK m \in FreeNames,
             child \in Children(cur, list, Len(cur.dna) < MaxDna /\ Room) :
          /\ kidName' = m /\ kid' = Newborn(child)
          /\ cells' = [cells EXCEPT ![m] = Torn]
    BY <1>5 DEF Divide
  <2>2. cur \in Cell /\ list \in SUBSET Code
    BY <1>5 DEF Divide
  <2>3. Newborn(child) \in Cell
    BY <2>2, ChildIsCell
  <2>4. cur.dna \in Seq(Codon)
    BY <2>2, CellFields
  <2>5. Cleared(cur.dna) \in Seq(Codon)
    BY <2>4, ClearedDna
  <2>6. [cur EXCEPT !.dna = Cleared(cur.dna)] \in Cell
    BY <2>2, <2>5, CellFields
  <2>7. m \in Name /\ m # me /\ cells[m] = Absent
    BY <1>5 DEF Divide, FreeNames
  <2>8. copying \in Name => copying # m
    BY <2>7
  <2>9. /\ pc = "divide" /\ pc' = "birth" /\ cur' = [cur EXCEPT !.dna = Cleared(cur.dna)]
        /\ UNCHANGED <<code, data, switches, list, brought, first, todo, me, hand, debris, kills>>
    BY <1>5 DEF Divide
  <2>10. TypeOK'
    BY <2>1, <2>2, <2>3, <2>6, <2>7, <2>9
  <2>11. FilesOK'
    BY <2>1, <2>2, <2>7, <2>8, <2>9
  <2> QED
    BY <2>10, <2>11
<1>6. CASE DivideByZero BY <1>6 DEF DivideByZero
<1>7. CASE BirthWrite BY <1>7 DEF BirthWrite
<1>8. CASE TakeCodeFails BY <1>8 DEF TakeCodeFails
<1> QED
  BY <1>1, <1>2, <1>3, <1>4, <1>5, <1>6, <1>7, <1>8

\* Life and death: what is left of the cell, and the file it is saved to.
LEMMA LifeShape ==
  ASSUME Shape,
         Age \/ ReleaseArg \/ ReleaseCodon \/ RemoveCell \/ SaveOpen \/ SaveWrite
  PROVE  Shape'
<1> USE AbsentAssumption
    DEF Shape, TypeOK, MemoryOK, FilesOK, Working, Phases, Whole, Files, files, switches, held,
        memory, Goto
<1>1. CASE Age
  <2>1. cur \in Cell
    BY <1>1 DEF Age
  <2>2. (cur.left - 1) % Word \in 0..Word-1
    <3>1. cur.left - 1 \in Int
      BY <2>1, DnaAssumption, CellFields
    <3> QED
      BY <3>1, DnaAssumption
  <2>3. cur' \in Cell /\ cur'.dna = cur.dna
    BY <1>1, <2>1, <2>2, CellFields DEF Age
  <2> QED
    BY <1>1, <2>3 DEF Age
<1>2. CASE ReleaseArg
  <2>1. cur \in Cell /\ cur.hasArgs > 0
    BY <1>2 DEF ReleaseArg
  <2>2. cur.hasArgs - 1 \in Nat
    BY <2>1, CellFields
  <2>3. cur' = [cur EXCEPT !.hasArgs = cur.hasArgs - 1]
    BY <1>2 DEF ReleaseArg
  <2>4. cur' \in Cell /\ cur'.dna = cur.dna
    BY <2>1, <2>2, <2>3, CellFields
  <2> QED
    BY <1>2, <2>4 DEF ReleaseArg
<1>3. CASE ReleaseCodon
  <2>1. cur \in Cell
    BY <1>3 DEF ReleaseCodon
  <2>2. \A d \in Debris(cur.dna) : cur.dna[d[1]].code \in Code
    BY <2>1, CellFields, DnaTypes
  <2>3. PICK d \in debris : /\ code' = [code EXCEPT ![cur.dna[d[1]].code] = @ + 1]
                           /\ debris' = debris \ {d}
    BY <1>3 DEF ReleaseCodon
  <2>4. code' \in [Code -> Nat]
    BY <1>3, <2>2, <2>3 DEF ReleaseCodon
  <2> QED
    BY <1>3, <2>3, <2>4 DEF ReleaseCodon
<1>4. CASE RemoveCell BY <1>4 DEF RemoveCell
<1>5. CASE SaveOpen BY <1>5 DEF SaveOpen, Open
<1>6. CASE SaveWrite BY <1>6 DEF SaveWrite
<1> QED
  BY <1>1, <1>2, <1>3, <1>4, <1>5, <1>6

\* The user, the kill, and a step that changes nothing.
LEMMA UserShape ==
  ASSUME Shape, User \/ Kill \/ UNCHANGED vars
  PROVE  Shape'
<1> USE AbsentAssumption
    DEF Shape, TypeOK, MemoryOK, FilesOK, Working, Phases, Whole, Files, files, switches, held,
        memory, Goto, EndWith
<1>1. CASE Start BY <1>1 DEF Start, Alive
<1>2. CASE Stop BY <1>2 DEF Stop
<1>3. CASE SwitchEndless BY <1>3 DEF SwitchEndless
<1>4. CASE SupplyOpen BY <1>4 DEF SupplyOpen
<1>5. CASE SupplyWrite BY <1>5 DEF SupplyWrite
<1>6. CASE PlaceOpen BY <1>6 DEF PlaceOpen
<1>7. CASE PlaceWrite
  <2>1. PICK c \in Visitors : /\ cells' = [cells EXCEPT ![copying] = c]
                              /\ brought' = brought \cup Codes(c.dna)
    BY <1>7 DEF PlaceWrite
  <2>2. c \in Cell /\ Codes(c.dna) \subseteq Code
    BY SysEnvAssumption, CodesTypes DEF Founder
  <2> QED
    BY <1>7, <2>1, <2>2 DEF PlaceWrite
<1>8. CASE RequestUpdate BY <1>8 DEF RequestUpdate
<1>9. CASE Kill BY <1>9 DEF Kill
<1>10. CASE UNCHANGED vars BY <1>10 DEF vars
<1> QED
  BY <1>1, <1>2, <1>3, <1>4, <1>5, <1>6, <1>7, <1>8, <1>9, <1>10 DEF User

LEMMA NextShape == Shape /\ [Next]_vars => Shape'
BY MainShape, MetabolismShape, GrowthShape, LifeShape, UserShape DEF Next, Process

(***************************************************************************)
(* Whatever the user does at whatever moment, and however often the        *)
(* process is killed, the struct in memory belongs to the cell whose turn  *)
(* it is, its file is torn exactly while it is being written, and the      *)
(* file of a child waits, torn, under a name of its own (cell.c:696-730).  *)
(***************************************************************************)
THEOREM ShapeTheorem == Spec => []Shape
BY InitShape, NextShape, PTL DEF Spec

-----------------------------------------------------------------------------
(* Torn files *)

\* The files left torn by a kill: nobody is writing them.
Left == {n \in Name : cells[n] = Torn} \ {me, kidName, copying}

\* No step of the program or of the user leaves one; a kill leaves at most one.
LEMMA LeftStep ==
  ASSUME Shape, [Next]_vars
  PROVE  \/ Left' \subseteq Left /\ kills' = kills
         \/ Kill /\ kills' = kills + 1 /\ \E m \in {me, kidName} : Left' \subseteq Left \cup {m}
<1> DEFINE Goal == Left' \subseteq Left /\ kills' = kills
<1> USE AbsentAssumption
    DEF Left, Shape, TypeOK, MemoryOK, FilesOK, Working, Whole, Files, files, switches, held,
        memory, Goto, EndWith, Fail
<1>1. ASSUME \/ CheckRunning \/ NoCells \/ ScanCells \/ UpdateList \/ UpdateListFails
             \/ KeepList \/ RemoveUpdateCode \/ EndCycle
             \/ NeedsNoArgs \/ ArgsFull \/ TakeArg \/ MissArg
             \/ SaveOutput \/ CheckEndless \/ ExitCheck \/ ExitRemove \/ ExitRemoveFails
             \/ TakeCode \/ TakeCodeFails \/ MissCode \/ BondCode \/ ReleaseCode
             \/ DivideByZero \/ Age \/ ReleaseArg \/ ReleaseCodon
      PROVE  Goal
  <2>1. cells' = cells /\ kills' = kills /\ copying' = copying
    BY <1>1 DEF CheckRunning, NoCells, ScanCells, UpdateList, UpdateListFails, KeepList,
       RemoveUpdateCode, EndCycle, NeedsNoArgs, ArgsFull, TakeArg, MissArg, SaveOutput,
       CheckEndless, ExitCheck, ExitRemove, ExitRemoveFails, TakeCode, TakeCodeFails, MissCode,
       BondCode, ReleaseCode, DivideByZero, Age, ReleaseArg, ReleaseCodon
  <2>2. (me' = me /\ kidName' = kidName) \/ pc \notin {"evalWrite", "saveWrite", "birth"}
    BY <1>1 DEF CheckRunning, NoCells, ScanCells, UpdateList, UpdateListFails, KeepList,
       RemoveUpdateCode, EndCycle, NeedsNoArgs, ArgsFull, TakeArg, MissArg, SaveOutput,
       CheckEndless, ExitCheck, ExitRemove, ExitRemoveFails, TakeCode, TakeCodeFails, MissCode,
       BondCode, ReleaseCode, DivideByZero, Age, ReleaseArg, ReleaseCodon
  <2> QED
    BY <2>1, <2>2
<1>2. CASE Load BY <1>2 DEF Load
<1>3. CASE EvalOpen BY <1>3 DEF EvalOpen, Open
<1>4. CASE EvalWrite BY <1>4 DEF EvalWrite
<1>5. CASE Evaluated BY <1>5 DEF Evaluated
<1>6. CASE ExecCell BY <1>6 DEF ExecCell
<1>7. CASE Divide BY <1>7 DEF Divide, FreeNames
<1>8. CASE BirthWrite BY <1>8 DEF BirthWrite
<1>9. CASE RemoveCell BY <1>9 DEF RemoveCell
<1>10. CASE SaveOpen BY <1>10 DEF SaveOpen, Open
<1>11. CASE SaveWrite BY <1>11 DEF SaveWrite
<1>12. CASE User
  <2>1. CASE PlaceOpen BY <2>1 DEF PlaceOpen
  <2>2. CASE PlaceWrite
    <3>1. PICK c \in Visitors : cells' = [cells EXCEPT ![copying] = c]
      BY <2>2 DEF PlaceWrite
    <3>2. c # Torn
      BY SysEnvAssumption DEF Founder
    <3> QED
      BY <2>2, <3>1, <3>2 DEF PlaceWrite
  <2>3. CASE SupplyOpen BY <2>3 DEF SupplyOpen
  <2>4. CASE SupplyWrite BY <2>4 DEF SupplyWrite
  <2> QED
    BY <1>12, <2>1, <2>2, <2>3, <2>4 DEF User, Start, Stop, SwitchEndless, RequestUpdate
<1>13. CASE Kill BY <1>13 DEF Kill
<1>14. CASE UNCHANGED vars BY <1>14 DEF vars
<1> QED
  BY <1>1, <1>2, <1>3, <1>4, <1>5, <1>6, <1>7, <1>8, <1>9, <1>10, <1>11, <1>12, <1>13, <1>14
     DEF Next, Process

LEMMA LeftFinite == IsFiniteSet(Left) /\ Cardinality(Left) \in Nat
BY SysEnvAssumption, FS_Subset, FS_CardinalityType DEF Left

LEMMA NextTornFiles == Shape /\ TornFiles /\ [Next]_vars => TornFiles'
<1> SUFFICES ASSUME Shape, TornFiles, [Next]_vars
             PROVE  Cardinality(Left') <= kills'
  BY DEF TornFiles, Left
<1>1. IsFiniteSet(Left) /\ Cardinality(Left) \in Nat /\ Cardinality(Left) <= kills
  BY LeftFinite DEF TornFiles, Left
<1>2. IsFiniteSet(Left') /\ Cardinality(Left') \in Nat
  BY SysEnvAssumption, FS_Subset, FS_CardinalityType DEF Left
<1>3. kills \in Nat
  BY DEF Shape, TypeOK
<1>4. CASE Left' \subseteq Left /\ kills' = kills
  BY <1>1, <1>2, <1>3, <1>4, FS_Subset
<1>5. CASE kills' = kills + 1 /\ \E m \in {me, kidName} : Left' \subseteq Left \cup {m}
  <2>1. PICK m : Left' \subseteq Left \cup {m}
    BY <1>5
  <2>2. /\ IsFiniteSet(Left \cup {m})
        /\ Cardinality(Left \cup {m}) \in Nat
        /\ Cardinality(Left \cup {m}) <= Cardinality(Left) + 1
    BY <1>1, FS_AddElement
  <2>3. Cardinality(Left') <= Cardinality(Left \cup {m})
    BY <2>1, <2>2, FS_Subset
  <2> QED
    BY <1>1, <1>2, <1>3, <1>5, <2>2, <2>3
<1> QED
  BY <1>4, <1>5, LeftStep

(***************************************************************************)
(* However many cells are born, saved, evaluated and removed, and wherever *)
(* the program aborts, the files without content are the ones being        *)
(* written and at most one for each kill (cell.c:696-730, sysenv.c:85).    *)
(***************************************************************************)
THEOREM TornTheorem == Spec => []TornFiles
<1>1. Init => TornFiles
  <2> SUFFICES ASSUME Init PROVE Cardinality(Left) <= kills
    BY DEF TornFiles, Left
  <2>1. Left = {}
    BY SysEnvAssumption, AbsentAssumption DEF Init, Left
  <2> QED
    BY <2>1, FS_EmptySet DEF Init
<1> QED
  BY <1>1, ShapeTheorem, NextTornFiles, PTL DEF Spec

-----------------------------------------------------------------------------
(* What a torn file stops *)

\* The inductive invariant: a torn file is found by a process that has not
\* yet built its list, and that is going to load it when it does.
Blocked ==
  Left # {} => /\ first /\ pc \in {"off", "failed", "check", "scan", "codes"}
               /\ pc = "codes" => Left \subseteq todo

LEMMA NextBlocked == Shape /\ Blocked /\ [Next]_vars => Blocked'
<1> SUFFICES ASSUME Shape, Blocked, [Next]_vars, Left' # {}
             PROVE  /\ first' /\ pc' \in {"off", "failed", "check", "scan", "codes"}
                    /\ pc' = "codes" => Left' \subseteq todo'
  BY DEF Blocked
<1>1. CASE Kill
  BY <1>1 DEF Kill, EndWith, Goto
<1>2. CASE ~Kill
  <2>1. /\ Left # {} /\ first /\ pc \in {"off", "failed", "check", "scan", "codes"}
        /\ Left' \subseteq Left
        /\ pc = "codes" => Left \subseteq todo
    BY <1>2, LeftStep DEF Blocked
  <2>2. me = Nothing /\ kidName = Nothing
    BY <2>1 DEF Shape, TypeOK, MemoryOK, Working
  <2>3. pc = "codes" => ~Loadable
    BY <2>1 DEF Left, Loadable, Whole
  <2>4. CASE User
    BY <2>1, <2>4 DEF User, Start, Stop, SwitchEndless, SupplyOpen, SupplyWrite, PlaceOpen,
       PlaceWrite, RequestUpdate, memory, Goto
  <2>5. CASE \/ CheckRunning \/ NoCells \/ UpdateList \/ UpdateListFails \/ KeepList
    BY <2>1, <2>3, <2>5 DEF CheckRunning, NoCells, UpdateList, UpdateListFails,
       KeepList, MustList, Fail, EndWith, Goto, memory
  <2>8. CASE ScanCells
    <3>1. Left \subseteq Files
      BY AbsentAssumption DEF Left, Files
    <3> QED
      BY <2>1, <2>8, <3>1 DEF ScanCells, Goto
  <2>6. CASE UNCHANGED vars
    BY <2>1, <2>6 DEF vars, memory
  <2>7. ~(\/ RemoveUpdateCode \/ EndCycle \/ Load
          \/ NeedsNoArgs \/ ArgsFull \/ TakeArg \/ MissArg
          \/ EvalOpen \/ EvalWrite \/ Evaluated \/ ExecCell \/ SaveOutput
          \/ CheckEndless \/ ExitCheck \/ ExitRemove \/ ExitRemoveFails
          \/ TakeCode \/ TakeCodeFails \/ MissCode \/ BondCode \/ ReleaseCode
          \/ Divide \/ DivideByZero \/ BirthWrite
          \/ Age \/ ReleaseArg \/ ReleaseCodon \/ RemoveCell \/ SaveOpen \/ SaveWrite)
    BY <2>1 DEF RemoveUpdateCode, EndCycle, Load, NeedsNoArgs, ArgsFull, TakeArg, MissArg,
       EvalOpen, EvalWrite, Evaluated, ExecCell, SaveOutput, CheckEndless, ExitCheck,
       ExitRemove, ExitRemoveFails, TakeCode, TakeCodeFails, MissCode, BondCode, ReleaseCode,
       Divide, DivideByZero, BirthWrite, Age, ReleaseArg, ReleaseCodon, RemoveCell, SaveOpen,
       SaveWrite, Open
  <2> QED
    BY <1>2, <2>4, <2>5, <2>6, <2>7, <2>8 DEF Next, Process
<1> QED
  BY <1>1, <1>2

(***************************************************************************)
(* After a kill in the middle of a write no cell ever has a turn again, in *)
(* this start or in a later one, until someone removes the torn file: the  *)
(* process loads every cell before the first turn (sysenv.c:162-165).      *)
(***************************************************************************)
THEOREM BlockTheorem == Spec => []TornBlocks
<1>1. Init => Blocked
  BY SysEnvAssumption, AbsentAssumption DEF Init, Left, Blocked
<1>2. Blocked => TornBlocks
  BY DEF Blocked, TornBlocks, Left
<1> QED
  BY <1>1, <1>2, ShapeTheorem, NextBlocked, PTL DEF Spec

-----------------------------------------------------------------------------
(* The directory listing *)

LEMMA NextTodo == Shape /\ TornFiles /\ TodoExists /\ [Next]_vars => TodoExists'
<1> SUFFICES ASSUME Shape, TornFiles, TodoExists, [Next]_vars, kills' = 0
             PROVE  /\ \A n \in todo' : Whole(n)' \/ (n = copying' /\ cells'[n] = Torn)
                    /\ me' \notin todo' /\ kidName' \notin todo'
  BY DEF TodoExists
<1> DEFINE Goal == /\ \A n \in todo' : Whole(n)' \/ (n = copying' /\ cells'[n] = Torn)
                   /\ me' \notin todo' /\ kidName' \notin todo'
<1>1. kills = 0 /\ ~Kill
  BY LeftStep DEF Shape, TypeOK, Kill
<1>2. /\ \A n \in todo : Whole(n) \/ (n = copying /\ cells[n] = Torn)
      /\ me \notin todo /\ kidName \notin todo
  BY <1>1 DEF TodoExists
<1>3. Left = {}
  <2>1. IsFiniteSet(Left) /\ Cardinality(Left) \in Nat /\ Cardinality(Left) <= 0
    BY <1>1, LeftFinite DEF TornFiles, Left
  <2> QED
    BY <2>1, FS_EmptySet
<1> USE <1>2, AbsentAssumption
    DEF Shape, TypeOK, MemoryOK, FilesOK, Working, Whole, files, switches, held,
        memory, Goto, EndWith, Fail
<1>4. CASE ScanCells
  BY <1>3, <1>4 DEF ScanCells, Files, Left
<1>5. ASSUME \/ CheckRunning \/ NoCells \/ UpdateList \/ UpdateListFails
             \/ KeepList \/ RemoveUpdateCode \/ EndCycle
             \/ NeedsNoArgs \/ ArgsFull \/ TakeArg \/ MissArg
             \/ SaveOutput \/ CheckEndless \/ ExitCheck \/ ExitRemove \/ ExitRemoveFails
             \/ TakeCode \/ TakeCodeFails \/ MissCode \/ BondCode \/ ReleaseCode
             \/ DivideByZero \/ Age \/ ReleaseArg \/ ReleaseCodon
      PROVE  Goal
  <2>1. cells' = cells /\ copying' = copying
    BY <1>5 DEF CheckRunning, NoCells, UpdateList, UpdateListFails, KeepList,
       RemoveUpdateCode, EndCycle, NeedsNoArgs, ArgsFull, TakeArg, MissArg, SaveOutput,
       CheckEndless, ExitCheck, ExitRemove, ExitRemoveFails, TakeCode, TakeCodeFails, MissCode,
       BondCode, ReleaseCode, DivideByZero, Age, ReleaseArg, ReleaseCodon
  <2>2. (me' = me /\ kidName' = kidName /\ todo' = todo) \/ todo' = {}
    BY <1>5 DEF CheckRunning, NoCells, UpdateList, UpdateListFails, KeepList,
       RemoveUpdateCode, EndCycle, NeedsNoArgs, ArgsFull, TakeArg, MissArg, SaveOutput,
       CheckEndless, ExitCheck, ExitRemove, ExitRemoveFails, TakeCode, TakeCodeFails, MissCode,
       BondCode, ReleaseCode, DivideByZero, Age, ReleaseArg, ReleaseCodon
  <2> QED
    BY <2>1, <2>2
<1>6. CASE Load BY <1>6 DEF Load
<1>7. CASE EvalOpen BY <1>7 DEF EvalOpen, Open
<1>8. CASE EvalWrite BY <1>8 DEF EvalWrite
<1>9. CASE Evaluated BY <1>9 DEF Evaluated
<1>10. CASE ExecCell BY <1>10 DEF ExecCell
<1>11. CASE Divide BY <1>11 DEF Divide, FreeNames, Files
<1>12. CASE BirthWrite BY <1>12 DEF BirthWrite
<1>13. CASE RemoveCell BY <1>13 DEF RemoveCell
<1>14. CASE SaveOpen BY <1>14 DEF SaveOpen, Open
<1>15. CASE SaveWrite BY <1>15 DEF SaveWrite
<1>16. CASE User
  <2>1. CASE PlaceOpen
    <3>1. PICK m \in Name \ Files : copying' = m /\ cells' = [cells EXCEPT ![m] = Torn]
      BY <2>1 DEF PlaceOpen
    <3>2. m \notin todo
      BY <2>1, <3>1 DEF PlaceOpen, Files
    <3> QED
      BY <2>1, <3>1, <3>2 DEF PlaceOpen
  <2>2. CASE PlaceWrite
    <3>1. PICK c \in Visitors : cells' = [cells EXCEPT ![copying] = c]
      BY <2>2 DEF PlaceWrite
    <3>2. c # Torn /\ c # Absent
      BY SysEnvAssumption DEF Founder
    <3> QED
      BY <2>2, <3>1, <3>2 DEF PlaceWrite
  <2>3. CASE SupplyOpen BY <2>3 DEF SupplyOpen
  <2>4. CASE SupplyWrite BY <2>4 DEF SupplyWrite
  <2> QED
    BY <1>16, <2>1, <2>2, <2>3, <2>4 DEF User, Start, Stop, SwitchEndless, RequestUpdate
<1>17. CASE UNCHANGED vars BY <1>17 DEF vars
<1> QED
  BY <1>1, <1>4, <1>5, <1>6, <1>7, <1>8, <1>9, <1>10, <1>11, <1>12, <1>13, <1>14, <1>15,
     <1>16, <1>17 DEF Next, Process

(***************************************************************************)
(* The listing that scandir made at the start of a cycle stays good to its *)
(* end: a death removes only the cell whose turn it is, a birth takes a    *)
(* name that no waiting cell has (sysenv.c:149-177, cell.c:696-710).       *)
(***************************************************************************)
THEOREM TodoTheorem == Spec => []TodoExists
<1>1. Init => TodoExists
  BY DEF Init, TodoExists
<1> QED
  BY <1>1, ShapeTheorem, TornTheorem, NextTodo, PTL DEF Spec

-----------------------------------------------------------------------------
(* The list of all codes *)

\* Where the list of this start has been built.
Listed == ~first \/ pc \in {"unflag", "turn"} \cup Working

\* The inductive invariant: every instruction of every DNA that may come to be
\* divided is in it, or came later.
Known ==
  /\ \A n \in Name : Whole(n) => Codes(cells[n].dna) \subseteq list \cup brought
  /\ cur # Nothing => Codes(cur.dna) \subseteq list \cup brought
  /\ kid # Nothing => Codes(kid.dna) \subseteq list \cup brought

\* Rebuilding the list makes it so.
LEMMA UpdateKnown ==
  ASSUME Shape, UpdateList
  PROVE  Known'
<1>1. /\ cells' = cells /\ cur' = Nothing /\ kid' = Nothing
      /\ list' = ListedCodes /\ brought' = LateCodes
  BY DEF Shape, TypeOK, FilesOK, MemoryOK, Working, UpdateList, files, held
<1>2. \A n \in Name : Whole(n) => Codes(cells[n].dna) \subseteq ListedCodes \cup LateCodes
  BY DEF LateCodes
<1> QED
  BY <1>1, <1>2 DEF Known, Whole

LEMMA NextKnown == Shape /\ (Listed => Known) /\ [Next]_vars => (Listed => Known)'
<1> SUFFICES ASSUME Shape, Listed => Known, [Next]_vars, Listed'
             PROVE  Known'
  OBVIOUS
<1> USE AbsentAssumption
<1>1. CASE UpdateList
  BY <1>1, UpdateKnown
<1>2. CASE CheckRunning \/ NoCells \/ UpdateListFails \/ ArgsFull \/ ExitRemoveFails
           \/ TakeCodeFails \/ DivideByZero \/ Kill
  BY <1>2 DEF Listed, CheckRunning, NoCells, UpdateListFails, ArgsFull, ExitRemoveFails,
     TakeCodeFails, DivideByZero, Kill, Fail, EndWith, Goto, Working, Known, Whole, files, memory, held
<1>3. ASSUME \/ ScanCells \/ KeepList \/ RemoveUpdateCode \/ EndCycle
             \/ NeedsNoArgs \/ MissArg \/ SaveOutput \/ CheckEndless
             \/ ExitCheck \/ ExitRemove \/ TakeCode \/ MissCode \/ ReleaseCode
             \/ ReleaseCodon \/ Start \/ Stop \/ SwitchEndless \/ SupplyOpen \/ SupplyWrite
             \/ RequestUpdate \/ UNCHANGED vars
      PROVE  Known'
  <2>1. cells' = cells /\ cur' = cur /\ kid' = kid /\ list' = list /\ brought' = brought
    BY <1>3 DEF ScanCells, KeepList, RemoveUpdateCode, EndCycle, NeedsNoArgs, MissArg,
       SaveOutput, CheckEndless, ExitCheck, ExitRemove, TakeCode, MissCode, ReleaseCode,
       ReleaseCodon, Start, Stop, SwitchEndless, SupplyOpen, SupplyWrite, RequestUpdate, vars,
       files, memory, held
  <2>2. Listed
    BY <1>3 DEF Listed, ScanCells, KeepList, RemoveUpdateCode, EndCycle, NeedsNoArgs, MissArg,
       SaveOutput, CheckEndless, ExitCheck, ExitRemove, TakeCode, MissCode, ReleaseCode,
       ReleaseCodon, Start, Stop, SwitchEndless, SupplyOpen, SupplyWrite, RequestUpdate, vars,
       memory, Working, MustList, Goto
  <2> QED
    BY <2>1, <2>2 DEF Known, Whole
<1>4. CASE Load \/ Evaluated \/ TakeArg \/ Age \/ ReleaseArg \/ BondCode
  <2>1. Known /\ ((cells' = cells /\ list' = list /\ brought' = brought) \/ ~Listed')
    BY <1>4 DEF Listed, Load, Evaluated, TakeArg, Age, ReleaseArg, BondCode, Fail, EndWith,
       Goto, Working, files
  <2>2. kid' = kid \/ kid' = Nothing
    BY <1>4 DEF Load, Evaluated, TakeArg, Age, ReleaseArg, BondCode, Fail, EndWith
  <2>3. cur' # Nothing => \/ Codes(cur'.dna) = Codes(cur.dna) /\ cur # Nothing
                          \/ \E n \in Name : Whole(n) /\ Codes(cur'.dna) = Codes(cells[n].dna)
    <3>1. CASE Load
      BY <3>1 DEF Load, Fail, EndWith, Shape, TypeOK, MemoryOK
    <3>2. CASE Evaluated
      <4>1. me \in Name /\ cells[me] \in Cell
        BY <3>2 DEF Evaluated, Shape, TypeOK, MemoryOK, FilesOK, Working, Whole
      <4>2. \A r \in EvalResults : Accepted(r) => [cells[me] EXCEPT !.fitness = r].dna = cells[me].dna
        BY <4>1, SysEnvAssumption, CellFields DEF Accepted
      <4> QED
        BY <3>2, <4>1, <4>2 DEF Evaluated, Fail, EndWith, Whole
    <3>3. CASE TakeArg \/ Age \/ ReleaseArg
      <4>1. cur \in Cell
        BY <3>3 DEF TakeArg, Age, ReleaseArg, Shape, TypeOK, MemoryOK, Working
      <4>2. cur'.dna = cur.dna
        BY <3>3, <4>1 DEF TakeArg, Age, ReleaseArg, Cell
      <4> QED
        BY <4>1, <4>2
    <3>4. CASE BondCode
      <4>1. cur \in Cell
        BY <3>4 DEF BondCode, Shape, TypeOK, MemoryOK, Working
      <4>2. PICK i \in DOMAIN cur.dna : cur' = [cur EXCEPT !.dna = Bonded(cur.dna, i)]
        BY <3>4 DEF BondCode
      <4>3. cur.dna \in Seq(Codon)
        BY <4>1, CellFields
      <4>4. Bonded(cur.dna, i) \in Seq(Codon) /\ Codes(Bonded(cur.dna, i)) = Codes(cur.dna)
        BY <4>3, BondedDna, BondedCodes
      <4>5. cur'.dna = Bonded(cur.dna, i)
        BY <4>1, <4>2, <4>4, CellFields
      <4> QED
        BY <4>1, <4>4, <4>5
    <3> QED
      BY <1>4, <3>1, <3>2, <3>3, <3>4
  <2> QED
    BY <2>1, <2>2, <2>3 DEF Known, Whole
<1>5. CASE EvalOpen \/ SaveOpen
  BY <1>5 DEF EvalOpen, SaveOpen, Open, Known, Listed, Working, Goto, memory, held, Whole,
     Shape, TypeOK, MemoryOK
<1>6. CASE EvalWrite \/ SaveWrite \/ BirthWrite \/ RemoveCell
  BY <1>6 DEF EvalWrite, SaveWrite, BirthWrite, RemoveCell, Known, Listed, Working, Goto,
     memory, held, Whole, Shape, TypeOK, MemoryOK
<1>7. CASE ExecCell
  <2>1. me \in Name /\ cells[me] \in Cell /\ Known
    BY <1>7 DEF ExecCell, Shape, TypeOK, MemoryOK, FilesOK, Working, Whole, Listed
  <2>2. [cells[me] EXCEPT !.hasArgs = 0] \in Cell /\ [cells[me] EXCEPT !.hasArgs = 0].dna = cells[me].dna
    BY <2>1, CellFields
  <2>3. \A n \in Name : Whole(n)' => Whole(n) /\ cells'[n].dna = cells[n].dna
    BY <1>7, <2>1, <2>2 DEF ExecCell, Whole, Shape, TypeOK
  <2> QED
    BY <1>7, <2>1, <2>3 DEF ExecCell, Known, memory, held
<1>8. CASE Divide
  <2>1. PICK m \in FreeNames,
             child \in Children(cur, list, Len(cur.dna) < MaxDna /\ Room) :
          /\ kid' = Newborn(child)
          /\ cells' = [cells EXCEPT ![m] = Torn]
    BY <1>8 DEF Divide
  <2>2. cur \in Cell /\ list \in SUBSET Code /\ Known /\ list' = list /\ brought' = brought
    BY <1>8 DEF Divide, Shape, TypeOK, MemoryOK, Working, Listed
  <2>3. cur.dna \in Seq(Codon)
    BY <2>2, CellFields
  <2>4. cur' = [cur EXCEPT !.dna = Cleared(cur.dna)]
    BY <1>8 DEF Divide
  <2>5. Codes(cur'.dna) = Codes(cur.dna)
    <3>1. Cleared(cur.dna) \in Seq(Codon) /\ Codes(Cleared(cur.dna)) = Codes(cur.dna)
      BY <2>3, ClearedDna, ClearedCodes
    <3> QED
      BY <2>2, <2>4, <3>1, CellFields
  <2>6. Codes(kid'.dna) \subseteq Codes(cur.dna) \cup list
    <3>1. child.dna \in NewDnas(cur.dna, list, Len(cur.dna) < MaxDna /\ Room)
            /\ View(Newborn(child)) = View(child)
      BY <2>2, ChildIsCell
    <3>2. Codes(child.dna) \subseteq Codes(cur.dna) \cup list
      BY <2>2, <2>3, <3>1, NewDna
    <3> QED
      BY <2>1, <3>1, <3>2 DEF View
  <2>7. Codes(cur.dna) \subseteq list \cup brought
    BY <2>2 DEF Known
  <2>8. \A n \in Name : Whole(n)' => Whole(n) /\ cells'[n] = cells[n]
    BY <2>1 DEF Whole, FreeNames, Shape, TypeOK
  <2> QED
    BY <2>2, <2>5, <2>6, <2>7, <2>8 DEF Known
<1>9. CASE PlaceOpen
  <2>1. /\ cur' = cur /\ kid' = kid /\ list' = list /\ brought' = brought
        /\ first' = first /\ pc' = pc
    BY <1>9 DEF PlaceOpen, memory, held
  <2>2. PICK n \in Name \ Files : cells' = [cells EXCEPT ![n] = Torn]
    BY <1>9 DEF PlaceOpen
  <2>3. \A m \in Name : Whole(m)' => Whole(m) /\ cells'[m] = cells[m]
    BY <2>2 DEF Whole, Shape, TypeOK
  <2> QED
    BY <2>1, <2>3 DEF Known, Listed
<1>10. CASE PlaceWrite
  <2>1. /\ cur' = cur /\ kid' = kid /\ list' = list /\ copying \in Name
        /\ first' = first /\ pc' = pc
    BY <1>10 DEF PlaceWrite, held
  <2>2. PICK c \in Visitors : /\ cells' = [cells EXCEPT ![copying] = c]
                              /\ brought' = brought \cup Codes(c.dna)
    BY <1>10 DEF PlaceWrite
  <2>3. cells'[copying] = c /\ \A m \in Name : m # copying => cells'[m] = cells[m]
    BY <2>1, <2>2 DEF Shape, TypeOK
  <2>4. Known
    BY <2>1 DEF Listed
  <2>5. \A m \in Name : Whole(m)' => Codes(cells'[m].dna) \subseteq list \cup brought'
    BY <2>2, <2>3, <2>4 DEF Known, Whole
  <2> QED
    BY <2>1, <2>2, <2>4, <2>5 DEF Known
<1> QED
  BY <1>1, <1>2, <1>3, <1>4, <1>5, <1>6, <1>7, <1>8, <1>9, <1>10 DEF Next, Process, User

(***************************************************************************)
(* A division finds every instruction of the dividing cell in the list     *)
(* mutation draws from, however often update_code was placed or forgotten, *)
(* but for those that cells brought which the user placed after the        *)
(* directory was read for the list (sysenv.c:149-177, docs/tips.md:54-56). *)
(* So only such a cell can find the list empty (sysenv.c:282).             *)
(***************************************************************************)
THEOREM ListTheorem == Spec => []ListReady
<1>1. Init => (Listed => Known)
  BY DEF Init, Listed, Working
<1>2. Shape /\ (Listed => Known) => ListReady
  BY AbsentAssumption DEF Shape, TypeOK, MemoryOK, Working, Listed, Known, ListReady
<1> QED
  BY <1>1, <1>2, ShapeTheorem, NextKnown, PTL DEF Spec

-----------------------------------------------------------------------------
(* Bonds and life *)

LEMMA AddOne ==
  ASSUME NEW S, IsFiniteSet(S), NEW x
  PROVE  /\ IsFiniteSet(S \cup {x})
         /\ Cardinality(S \cup {x}) <= Cardinality(S) + 1
         /\ Cardinality(S \cup {x}) \in Nat
<1>1. IsFiniteSet(S \cup {x}) /\ Cardinality(S \cup {x}) \in Nat /\ Cardinality(S) \in Nat
  BY FS_AddElement, FS_CardinalityType
<1>2. Cardinality(S \cup {x}) = IF x \in S THEN Cardinality(S) ELSE Cardinality(S) + 1
  BY FS_AddElement
<1> QED
  BY <1>1, <1>2

LEMMA BondsType ==
  ASSUME NEW c \in Cell
  PROVE  /\ Bonds(c) \in Nat
         /\ IsFiniteSet({i \in DOMAIN c.dna : c.dna[i].buffered})
         /\ c.life \in Int /\ c.left \in Int /\ Len(c.dna) \in Nat
<1>1. c.dna \in Seq(Codon) /\ c.life \in Int /\ c.left \in Int
  BY CellFields, DnaAssumption
<1>2. DOMAIN c.dna = 1..Len(c.dna) /\ Len(c.dna) \in Nat
  BY <1>1
<1>3. IsFiniteSet(DOMAIN c.dna)
  BY <1>2, FS_Interval
<1>4. {i \in DOMAIN c.dna : c.dna[i].buffered} \subseteq DOMAIN c.dna
  OBVIOUS
<1> QED
  BY <1>1, <1>2, <1>3, <1>4, FS_Subset, FS_CardinalityType DEF Bonds

\* A compound more is one bond more.
LEMMA BondsBonded ==
  ASSUME NEW c \in Cell, NEW i \in DOMAIN c.dna, NEW d, d.dna = Bonded(c.dna, i)
  PROVE  Bonds(d) <= Bonds(c) + 1
<1> DEFINE B == {j \in DOMAIN c.dna : c.dna[j].buffered}
<1>1. IsFiniteSet(B) /\ Cardinality(B) \in Nat /\ Cardinality(B) = Bonds(c)
  BY BondsType DEF Bonds
<1>2. {j \in DOMAIN d.dna : d.dna[j].buffered} \subseteq B \cup {i}
  BY DEF Bonded
<1>3. IsFiniteSet(B \cup {i}) /\ Cardinality(B \cup {i}) <= Cardinality(B) + 1
        /\ Cardinality(B \cup {i}) \in Nat
  BY <1>1, AddOne
<1>4. /\ Cardinality({j \in DOMAIN d.dna : d.dna[j].buffered}) <= Cardinality(B \cup {i})
      /\ Cardinality({j \in DOMAIN d.dna : d.dna[j].buffered}) \in Nat
  BY <1>2, <1>3, FS_Subset, FS_CardinalityType
<1> QED
  BY <1>1, <1>3, <1>4 DEF Bonds

\* A copy and a child have none.
LEMMA BondsFresh ==
  ASSUME NEW c, \A i \in DOMAIN c.dna : ~c.dna[i].buffered
  PROVE  Bonds(c) = 0
<1>1. {i \in DOMAIN c.dna : c.dna[i].buffered} = {}
  OBVIOUS
<1> QED
  BY <1>1, FS_EmptySet DEF Bonds

\* A cell with a cycle left to live that has bonded a compound in each of the
\* cycles it has lived, and ahead more, at the most.
Paced(c, ahead) ==
  /\ Len(c.dna) <= MaxDna
  /\ c.left \in 1..c.life
  /\ Bonds(c) <= c.life - c.left + ahead

\* The inductive invariant: a turn bonds one compound, and ends a cycle later.
Pace ==
  /\ \A n \in Name : Whole(n) => Paced(cells[n], 0)
  /\ pc \in Working \ {"divide", "birth", "age", "release"} => Paced(cur, 0)
  /\ pc \in {"divide", "birth", "age"} => Paced(cur, 1)
  /\ pc = "release" => Bonds(cur) <= cur.life - cur.left + 1
  /\ pc = "birth" => Paced(kid, 0)

\* It tells from a cell what Ecosystem sees of it.
LEMMA PacedView ==
  ASSUME NEW c, NEW d, View(d) = View(c)
  PROVE  \A k : Paced(c, k) <=> Paced(d, k)
<1>1. d.dna = c.dna /\ d.life = c.life /\ d.left = c.left
  BY DEF View
<1> QED
  BY <1>1 DEF Paced, Bonds

LEMMA PacedMore ==
  ASSUME NEW c \in Cell, Paced(c, 0)
  PROVE  Paced(c, 1)
<1>1. Bonds(c) \in Nat /\ c.life \in Int /\ c.left \in Int
  BY BondsType
<1> QED
  BY <1>1 DEF Paced

\* A child starts with a life of its own and no compound.
LEMMA ChildPaced ==
  ASSUME NEW c \in Cell, Paced(c, 1), NEW all \in SUBSET Code, NEW growing \in BOOLEAN,
         growing => Len(c.dna) < MaxDna, NEW child \in Children(c, all, growing)
  PROVE  Paced(Newborn(child), 0)
<1> DEFINE kidd == Newborn(child)
<1>1. /\ kidd \in Cell /\ View(kidd) = View(child)
      /\ child.dna \in NewDnas(c.dna, all, growing)
      /\ child.left = child.life
      /\ child.life = c.life \/ child.life = LifeOf(Len(child.dna))
  BY ChildIsCell
<1>2. kidd.dna = child.dna /\ kidd.left = child.left /\ kidd.life = child.life
  BY <1>1 DEF View
<1>3. c.dna \in Seq(Codon) /\ c.life \in Int /\ c.left \in Int /\ Len(c.dna) \in Nat /\ MaxDna \in Nat
  BY CellFields, BondsType, SysEnvAssumption
<1>4. /\ child.dna \in Seq(Codon)
      /\ Len(child.dna) <= Len(c.dna) + 1 /\ (growing \/ Len(child.dna) <= Len(c.dna))
      /\ \A j \in DOMAIN child.dna : ~child.dna[j].buffered
  BY <1>1, <1>3, NewDna
<1>5. Len(child.dna) \in 0..MaxDna
  BY <1>3, <1>4 DEF Paced
<1>6. LifeOf(Len(child.dna)) \in 0..Word-1 /\ LifeOf(Len(child.dna)) # 0
  <2>1. Len(child.dna) \in Nat
    BY <1>4
  <2>2. LifeOf(Len(child.dna)) # 0
    BY <1>5, SysEnvAssumption
  <2> QED
    BY <2>1, <2>2, LifeOfWord
<1>7. child.life >= 1 /\ child.life \in Int
  BY <1>1, <1>3, <1>6, DnaAssumption DEF Paced
<1>8. Bonds(kidd) = 0
  BY <1>2, <1>4, BondsFresh
<1> QED
  BY <1>1, <1>2, <1>5, <1>7, <1>8 DEF Paced

\* So does a cell that is there at the start, or that the user places.
LEMMA FounderPaced ==
  ASSUME NEW c, Founder(c)
  PROVE  c \in Cell /\ Paced(c, 0)
<1>1. Eco!Founder(View(c)) /\ Bonds(c) <= c.life - c.left /\ c \in Cell
  BY DEF Founder
<1>2. Len(View(c).dna) <= MaxDna /\ View(c).left \in 1..View(c).life
  BY <1>1 DEF Eco!Founder
<1>3. c.dna = View(c).dna /\ c.left = View(c).left /\ c.life = View(c).life
  BY DEF View
<1>4. Bonds(c) \in Nat /\ c.life \in Int /\ c.left \in Int
  BY <1>1, BondsType
<1> QED
  BY <1>1, <1>2, <1>3, <1>4 DEF Paced

LEMMA InitPace == Init => Pace
<1> SUFFICES ASSUME Init, NEW n \in Name, Whole(n)
             PROVE  Paced(cells[n], 0)
  BY DEF Init, Pace, Working
<1>1. Founder(cells[n])
  BY SysEnvAssumption DEF Init, Whole
<1> QED
  BY <1>1, FounderPaced

\* One step keeps it so: one compound in a turn, and a cycle of the life.
LEMMA NextPace == Shape /\ Pace /\ [Next]_vars => Pace'
<1> SUFFICES ASSUME Shape, Pace, [Next]_vars
             PROVE  Pace'
  OBVIOUS
<1> DEFINE Kept == \A n \in Name : (Whole(n) => Paced(cells[n], 0))'
           Early == Working \ {"divide", "birth", "age", "release"}
<1>0. /\ \A n \in Name : Whole(n) => Paced(cells[n], 0)
      /\ pc \in Early => Paced(cur, 0)
      /\ pc \in {"divide", "birth", "age"} => Paced(cur, 1)
      /\ pc = "release" => Bonds(cur) <= cur.life - cur.left + 1
      /\ pc = "birth" => Paced(kid, 0)
  BY DEF Pace
<1>1. CASE \/ CheckRunning \/ NoCells \/ ScanCells \/ UpdateList \/ UpdateListFails
           \/ KeepList \/ RemoveUpdateCode \/ EndCycle \/ ArgsFull \/ ExitRemoveFails
           \/ TakeCodeFails \/ DivideByZero \/ Start \/ Kill
  <2>1. cells' = cells /\ pc' \notin Working
    BY <1>1 DEF CheckRunning, NoCells, ScanCells, UpdateList, UpdateListFails,
       KeepList, RemoveUpdateCode, EndCycle, ArgsFull, ExitRemoveFails, TakeCodeFails,
       DivideByZero, Start, Kill, Fail, EndWith, Goto, files, Working
  <2> QED
    BY <1>0, <2>1 DEF Pace, Whole, Working
<1>2. CASE NeedsNoArgs \/ MissArg \/ SaveOutput \/ CheckEndless \/ ExitCheck \/ ExitRemove
           \/ TakeCode
  <2>1. cells' = cells /\ cur' = cur /\ pc \in Early /\ pc' \in Early
    BY <1>2 DEF NeedsNoArgs, MissArg, SaveOutput, CheckEndless, ExitCheck, ExitRemove, TakeCode,
       Goto, files, memory, held, Working
  <2> QED
    BY <1>0, <2>1 DEF Pace, Whole
<1>3. CASE \/ Stop \/ SwitchEndless \/ SupplyOpen \/ SupplyWrite \/ RequestUpdate
           \/ UNCHANGED vars \/ ReleaseCodon
  <2>1. cells' = cells /\ cur' = cur /\ kid' = kid /\ pc' = pc
    BY <1>3 DEF Stop, SwitchEndless, SupplyOpen, SupplyWrite, RequestUpdate, vars, ReleaseCodon,
       files, memory, held
  <2> QED
    BY <1>0, <2>1 DEF Pace, Whole
<1>4. CASE MissCode \/ ReleaseCode
  <2>1. cells' = cells /\ cur' = cur /\ pc \in Early /\ pc' \in {"divide", "age"}
    BY <1>4 DEF MissCode, ReleaseCode, Goto, files, memory, held, Working
  <2>2. cur \in Cell
    BY <2>1 DEF Shape, TypeOK, MemoryOK
  <2>3. Paced(cur, 1)
    BY <1>0, <2>1, <2>2, PacedMore
  <2> QED
    BY <1>0, <2>1, <2>3 DEF Pace, Whole, Working
<1>5. CASE BondCode
  <2>1. PICK i \in DOMAIN cur.dna : cur' = [cur EXCEPT !.dna = Bonded(cur.dna, i)]
    BY <1>5 DEF BondCode
  <2>2. pc \in Early /\ pc' \in {"divide", "age"} /\ cells' = cells
    BY <1>5 DEF BondCode, Goto, files, Working
  <2>3. cur \in Cell /\ Paced(cur, 0)
    BY <1>0, <2>2 DEF Shape, TypeOK, MemoryOK
  <2>4. cur.dna \in Seq(Codon)
    BY <2>3, CellFields
  <2>5. Bonded(cur.dna, i) \in Seq(Codon) /\ Len(Bonded(cur.dna, i)) = Len(cur.dna)
    BY <2>4, BondedDna
  <2>6. cur'.dna = Bonded(cur.dna, i) /\ cur'.life = cur.life /\ cur'.left = cur.left /\ cur' \in Cell
    BY <2>1, <2>3, <2>5 DEF Cell
  <2>7. Bonds(cur') <= Bonds(cur) + 1
    BY <2>3, <2>6, BondsBonded
  <2>8. /\ Bonds(cur) \in Nat /\ Bonds(cur') \in Nat /\ cur.life \in Int /\ cur.left \in Int
    BY <2>3, <2>6, BondsType
  <2>9. Paced(cur', 1)
    BY <2>3, <2>5, <2>6, <2>7, <2>8 DEF Paced
  <2> QED
    BY <1>0, <2>2, <2>9 DEF Pace, Whole, Working
<1>6. CASE Divide
  <2> DEFINE growing == Len(cur.dna) < MaxDna /\ Room
  <2>1. PICK m \in FreeNames, child \in Children(cur, list, growing) :
          /\ kid' = Newborn(child)
          /\ cells' = [cells EXCEPT ![m] = Torn]
    BY <1>6 DEF Divide
  <2>2. /\ pc = "divide" /\ pc' = "birth"
        /\ cur' = [cur EXCEPT !.dna = Cleared(cur.dna)]
    BY <1>6 DEF Divide, Goto
  <2>3. cur \in Cell /\ list \in SUBSET Code /\ Paced(cur, 1)
    BY <1>0, <2>2 DEF Shape, TypeOK, MemoryOK, Working
  <2>4. cur.dna \in Seq(Codon)
    BY <2>3, CellFields
  <2>5. /\ Cleared(cur.dna) \in Seq(Codon) /\ Len(Cleared(cur.dna)) = Len(cur.dna)
        /\ \A j \in DOMAIN Cleared(cur.dna) : ~Cleared(cur.dna)[j].buffered
    BY <2>4, ClearedDna, ClearedFresh
  <2>6. cur'.dna = Cleared(cur.dna) /\ cur'.life = cur.life /\ cur'.left = cur.left
    BY <2>2, <2>3, <2>5 DEF Cell
  <2>7. Bonds(cur') = 0
    BY <2>5, <2>6, BondsFresh
  <2>8. cur.life \in Int /\ cur.left \in Int
    BY <2>3, BondsType
  <2>9. Paced(cur', 1)
    BY <2>3, <2>5, <2>6, <2>7, <2>8 DEF Paced
  <2>10. Paced(kid', 0)
    BY <2>1, <2>3, ChildPaced
  <2>11. Kept
    BY <1>0, <2>1, AbsentAssumption DEF Whole, FreeNames, Shape, TypeOK
  <2> QED
    BY <2>2, <2>9, <2>10, <2>11 DEF Pace, Working
<1>7. CASE Age
  <2>1. pc = "age" /\ cells' = cells
    BY <1>7 DEF Age, files
  <2>2. cur \in Cell /\ Paced(cur, 1)
    BY <1>0, <2>1 DEF Shape, TypeOK, MemoryOK, Working
  <2>3. Bonds(cur) \in Nat /\ cur.life \in 0..Word-1 /\ cur.left \in 1..cur.life
    BY <2>2, BondsType, CellFields DEF Paced
  <2>4. (cur.left - 1) % Word = cur.left - 1
    BY <2>3, DnaAssumption
  <2>5. cur' = [cur EXCEPT !.left = cur.left - 1]
    BY <1>7, <2>4 DEF Age
  <2>6. cur'.dna = cur.dna /\ cur'.life = cur.life /\ cur'.left = cur.left - 1
    BY <2>2, <2>5 DEF Cell
  <2>7. Bonds(cur') = Bonds(cur)
    BY <2>6 DEF Bonds
  <2>8. Bonds(cur') <= cur'.life - cur'.left
    BY <2>2, <2>3, <2>6, <2>7 DEF Paced
  <2>9. CASE cur.left = 1
    <3>1. pc' = "release"
      BY <1>7, <2>4, <2>9 DEF Age, Over, Goto
    <3> QED
      BY <1>0, <2>1, <2>3, <2>6, <2>7, <2>8, <3>1 DEF Pace, Whole, Working
  <2>10. CASE cur.left # 1
    <3>1. pc' = "saveOpen"
      BY <1>7, <2>3, <2>4, <2>10 DEF Age, Over, Goto
    <3>2. Paced(cur', 0)
      BY <2>2, <2>3, <2>6, <2>7, <2>8, <2>10 DEF Paced
    <3> QED
      BY <1>0, <2>1, <3>1, <3>2 DEF Pace, Whole, Working
  <2> QED
    BY <2>9, <2>10
<1>8. CASE TakeArg
  <2>1. pc \in Early /\ pc' \in Early /\ cells' = cells
    BY <1>8 DEF TakeArg, Goto, Working
  <2>2. cur \in Cell /\ Paced(cur, 0)
    BY <1>0, <2>1 DEF Shape, TypeOK, MemoryOK
  <2>3. cur' = [cur EXCEPT !.hasArgs = cur.hasArgs + 1]
    BY <1>8 DEF TakeArg
  <2>4. View(cur') = View(cur)
    BY <2>2, <2>3 DEF Cell, View
  <2>5. Paced(cur', 0)
    BY <2>2, <2>4, PacedView
  <2> QED
    BY <1>0, <2>1, <2>5 DEF Pace, Whole, Working
<1>9. CASE ReleaseArg
  <2>1. pc = "release" /\ pc' = "release" /\ cells' = cells
    BY <1>9 DEF ReleaseArg
  <2>2. cur \in Cell
    BY <2>1 DEF Shape, TypeOK, MemoryOK, Working
  <2>3. cur' = [cur EXCEPT !.hasArgs = cur.hasArgs - 1]
    BY <1>9 DEF ReleaseArg
  <2>4. cur'.dna = cur.dna /\ cur'.life = cur.life /\ cur'.left = cur.left
    BY <2>2, <2>3 DEF Cell
  <2> QED
    BY <1>0, <2>1, <2>4 DEF Pace, Whole, Bonds, Working
<1>10. CASE Load
  <2>1. CASE pc' = "failed"
    BY <1>0, <1>10, <2>1 DEF Load, Fail, files, Pace, Whole, Working, Goto
  <2>2. CASE pc' # "failed"
    <3>1. /\ pc' = "args" /\ cells' = cells
          /\ \E n \in todo : Whole(n) /\ cur' = cells[n]
      BY <1>10, <2>2 DEF Load, Fail, EndWith, Goto, files
    <3>2. todo \subseteq Name
      BY DEF Shape, TypeOK, MemoryOK
    <3> QED
      BY <1>0, <3>1, <3>2 DEF Pace, Whole, Working
  <2> QED
    BY <2>1, <2>2
<1>11. CASE Evaluated
  <2>1. pc = "eval" /\ me \in Name /\ cells[me] \in Cell /\ Whole(me) /\ cells' = cells
    BY <1>11 DEF Evaluated, Fail, files, Shape, TypeOK, MemoryOK, FilesOK, Working, Whole
  <2>2. CASE pc' = "failed"
    BY <1>0, <2>1, <2>2 DEF Pace, Whole, Working
  <2>3. CASE pc' # "failed"
    <3>1. /\ pc' \in {"output", "take"}
          /\ \E r \in EvalResults : cur' = [cells[me] EXCEPT !.fitness = r]
      BY <1>11, <2>3 DEF Evaluated, Fail, EndWith, Goto
    <3>2. View(cur') = View(cells[me])
      BY <2>1, <3>1 DEF Cell, View
    <3>3. Paced(cur', 0)
      BY <1>0, <2>1, <3>2, PacedView
    <3> QED
      BY <1>0, <2>1, <3>1, <3>3 DEF Pace, Whole, Working
  <2> QED
    BY <2>2, <2>3
<1>12. CASE ExecCell
  <2>1. /\ pc = "eval" /\ me \in Name /\ cells[me] \in Cell /\ Whole(me)
        /\ cells' = [cells EXCEPT ![me].hasArgs = 0] /\ pc' = pc /\ cur' = cur
    BY <1>12 DEF ExecCell, memory, held, Shape, TypeOK, MemoryOK, FilesOK, Working, Whole
  <2>2. View([cells[me] EXCEPT !.hasArgs = 0]) = View(cells[me])
    BY <2>1 DEF Cell, View
  <2>3. cells'[me] = [cells[me] EXCEPT !.hasArgs = 0] /\ \A n \in Name : n # me => cells'[n] = cells[n]
    BY <2>1 DEF Shape, TypeOK
  <2>4. Paced(cells'[me], 0)
    BY <1>0, <2>1, <2>2, <2>3, PacedView
  <2>5. Kept
    BY <1>0, <2>3, <2>4 DEF Whole
  <2> QED
    BY <1>0, <2>1, <2>5 DEF Pace, Working
<1>13. CASE EvalOpen \/ SaveOpen
  <2>1. /\ cells' = [cells EXCEPT ![me] = Torn] /\ cur' = cur
        /\ pc \in Early /\ pc' \in Early
    BY <1>13 DEF EvalOpen, SaveOpen, Open, memory, held, Goto, Working
  <2> QED
    BY <1>0, <2>1 DEF Pace, Whole, Shape, TypeOK
<1>14. CASE EvalWrite \/ SaveWrite
  <2>1. /\ cells' = [cells EXCEPT ![me] = cur] /\ pc \in Early
        /\ pc' = "turn" \/ (pc' = "eval" /\ cur' = cur)
    BY <1>14 DEF EvalWrite, SaveWrite, memory, held, Goto, Working
  <2>2. Kept
    BY <1>0, <2>1 DEF Whole, Shape, TypeOK
  <2> QED
    BY <1>0, <2>1, <2>2 DEF Pace, Working
<1>15. CASE BirthWrite
  <2>1. cells' = [cells EXCEPT ![kidName] = kid] /\ pc = "birth" /\ pc' = "age" /\ cur' = cur
    BY <1>15 DEF BirthWrite, Goto
  <2>2. Kept
    BY <1>0, <2>1 DEF Whole, Shape, TypeOK
  <2> QED
    BY <1>0, <2>1, <2>2 DEF Pace, Working
<1>16. CASE RemoveCell
  <2>1. cells' = [cells EXCEPT ![me] = Absent] /\ pc' = "turn"
    BY <1>16 DEF RemoveCell, Goto
  <2>2. Kept
    BY <1>0, <2>1 DEF Whole, Shape, TypeOK
  <2> QED
    BY <2>1, <2>2 DEF Pace, Working
<1>17. CASE PlaceOpen
  <2>1. PICK n \in Name \ Files : cells' = [cells EXCEPT ![n] = Torn]
    BY <1>17 DEF PlaceOpen
  <2>2. cur' = cur /\ kid' = kid /\ pc' = pc
    BY <1>17 DEF PlaceOpen, memory, held
  <2>3. Kept
    BY <1>0, <2>1, AbsentAssumption DEF Whole, Shape, TypeOK
  <2> QED
    BY <1>0, <2>2, <2>3 DEF Pace
<1>18. CASE PlaceWrite
  <2>1. PICK c \in Visitors : cells' = [cells EXCEPT ![copying] = c]
    BY <1>18 DEF PlaceWrite
  <2>2. cur' = cur /\ kid' = kid /\ pc' = pc
    BY <1>18 DEF PlaceWrite, held
  <2>3. Paced(c, 0)
    BY SysEnvAssumption, FounderPaced
  <2>4. Kept
    BY <1>0, <2>1, <2>3 DEF Whole, Shape, TypeOK
  <2> QED
    BY <1>0, <2>2, <2>4 DEF Pace
<1> HIDE DEF Kept, Early
<1> QED
  BY <1>1, <1>2, <1>3, <1>4, <1>5, <1>6, <1>7, <1>8, <1>9, <1>10, <1>11, <1>12, <1>13, <1>14,
     <1>15, <1>16, <1>17, <1>18 DEF Next, Process, User

-----------------------------------------------------------------------------
(* What a cell inherits *)

\* The protected tail is whole, and the protein one mutation from the DNA.
Inherits(c) == EndsWith(c.dna, Tail0) /\ OneEdit(c.body, Protein(c.dna))

\* The inductive invariant: the tail and the protein of every cell, in a file
\* or in memory.
Lineage ==
  /\ \A n \in Name : Whole(n) => Inherits(cells[n])
  /\ cur # Nothing => Inherits(cur)
  /\ kid # Nothing => Inherits(kid)

\* It tells from a cell what Ecosystem sees of it.
LEMMA InheritsView ==
  ASSUME NEW c, NEW d, View(d) = View(c), Inherits(c)
  PROVE  Inherits(d)
<1>1. d.dna = c.dna /\ d.body = c.body
  BY DEF View
<1> QED
  BY <1>1 DEF Inherits

\* Growth and division leave instructions and flags of the DNA as they are.
LEMMA InheritsDna ==
  ASSUME NEW c \in Cell, Inherits(c), NEW dna, NEW i \in DOMAIN c.dna,
         dna = Bonded(c.dna, i) \/ dna = Cleared(c.dna)
  PROVE  Inherits([c EXCEPT !.dna = dna])
<1> DEFINE d == [c EXCEPT !.dna = dna]
<1>1. c.dna \in Seq(Codon) /\ Len(c.dna) \in Nat /\ Len(Tail0) \in Nat
  BY CellFields, SysEnvAssumption
<1>2. /\ dna \in Seq(Codon) /\ Len(dna) = Len(c.dna)
      /\ \A j \in 1..Len(c.dna) : dna[j].code = c.dna[j].code /\ dna[j].dis = c.dna[j].dis
  <2>1. CASE dna = Bonded(c.dna, i)
    BY <1>1, <2>1, BondedDna
  <2>2. CASE dna = Cleared(c.dna)
    BY <1>1, <2>2, ClearedDna
  <2> QED
    BY <2>1, <2>2
<1>3. d.dna = dna /\ d.body = c.body
  BY DEF Cell
<1>4. EndsWith(dna, Tail0)
  <2>1. \A k \in 1..Len(Tail0) : Len(c.dna) - Len(Tail0) + k \in 1..Len(c.dna)
    BY <1>1 DEF Inherits, EndsWith
  <2> QED
    BY <1>2, <2>1 DEF Inherits, EndsWith
<1>5. Protein(dna) = Protein(c.dna)
  BY <1>1, SameProtein
<1> HIDE DEF d
<1>6. Inherits(d)
  BY <1>3, <1>4, <1>5 DEF Inherits
<1> QED
  BY <1>6 DEF d

\* A child has the tail of its parent, and the parent's DNA as its protein.
LEMMA ChildInherits ==
  ASSUME NEW c \in Cell, Inherits(c), NEW all \in SUBSET Code, NEW growing,
         NEW child \in Children(c, all, growing)
  PROVE  Inherits(Newborn(child))
<1>1. PICK d, life : /\ d \in NewDnas(c.dna, all, growing)
                     /\ child = Child(c, d, life) /\ (life = c.life \/ life = LifeOf(Len(d)))
  BY ChildOfDna
<1>2. c.dna \in Seq(Codon) /\ Tail0 \in Seq(Gene) /\ SealsTail(Tail0)
  BY CellFields, SysEnvAssumption
<1>3. child.dna = d /\ child.body = Protein(c.dna)
  BY <1>1 DEF Child, Cell
<1>4. EndsWith(d, Tail0)
  BY <1>1, <1>2, NewDnaTail DEF Inherits
<1>5. OneEdit(Protein(c.dna), Protein(d))
  BY <1>1, <1>2, NewDnaEdit
<1>6. Inherits(child)
  BY <1>3, <1>4, <1>5 DEF Inherits
<1>7. View(Newborn(child)) = View(child)
  BY ChildIsCell
<1> QED
  BY <1>6, <1>7, InheritsView

\* What a founder is, without the names of Ecosystem.
LEMMA FounderIs ==
  ASSUME NEW c \in Cell
  PROVE  Founder(c) <=> /\ Len(c.dna) <= MaxDna
                        /\ Inherits(c)
                        /\ c.left \in 1..c.life
                        /\ Bonds(c) <= c.life - c.left
<1> DEFINE v == View(c)
<1>1. v \in Eco!Cell
  BY ViewType
<1>2. v.dna = c.dna /\ v.body = c.body /\ v.life = c.life /\ v.left = c.left
  BY DEF View
<1>3. Eco!EndsWith(c.dna, Tail0) <=> EndsWith(c.dna, Tail0)
  BY DEF Eco!EndsWith, EndsWith
<1>4. Eco!OneEdit(c.body, Eco!Protein(c.dna)) <=> OneEdit(c.body, Protein(c.dna))
  <2>1. Eco!Protein(c.dna) = Protein(c.dna)
    BY DEF Eco!Protein, Protein
  <2>2. \A p, q : Eco!OneEdit(p, q) <=> OneEdit(p, q)
    BY DEF Eco!OneEdit, OneEdit, Eco!SeqX!RemoveAt, SeqX!RemoveAt, Eco!SeqX!ReplaceAt, SeqX!ReplaceAt
  <2> QED
    BY <2>1, <2>2
<1> HIDE DEF v
<1>5. Eco!Founder(v) <=> Len(c.dna) <= MaxDna /\ Inherits(c) /\ c.left \in 1..c.life
  BY <1>1, <1>2, <1>3, <1>4 DEF Eco!Founder, Inherits
<1> QED
  BY <1>5 DEF Founder, v

\* One step keeps the lineage: only a birth makes a genome, from its parent's.
LEMMA NextLineage == Shape /\ Lineage /\ [Next]_vars => Lineage'
<1> SUFFICES ASSUME Shape, Lineage, [Next]_vars
             PROVE  Lineage'
  OBVIOUS
<1> USE AbsentAssumption
<1> DEFINE Kept == \A n \in Name : (Whole(n) => Inherits(cells[n]))'
<1>0. /\ \A n \in Name : Whole(n) => Inherits(cells[n])
      /\ cur # Nothing => Inherits(cur)
      /\ kid # Nothing => Inherits(kid)
  BY DEF Lineage
<1>1. CASE \/ CheckRunning \/ NoCells \/ UpdateListFails \/ ArgsFull \/ ExitRemoveFails
           \/ TakeCodeFails \/ DivideByZero \/ Kill
  <2>1. cells' = cells /\ (cur' = cur \/ cur' = Nothing) /\ (kid' = kid \/ kid' = Nothing)
    BY <1>1 DEF CheckRunning, NoCells, UpdateListFails, ArgsFull, ExitRemoveFails,
       TakeCodeFails, DivideByZero, Kill, Fail, EndWith, files, memory, held
  <2> QED
    BY <1>0, <2>1 DEF Lineage, Whole
<1>2. CASE \/ ScanCells \/ UpdateList \/ KeepList \/ RemoveUpdateCode \/ EndCycle
           \/ NeedsNoArgs \/ MissArg \/ SaveOutput \/ CheckEndless
           \/ ExitCheck \/ ExitRemove \/ TakeCode \/ MissCode \/ ReleaseCode
           \/ ReleaseCodon \/ Start \/ Stop \/ SwitchEndless \/ SupplyOpen \/ SupplyWrite
           \/ RequestUpdate \/ UNCHANGED vars
  <2>1. cells' = cells /\ cur' = cur /\ kid' = kid
    BY <1>2 DEF ScanCells, UpdateList, KeepList, RemoveUpdateCode, EndCycle, NeedsNoArgs, MissArg,
       SaveOutput, CheckEndless, ExitCheck, ExitRemove, TakeCode, MissCode, ReleaseCode,
       ReleaseCodon, Start, Stop, SwitchEndless, SupplyOpen, SupplyWrite, RequestUpdate, vars,
       files, memory, held
  <2> QED
    BY <1>0, <2>1 DEF Lineage, Whole
<1>3. CASE TakeArg \/ Age \/ ReleaseArg
  <2>1. cells' = cells /\ kid' = kid /\ cur \in Cell
    BY <1>3 DEF TakeArg, Age, ReleaseArg, files, Shape, TypeOK, MemoryOK, Working
  <2>2. cur'.dna = cur.dna /\ cur'.body = cur.body
    BY <1>3, <2>1 DEF TakeArg, Age, ReleaseArg, Cell
  <2>3. Inherits(cur')
    BY <1>0, <2>1, <2>2 DEF Inherits
  <2> QED
    BY <1>0, <2>1, <2>3 DEF Lineage, Whole
<1>4. CASE Load
  <2>1. /\ cells' = cells /\ (kid' = kid \/ kid' = Nothing)
        /\ cur' = Nothing \/ \E n \in Name : Whole(n) /\ cur' = cells[n]
    BY <1>4 DEF Load, Fail, EndWith, files, Shape, TypeOK, MemoryOK
  <2> QED
    BY <1>0, <2>1 DEF Lineage, Whole
<1>5. CASE Evaluated
  <2>1. me \in Name /\ cells[me] \in Cell /\ Whole(me) /\ cells' = cells
    BY <1>5 DEF Evaluated, Fail, files, Shape, TypeOK, MemoryOK, FilesOK, Working, Whole
  <2>2. kid' = kid \/ kid' = Nothing
    BY <1>5 DEF Evaluated, Fail, EndWith
  <2>3. cur' # Nothing => Inherits(cur')
    <3>1. cur' = Nothing \/ \E r \in EvalResults : cur' = [cells[me] EXCEPT !.fitness = r]
      BY <1>5 DEF Evaluated, Fail, EndWith
    <3>2. \A r : View([cells[me] EXCEPT !.fitness = r]) = View(cells[me])
      BY <2>1 DEF Cell, View
    <3> QED
      BY <1>0, <2>1, <3>1, <3>2, InheritsView
  <2> QED
    BY <1>0, <2>1, <2>2, <2>3 DEF Lineage, Whole
<1>6. CASE BondCode
  <2>1. PICK i \in DOMAIN cur.dna : cur' = [cur EXCEPT !.dna = Bonded(cur.dna, i)]
    BY <1>6 DEF BondCode
  <2>2. cells' = cells /\ kid' = kid /\ cur \in Cell
    BY <1>6 DEF BondCode, files, Shape, TypeOK, MemoryOK, Working
  <2>3. Inherits(cur')
    BY <1>0, <2>1, <2>2, InheritsDna
  <2> QED
    BY <1>0, <2>2, <2>3 DEF Lineage, Whole
<1>7. CASE Divide
  <2>1. PICK m \in FreeNames,
             child \in Children(cur, list, Len(cur.dna) < MaxDna /\ Room) :
          /\ kid' = Newborn(child)
          /\ cells' = [cells EXCEPT ![m] = Torn]
    BY <1>7 DEF Divide
  <2>2. cur \in Cell /\ list \in SUBSET Code /\ Inherits(cur)
    BY <1>0, <1>7 DEF Divide, Shape, TypeOK, MemoryOK, Working
  <2>3. cur' = [cur EXCEPT !.dna = Cleared(cur.dna)] /\ cur.dna # <<>>
    BY <1>7 DEF Divide
  <2>4. 1 \in DOMAIN cur.dna
    <3>1. cur.dna \in Seq(Codon)
      BY <2>2, CellFields
    <3> QED
      BY <2>3, <3>1
  <2>5. Inherits(cur')
    BY <2>2, <2>3, <2>4, InheritsDna
  <2>6. Inherits(kid')
    BY <2>1, <2>2, ChildInherits
  <2>7. Kept
    BY <1>0, <2>1 DEF Whole, FreeNames, Shape, TypeOK
  <2> QED
    BY <2>5, <2>6, <2>7 DEF Lineage
<1>8. CASE EvalOpen \/ SaveOpen
  <2>1. cells' = [cells EXCEPT ![me] = Torn] /\ cur' = cur /\ kid' = kid
    BY <1>8 DEF EvalOpen, SaveOpen, Open, memory, held
  <2> QED
    BY <1>0, <2>1 DEF Lineage, Whole, Shape, TypeOK
<1>9. CASE EvalWrite \/ SaveWrite
  <2>1. /\ cells' = [cells EXCEPT ![me] = cur] /\ kid' = kid /\ cur # Nothing
        /\ cur' = cur \/ cur' = Nothing
    BY <1>9 DEF EvalWrite, SaveWrite, memory, held, Shape, TypeOK, MemoryOK, Working
  <2> QED
    BY <1>0, <2>1 DEF Lineage, Whole, Shape, TypeOK
<1>10. CASE BirthWrite
  <2>1. /\ cells' = [cells EXCEPT ![kidName] = kid] /\ kid # Nothing
        /\ cur' = cur /\ kid' = Nothing
    BY <1>10 DEF BirthWrite, Shape, TypeOK, MemoryOK
  <2> QED
    BY <1>0, <2>1 DEF Lineage, Whole, Shape, TypeOK
<1>11. CASE RemoveCell
  <2>1. cells' = [cells EXCEPT ![me] = Absent] /\ cur' = Nothing /\ kid' = kid
    BY <1>11 DEF RemoveCell
  <2> QED
    BY <1>0, <2>1 DEF Lineage, Whole, Shape, TypeOK
<1>12. CASE ExecCell
  <2>1. /\ me \in Name /\ cells[me] \in Cell /\ Whole(me)
        /\ cells' = [cells EXCEPT ![me].hasArgs = 0] /\ cur' = cur /\ kid' = kid
    BY <1>12 DEF ExecCell, memory, held, Shape, TypeOK, MemoryOK, FilesOK, Working, Whole
  <2>2. View([cells[me] EXCEPT !.hasArgs = 0]) = View(cells[me])
    BY <2>1 DEF Cell, View
  <2>3. cells'[me] = [cells[me] EXCEPT !.hasArgs = 0] /\ \A n \in Name : n # me => cells'[n] = cells[n]
    BY <2>1 DEF Shape, TypeOK
  <2>4. Inherits(cells'[me])
    BY <1>0, <2>1, <2>2, <2>3, InheritsView
  <2>5. Kept
    BY <1>0, <2>3, <2>4 DEF Whole
  <2> QED
    BY <1>0, <2>1, <2>5 DEF Lineage
<1>13. CASE PlaceOpen
  <2>1. PICK n \in Name \ Files : cells' = [cells EXCEPT ![n] = Torn]
    BY <1>13 DEF PlaceOpen
  <2>2. cur' = cur /\ kid' = kid
    BY <1>13 DEF PlaceOpen, memory, held
  <2> QED
    BY <1>0, <2>1, <2>2 DEF Lineage, Whole, Shape, TypeOK
<1>14. CASE PlaceWrite
  <2>1. PICK c \in Visitors : cells' = [cells EXCEPT ![copying] = c]
    BY <1>14 DEF PlaceWrite
  <2>2. cur' = cur /\ kid' = kid
    BY <1>14 DEF PlaceWrite, held
  <2>3. Founder(c) /\ c \in Cell
    BY SysEnvAssumption DEF Founder
  <2>4. Inherits(c)
    BY <2>3, FounderIs
  <2> QED
    BY <1>0, <2>1, <2>2, <2>4 DEF Lineage, Whole, Shape, TypeOK
<1> HIDE DEF Kept
<1> QED
  BY <1>1, <1>2, <1>3, <1>4, <1>5, <1>6, <1>7, <1>8, <1>9, <1>10, <1>11, <1>12, <1>13, <1>14
     DEF Next, Process, User

(***************************************************************************)
(* For any number of kills, at any moment: every cell file with content is *)
(* one the program can be started with.  Its protected tail is whole, its  *)
(* protein one mutation away from its DNA, its bonds within its life       *)
(* (cell.c:192-461, 495-557, 788).  So Init, which lets an environment     *)
(* start from what an earlier run left, leaves no such environment out.    *)
(***************************************************************************)
THEOREM FounderTheorem == Spec => []FoundersLeft
<1>1. Init => Lineage
  <2> SUFFICES ASSUME Init
               PROVE  Lineage
    OBVIOUS
  <2>1. cur = Nothing /\ kid = Nothing /\ cells \in Colonies
    BY DEF Init
  <2>2. ASSUME NEW n \in Name, Whole(n)
        PROVE  Inherits(cells[n])
    <3>1. Founder(cells[n]) /\ cells[n] \in Cell
      BY <2>1, <2>2, SysEnvAssumption DEF Whole, Founder
    <3> QED
      BY <3>1, FounderIs
  <2> QED
    BY <2>1, <2>2 DEF Lineage
<1>2. Shape /\ Pace /\ Lineage => FoundersLeft
  <2> SUFFICES ASSUME Shape, Pace, Lineage, NEW n \in Name, Whole(n)
               PROVE  Founder(cells[n])
    BY DEF FoundersLeft
  <2>1. cells[n] \in Cell /\ Paced(cells[n], 0) /\ Inherits(cells[n])
    BY DEF Shape, TypeOK, Whole, Pace, Lineage
  <2>2. Bonds(cells[n]) \in Nat /\ cells[n].life \in Int /\ cells[n].left \in Int
    BY <2>1, BondsType
  <2>3. Bonds(cells[n]) <= cells[n].life - cells[n].left
    BY <2>1, <2>2 DEF Paced
  <2> QED
    BY <2>1, <2>3, FounderIs DEF Paced
<1> QED
  BY <1>1, <1>2, InitPace, NextPace, NextLineage, ShapeTheorem, PTL DEF Spec

-----------------------------------------------------------------------------
(* The file of a cell and the cell in memory *)

\* Up to growth the file of the cell holds what the process has in memory, or
\* would if it were written, so an abort loses nothing.  When a division is due,
\* the file lacks the compound of this turn at the most.
Before == {"args", "evalOpen", "eval", "output", "endless", "stop", "unlink", "take", "bond"}

Grown ==
  \/ View(cur) = View(cells[me])
  \/ \E i \in DOMAIN cells[me].dna :
       /\ ~cells[me].dna[i].buffered
       /\ View(cur) = [View(cells[me]) EXCEPT !.dna = Bonded(@, i)]

Faithful ==
  /\ pc \in Before => View(cells[me]) = View(cur)
  /\ pc = "divide" => Dividable(cur.dna) /\ Grown

LEMMA NextFaithful == Shape /\ Faithful /\ [Next]_vars => Faithful'
<1> SUFFICES ASSUME Shape, Faithful, [Next]_vars
             PROVE  Faithful'
  OBVIOUS
<1>0. /\ pc \in Before => View(cells[me]) = View(cur)
      /\ pc = "divide" => Dividable(cur.dna) /\ Grown
  BY DEF Faithful
<1>1. CASE \/ CheckRunning \/ NoCells \/ ScanCells \/ UpdateList \/ UpdateListFails
           \/ KeepList \/ RemoveUpdateCode \/ EndCycle \/ ArgsFull \/ ExitRemoveFails
           \/ EvalOpen \/ TakeCodeFails \/ MissCode \/ Divide \/ DivideByZero \/ BirthWrite \/ Age
           \/ ReleaseArg \/ ReleaseCodon \/ RemoveCell \/ SaveOpen \/ SaveWrite
           \/ Start \/ Kill
  <2>1. pc' \notin Before /\ pc' # "divide"
    BY <1>1 DEF CheckRunning, NoCells, ScanCells, UpdateList, UpdateListFails,
       KeepList, RemoveUpdateCode, EndCycle, ArgsFull, ExitRemoveFails, EvalOpen, Open,
       TakeCodeFails, MissCode, Divide, DivideByZero, BirthWrite, Age, ReleaseArg, ReleaseCodon,
       RemoveCell, SaveOpen, SaveWrite, Start, Kill, Fail, EndWith, Goto, Before
  <2> QED
    BY <2>1 DEF Faithful
<1>2. CASE NeedsNoArgs \/ MissArg \/ SaveOutput \/ CheckEndless \/ ExitCheck \/ ExitRemove
           \/ TakeCode \/ ReleaseCode
  <2>1. /\ cells' = cells /\ me' = me /\ cur' = cur /\ pc \in Before
        /\ pc' = "divide" => Dividable(cur.dna)
    BY <1>2 DEF NeedsNoArgs, MissArg, SaveOutput, CheckEndless, ExitCheck, ExitRemove, TakeCode,
       ReleaseCode, Goto, files, memory, held, Before
  <2> QED
    BY <1>0, <2>1 DEF Faithful, Grown
<1>3. CASE \/ Stop \/ SwitchEndless \/ SupplyOpen \/ SupplyWrite \/ PlaceOpen \/ PlaceWrite
           \/ RequestUpdate \/ UNCHANGED vars
  <2>1. /\ me' = me /\ cur' = cur /\ pc' = pc
        /\ \/ cells' = cells
           \/ \E n \in Name \ Files : cells' = [cells EXCEPT ![n] = Torn]
           \/ copying \in Name /\ \E c : cells' = [cells EXCEPT ![copying] = c]
    BY <1>3 DEF Stop, SwitchEndless, SupplyOpen, SupplyWrite, PlaceOpen, PlaceWrite, RequestUpdate,
       vars, files, memory, held
  <2>2. pc \in Before \cup {"divide"} => me \in Name /\ Whole(me) /\ copying # me
    BY AbsentAssumption DEF Shape, TypeOK, MemoryOK, FilesOK, Working, Before
  <2>3. pc \in Before \cup {"divide"} => cells'[me] = cells[me]
    BY <2>1, <2>2 DEF Shape, TypeOK, Files, Whole
  <2> QED
    BY <1>0, <2>1, <2>3 DEF Faithful, Grown
<1>4. CASE Load
  BY <1>4 DEF Load, Fail, EndWith, Goto, files, Faithful, Before
<1>5. CASE TakeArg
  <2>1. pc \in Before /\ pc' # "divide" /\ cells' = cells /\ me' = me /\ cur \in Cell
    BY <1>5 DEF TakeArg, Goto, Before, Shape, TypeOK, MemoryOK, Working
  <2>2. cur' = [cur EXCEPT !.hasArgs = cur.hasArgs + 1]
    BY <1>5 DEF TakeArg
  <2>3. View(cur') = View(cur)
    BY <2>1, <2>2 DEF Cell, View
  <2> QED
    BY <1>0, <2>1, <2>3 DEF Faithful
<1>6. CASE EvalWrite
  <2>1. pc' = "eval" /\ cells'[me] = cur /\ me' = me /\ cur' = cur
    BY <1>6 DEF EvalWrite, Goto, memory, held, Shape, TypeOK, MemoryOK, Working
  <2> QED
    BY <2>1 DEF Faithful
<1>7. CASE Evaluated
  <2>1. me \in Name /\ cells[me] \in Cell /\ cells' = cells
    BY <1>7 DEF Evaluated, Fail, files, Shape, TypeOK, MemoryOK, FilesOK, Working, Whole
  <2>2. pc' = "failed" \/ /\ pc' # "divide" /\ me' = me
                          /\ \E r \in EvalResults : cur' = [cells[me] EXCEPT !.fitness = r]
    BY <1>7 DEF Evaluated, Fail, EndWith, Goto
  <2>3. pc' = "failed" \/ View(cur') = View(cells[me])
    BY <2>1, <2>2 DEF Cell, View
  <2> QED
    BY <2>1, <2>2, <2>3 DEF Faithful, Before
<1>8. CASE ExecCell
  <2>1. me \in Name /\ cells[me] \in Cell /\ pc = "eval"
    BY <1>8 DEF ExecCell, Shape, TypeOK, MemoryOK, FilesOK, Working, Whole
  <2>2. View([cells[me] EXCEPT !.hasArgs = 0]) = View(cells[me])
    BY <2>1 DEF Cell, View
  <2>3. cells'[me] = [cells[me] EXCEPT !.hasArgs = 0]
    BY <1>8, <2>1 DEF ExecCell, Shape, TypeOK
  <2> QED
    BY <1>0, <1>8, <2>1, <2>2, <2>3 DEF ExecCell, memory, held, Faithful, Before
<1>9. CASE BondCode
  <2>1. PICK i \in DOMAIN cur.dna :
          /\ cur' = [cur EXCEPT !.dna = Bonded(cur.dna, i)]
          /\ pc' = IF Dividable(Bonded(cur.dna, i)) THEN "divide" ELSE "age"
          /\ IsFirstFree(cur.dna, hand, i)
    BY <1>9 DEF BondCode, Goto
  <2>2. cur \in Cell /\ cells' = cells /\ me' = me /\ View(cells[me]) = View(cur)
    BY <1>0, <1>9 DEF BondCode, Before, files, Shape, TypeOK, MemoryOK, Working
  <2>3. cur.dna \in Seq(Codon)
    BY <2>2, CellFields
  <2>4. Bonded(cur.dna, i) \in Seq(Codon)
    BY <2>3, BondedDna
  <2>5. cur'.dna = Bonded(cur.dna, i) /\ View(cur') = [View(cur) EXCEPT !.dna = Bonded(cur.dna, i)]
    BY <2>1, <2>2, <2>4, CellFields
  <2>6. cells[me].dna = cur.dna /\ View(cells[me]).dna = cur.dna
    BY <2>2 DEF View
  <2>7. ~cur.dna[i].buffered
    BY <2>1 DEF IsFirstFree
  <2>8. Grown'
    BY <2>2, <2>5, <2>6, <2>7 DEF Grown
  <2> QED
    BY <2>1, <2>5, <2>8 DEF Faithful, Before
<1> QED
  BY <1>1, <1>2, <1>3, <1>4, <1>5, <1>6, <1>7, <1>8, <1>9 DEF Next, Process, User

-----------------------------------------------------------------------------
(* The pace of growth *)

LEMMA BondsView ==
  ASSUME NEW c, NEW d, View(c) = View(d)
  PROVE  c.left = d.left /\ Bonds(c) = Bonds(d)
<1>1. c.dna = d.dna /\ c.left = d.left
  BY DEF View
<1> QED
  BY <1>1 DEF Bonds

\* A DNA that is due to divide has a compound for each codon.
LEMMA DividableBonds ==
  ASSUME NEW c \in Cell, Dividable(c.dna)
  PROVE  Bonds(c) = Len(c.dna)
<1>1. DOMAIN c.dna = 1..Len(c.dna) /\ Len(c.dna) \in Nat
  BY CellFields
<1>2. {i \in DOMAIN c.dna : c.dna[i].buffered} = 1..Len(c.dna)
  BY <1>1 DEF Dividable
<1>3. Cardinality(1..Len(c.dna)) = Len(c.dna)
  BY <1>1, FS_Interval
<1> QED
  BY <1>2, <1>3 DEF Bonds

\* The file lacks one compound at the most, and no cycle.
LEMMA GrownTurn ==
  ASSUME Shape, pc = "divide", Grown
  PROVE  cells[me].left = cur.left /\ Bonds(cur) <= Bonds(cells[me]) + 1
<1>1. me \in Name /\ cells[me] \in Cell /\ cur \in Cell
  BY DEF Shape, TypeOK, MemoryOK, FilesOK, Working, Whole
<1>2. Bonds(cur) \in Nat /\ Bonds(cells[me]) \in Nat
  BY <1>1, BondsType
<1>3. CASE View(cur) = View(cells[me])
  BY <1>2, <1>3, BondsView
<1>4. CASE \E i \in DOMAIN cells[me].dna :
             View(cur) = [View(cells[me]) EXCEPT !.dna = Bonded(@, i)]
  <2>1. PICK i \in DOMAIN cells[me].dna :
          View(cur) = [View(cells[me]) EXCEPT !.dna = Bonded(@, i)]
    BY <1>4
  <2>2. cur.dna = Bonded(cells[me].dna, i) /\ cur.left = cells[me].left
    BY <2>1 DEF View
  <2>3. Bonds(cur) <= Bonds(cells[me]) + 1
    BY <1>1, <2>2, BondsBonded
  <2> QED
    BY <2>2, <2>3
<1> QED
  BY <1>3, <1>4 DEF Grown

\* The inductive invariant: what a turn has made of the cell, bonds and cycles,
\* against the file it was loaded from.
Turning ==
  /\ pc \in {"birth", "age"} => /\ cells[me].left = cur.left
                                /\ Bonds(cur) <= Bonds(cells[me]) + 1
  /\ pc = "saveOpen" => /\ cells[me].left = cur.left + 1
                        /\ Bonds(cur) <= Bonds(cells[me]) + 1
  /\ pc = "birth" => Bonds(cur) = 0

LEMMA NextTurning == Shape /\ Pace /\ Faithful /\ Turning /\ [Next]_vars => Turning'
<1> SUFFICES ASSUME Shape, Pace, Faithful, Turning, [Next]_vars
             PROVE  Turning'
  OBVIOUS
<1>1. CASE \/ CheckRunning \/ NoCells \/ ScanCells \/ UpdateList \/ UpdateListFails
           \/ KeepList \/ RemoveUpdateCode \/ EndCycle \/ Load
           \/ NeedsNoArgs \/ ArgsFull \/ TakeArg \/ MissArg
           \/ EvalOpen \/ EvalWrite \/ Evaluated \/ ExecCell \/ SaveOutput
           \/ CheckEndless \/ ExitCheck \/ ExitRemove \/ ExitRemoveFails
           \/ TakeCode \/ TakeCodeFails \/ DivideByZero
           \/ ReleaseArg \/ ReleaseCodon \/ RemoveCell \/ SaveOpen \/ SaveWrite
           \/ Start \/ Kill
  <2>1. pc' \notin {"birth", "age", "saveOpen"}
    BY <1>1 DEF CheckRunning, NoCells, ScanCells, UpdateList, UpdateListFails, KeepList,
       RemoveUpdateCode, EndCycle, Load, NeedsNoArgs, ArgsFull, TakeArg, MissArg, EvalOpen,
       EvalWrite, Evaluated, ExecCell, SaveOutput, CheckEndless, ExitCheck, ExitRemove,
       ExitRemoveFails, TakeCode, TakeCodeFails, DivideByZero, ReleaseArg, ReleaseCodon,
       RemoveCell, SaveOpen, SaveWrite, Open, Start, Kill, Fail, EndWith, Goto
  <2> QED
    BY <2>1 DEF Turning
<1>2. CASE \/ Stop \/ SwitchEndless \/ SupplyOpen \/ SupplyWrite \/ PlaceOpen \/ PlaceWrite
           \/ RequestUpdate \/ UNCHANGED vars
  <2>1. /\ me' = me /\ cur' = cur /\ pc' = pc
        /\ \/ cells' = cells
           \/ \E n \in Name \ Files : cells' = [cells EXCEPT ![n] = Torn]
           \/ copying \in Name /\ \E c : cells' = [cells EXCEPT ![copying] = c]
    BY <1>2 DEF Stop, SwitchEndless, SupplyOpen, SupplyWrite, PlaceOpen, PlaceWrite, RequestUpdate,
       vars, files, memory, held
  <2>2. pc \in {"birth", "age", "saveOpen"} => me \in Name /\ Whole(me) /\ copying # me
    BY AbsentAssumption DEF Shape, TypeOK, MemoryOK, FilesOK, Working
  <2>3. pc \in {"birth", "age", "saveOpen"} => cells'[me] = cells[me]
    BY <2>1, <2>2 DEF Shape, TypeOK, Files, Whole
  <2> QED
    BY <2>1, <2>3 DEF Turning
<1>3. CASE MissCode \/ ReleaseCode
  <2>1. /\ pc \in {"take", "bond"} /\ pc' \in {"divide", "age"}
        /\ cells' = cells /\ me' = me /\ cur' = cur
    BY <1>3 DEF MissCode, ReleaseCode, Goto, files, memory, held
  <2>2. View(cells[me]) = View(cur) /\ cur \in Cell
    BY <2>1 DEF Faithful, Before, Shape, TypeOK, MemoryOK, Working
  <2>3. cells[me].left = cur.left /\ Bonds(cells[me]) = Bonds(cur) /\ Bonds(cur) \in Nat
    BY <2>2, BondsView, BondsType
  <2> QED
    BY <2>1, <2>3 DEF Turning
<1>4. CASE BondCode
  <2>1. PICK i \in DOMAIN cur.dna : cur' = [cur EXCEPT !.dna = Bonded(cur.dna, i)]
    BY <1>4 DEF BondCode
  <2>2. pc = "bond" /\ pc' \in {"divide", "age"} /\ cells' = cells /\ me' = me
    BY <1>4 DEF BondCode, Goto, files
  <2>3. View(cells[me]) = View(cur) /\ cur \in Cell
    BY <2>2 DEF Faithful, Before, Shape, TypeOK, MemoryOK, Working
  <2>4. cur'.dna = Bonded(cur.dna, i) /\ cur'.left = cur.left
    BY <2>1, <2>3 DEF Cell
  <2>5. Bonds(cur') <= Bonds(cur) + 1
    BY <2>3, <2>4, BondsBonded
  <2>6. cells[me].left = cur.left /\ Bonds(cells[me]) = Bonds(cur)
    BY <2>3, BondsView
  <2> QED
    BY <2>2, <2>4, <2>5, <2>6 DEF Turning
<1>5. CASE Divide
  <2>1. PICK m \in FreeNames : cells' = [cells EXCEPT ![m] = Torn]
    BY <1>5 DEF Divide
  <2>2. /\ pc = "divide" /\ pc' = "birth" /\ me' = me
        /\ cur' = [cur EXCEPT !.dna = Cleared(cur.dna)]
    BY <1>5 DEF Divide, Goto
  <2>3. me \in Name /\ Whole(me) /\ cur \in Cell /\ cells[me] \in Cell
    BY <2>2 DEF Shape, TypeOK, MemoryOK, FilesOK, Working, Whole
  <2>4. cells'[me] = cells[me]
    BY <2>1, <2>3 DEF FreeNames, Files, Whole, Shape, TypeOK
  <2>5. cur.dna \in Seq(Codon)
    BY <2>3, CellFields
  <2>6. \A j \in DOMAIN Cleared(cur.dna) : ~Cleared(cur.dna)[j].buffered
    BY <2>5, ClearedFresh
  <2>7. cur'.dna = Cleared(cur.dna) /\ cur'.left = cur.left
    BY <2>2, <2>3 DEF Cell
  <2>8. Bonds(cur') = 0
    BY <2>6, <2>7, BondsFresh
  <2>9. cells[me].left = cur.left /\ Bonds(cells[me]) \in Nat
    BY <2>2, <2>3, GrownTurn, BondsType DEF Faithful
  <2> QED
    BY <2>2, <2>4, <2>7, <2>8, <2>9 DEF Turning
<1>6. CASE BirthWrite
  <2>1. /\ cells' = [cells EXCEPT ![kidName] = kid] /\ pc = "birth" /\ pc' = "age"
        /\ me' = me /\ cur' = cur
    BY <1>6 DEF BirthWrite, Goto
  <2>2. me \in Name /\ kidName # me
    BY <2>1 DEF Shape, TypeOK, MemoryOK, FilesOK, Working
  <2>3. cells'[me] = cells[me]
    BY <2>1, <2>2 DEF Shape, TypeOK
  <2> QED
    BY <2>1, <2>3 DEF Turning
<1>7. CASE Age
  <2>1. pc = "age" /\ cells' = cells /\ me' = me /\ pc' \in {"release", "saveOpen"}
    BY <1>7 DEF Age, files, Goto
  <2>2. cur \in Cell /\ Paced(cur, 1)
    BY <2>1 DEF Pace, Shape, TypeOK, MemoryOK, Working
  <2>3. cur.life \in 0..Word-1 /\ cur.left \in 1..cur.life
    BY <2>2, CellFields DEF Paced
  <2>4. (cur.left - 1) % Word = cur.left - 1
    BY <2>3, DnaAssumption
  <2>5. cur' = [cur EXCEPT !.left = cur.left - 1]
    BY <1>7, <2>4 DEF Age
  <2>6. cur'.dna = cur.dna /\ cur'.left = cur.left - 1
    BY <2>2, <2>5 DEF Cell
  <2>7. Bonds(cur') = Bonds(cur)
    BY <2>6 DEF Bonds
  <2>8. cells[me].left = cur.left /\ Bonds(cur) <= Bonds(cells[me]) + 1
    BY <2>1 DEF Turning
  <2>9. cells[me].left = cur'.left + 1
    BY <2>3, <2>6, <2>8
  <2> QED
    BY <2>1, <2>7, <2>8, <2>9 DEF Turning
<1> QED
  BY <1>1, <1>2, <1>3, <1>4, <1>5, <1>6, <1>7 DEF Next, Process, User

(***************************************************************************)
(* For every genome, every length of life and every schedule of the user,  *)
(* the evaluator and the kills: a division finds all bonds but one in the  *)
(* file and leaves none, and a turn adds one bond and takes one cycle, so  *)
(* two divisions of a cell of n codons are n cycles apart (cell.c:56-112,  *)
(* 788).                                                                   *)
(***************************************************************************)
THEOREM PaceTheorem == Spec => []GrowthPace
<1>1. Init => Faithful /\ Turning
  BY DEF Init, Faithful, Before, Turning
<1>2. Shape /\ Faithful /\ Turning => GrowthPace
  <2> SUFFICES ASSUME Shape, Faithful, Turning, pc = "divide"
               PROVE  Bonds(cells[me]) >= Len(cur.dna) - 1
    BY DEF GrowthPace, Turning
  <2>1. cur \in Cell /\ cells[me] \in Cell
    BY DEF Shape, TypeOK, MemoryOK, FilesOK, Working, Whole
  <2>2. Bonds(cur) = Len(cur.dna) /\ Bonds(cur) <= Bonds(cells[me]) + 1
    BY <2>1, DividableBonds, GrownTurn DEF Faithful
  <2>3. Bonds(cells[me]) \in Nat /\ Len(cur.dna) \in Nat
    BY <2>1, BondsType
  <2> QED
    BY <2>2, <2>3
<1> QED
  BY <1>1, <1>2, InitShape, NextShape, InitPace, NextPace, NextFaithful, NextTurning, PTL DEF Spec

-----------------------------------------------------------------------------
(* SysEnv implements Ecosystem *)

\* The operators of Dna are the same in Ecosystem.
LEMMA SameDna ==
  ASSUME NEW c, NEW dna, NEW x, NEW i, NEW all, NEW growing
  PROVE  /\ Eco!IsFirstFree(dna, x, i) <=> IsFirstFree(dna, x, i)
         /\ Eco!Bonded(dna, i) = Bonded(dna, i)
         /\ Eco!Dividable(dna) <=> Dividable(dna)
         /\ Eco!Cleared(dna) = Cleared(dna)
         /\ Eco!Children(c, all, growing) = Children(c, all, growing)
         /\ Eco!Codes(dna) = Codes(dna)
         /\ Eco!Unbonded(dna, i) = Unbonded(dna, i)
         /\ Eco!MayMutate <=> MayMutate
         /\ Eco!Draws(dna) <=> Draws(dna)
<1>1. Eco!IsFirstFree(dna, x, i) <=> IsFirstFree(dna, x, i)
  BY DEF Eco!IsFirstFree, IsFirstFree
<1>2. Eco!Bonded(dna, i) = Bonded(dna, i)
  BY DEF Eco!Bonded, Bonded
<1>3. Eco!Dividable(dna) <=> Dividable(dna)
  BY DEF Eco!Dividable, Dividable
<1>4. Eco!Cleared(dna) = Cleared(dna)
  BY DEF Eco!Cleared, Cleared, Eco!Unbuffered, Unbuffered
<1>5. Eco!Children(c, all, growing) = Children(c, all, growing)
  BY DEF Eco!Children, Children, Eco!Copies, Copies, Eco!Mutants, Mutants, Eco!Child, Child,
     Eco!MayCopy, MayCopy, Eco!MayMutate, MayMutate, Eco!Modifications, Modifications,
     Eco!Removals, Removals, Eco!Insertions, Insertions, Eco!Allowing, Allowing,
     Eco!Modify, Modify, Eco!Remove, Remove, Eco!InsertPrev, InsertPrev,
     Eco!InsertNext, InsertNext, Eco!Drawn, Drawn, Eco!Cleared, Cleared,
     Eco!Unbuffered, Unbuffered, Eco!Protein, Protein, Eco!LifeOf, LifeOf
<1>6. Eco!Codes(dna) = Codes(dna) /\ Eco!Unbonded(dna, i) = Unbonded(dna, i)
  BY DEF Eco!Codes, Codes, Eco!Unbonded, Unbonded
<1>7. (Eco!MayMutate <=> MayMutate) /\ (Eco!Draws(dna) <=> Draws(dna))
  BY DEF Eco!MayMutate, MayMutate, Eco!Draws, Draws, Eco!Allowing, Allowing
<1> QED
  BY <1>1, <1>2, <1>3, <1>4, <1>5, <1>6, <1>7

\* So is what a division makes of what Ecosystem sees of the parent.
LEMMA ViewChild ==
  ASSUME NEW c \in Cell, NEW all, NEW growing, NEW child \in Children(c, all, growing)
  PROVE  View(child) \in Children(View(c), all, growing)
<1>1. \A d, life : View(Child(c, d, life)) = Child(View(c), d, life)
  <2> SUFFICES ASSUME NEW d, NEW life
               PROVE  View(Child(c, d, life)) = Child(View(c), d, life)
    OBVIOUS
  <2>1. Child(c, d, life).dna = d /\ Child(c, d, life).body = Protein(c.dna)
          /\ Child(c, d, life).life = life /\ Child(c, d, life).left = life
    BY DEF Child, Cell
  <2>2. View(Child(c, d, life)) = [dna |-> d, body |-> Protein(c.dna), life |-> life, left |-> life]
    BY <2>1 DEF View
  <2>3. Child(View(c), d, life) = [dna |-> d, body |-> Protein(c.dna), life |-> life, left |-> life]
    <3> DEFINE v == View(c)
    <3>1. v = [dna |-> c.dna, body |-> c.body, life |-> c.life, left |-> c.left]
      BY DEF View
    <3>2. v.dna = c.dna
      BY <3>1
    <3>3. Child(v, d, life) = [v EXCEPT !.dna = d, !.body = Protein(c.dna), !.life = life, !.left = life]
      BY <3>2 DEF Child
    <3> HIDE DEF v
    <3>4. Child(v, d, life) = [dna |-> d, body |-> Protein(c.dna), life |-> life, left |-> life]
      BY <3>1, <3>3
    <3> QED
      BY <3>4 DEF v
  <2> QED
    BY <2>2, <2>3
<1>2. View(c).dna = c.dna /\ View(c).life = c.life
  BY DEF View
<1>3. CASE child \in Copies(c)
  <2>1. View(child) \in Copies(View(c))
    BY <1>1, <1>2, <1>3 DEF Copies
  <2> QED
    BY <2>1 DEF Children
<1>4. ASSUME NEW dnas, child \in Mutants(c, dnas)
      PROVE  View(child) \in Mutants(View(c), dnas)
  <2>1. PICK d \in dnas : MayMutate /\ child = Child(c, d, LifeOf(Len(d)))
    BY <1>4 DEF Mutants
  <2> QED
    BY <1>1, <2>1 DEF Mutants
<1>5. CASE child \in Mutants(c, Modifications(c.dna, all))
  BY <1>2, <1>4, <1>5 DEF Children
<1>6. CASE child \in Mutants(c, Removals(c.dna))
  BY <1>2, <1>4, <1>6 DEF Children
<1>7. CASE growing /\ child \in Mutants(c, Insertions(c.dna, all))
  BY <1>2, <1>4, <1>7 DEF Children
<1> QED
  BY <1>3, <1>5, <1>6, <1>7 DEF Children

\* What Ecosystem sees of the compounds, of code/, the compound in hand and
\* what is left of a dead cell.
CodeSeen(store, h, rest, dna) ==
  [x \in Code |-> store[x] + (IF h = x THEN 1 ELSE 0)
                    + Cardinality({d \in rest : dna[d[1]].code = x})]

LEMMA ViewCodeSeen ==
  /\ ViewCode = CodeSeen(code, hand, debris, cur.dna)
  /\ ViewCode' = CodeSeen(code', hand', debris', cur'.dna)
BY DEF ViewCode, CodeSeen

LEMMA SeenClean ==
  ASSUME NEW store \in [Code -> Nat], NEW h, NEW dna
  PROVE  /\ CodeSeen(store, h, {}, dna) = [x \in Code |-> store[x] + (IF h = x THEN 1 ELSE 0)]
         /\ h \notin Code => CodeSeen(store, h, {}, dna) = store
<1>1. \A x : {d \in {} : dna[d[1]].code = x} = {}
  OBVIOUS
<1>2. Cardinality({}) = 0
  BY FS_EmptySet
<1> QED
  BY <1>1, <1>2 DEF CodeSeen

LEMMA SameCardinality == \A S : Eco!Cardinality(S) = Cardinality(S)
BY DEF Eco!Cardinality, Cardinality

\* What death() puts into code/ is what Ecosystem says is left of the cell.
LEMMA SeenDebris ==
  ASSUME NEW dna \in Seq(Codon), NEW x
  PROVE  /\ IsFiniteSet(Debris(dna))
         /\ Cardinality({d \in Debris(dna) : dna[d[1]].code = x}) = Eco!Remains(dna, x)
<1> DEFINE A == {i \in DOMAIN dna : dna[i].code = x}
           B == {i \in DOMAIN dna : dna[i].code = x /\ dna[i].buffered}
<1>1. IsFiniteSet(DOMAIN dna)
  <2>1. DOMAIN dna = 1..Len(dna) /\ Len(dna) \in Nat
    OBVIOUS
  <2> QED
    BY <2>1, FS_Interval
<1>2. IsFiniteSet(A) /\ IsFiniteSet(B)
  BY <1>1, FS_Subset
<1>3. IsFiniteSet(Debris(dna))
  <2>1. IsFiniteSet({0, 1})
    <3>1. IsFiniteSet({0} \cup {1})
      BY FS_Singleton, FS_Union
    <3>2. {0} \cup {1} = {0, 1}
      OBVIOUS
    <3> QED
      BY <3>1, <3>2
  <2>2. IsFiniteSet((DOMAIN dna) \X {0, 1})
    BY <1>1, <2>1, FS_Product
  <2> QED
    BY <2>2, FS_Subset DEF Debris
<1>4. ASSUME NEW S, IsFiniteSet(S), NEW k
      PROVE  IsFiniteSet(S \X {k}) /\ Cardinality(S \X {k}) = Cardinality(S)
  <2>1. IsFiniteSet({k}) /\ Cardinality({k}) = 1
    BY FS_Singleton
  <2>2. IsFiniteSet(S \X {k}) /\ Cardinality(S \X {k}) = Cardinality(S) * Cardinality({k})
    BY <1>4, <2>1, FS_Product
  <2>3. Cardinality(S) \in Nat
    BY <1>4, FS_CardinalityType
  <2> QED
    BY <2>1, <2>2, <2>3
<1> DEFINE P == A \X {1}
           Q == B \X {0}
<1>5. {d \in Debris(dna) : dna[d[1]].code = x} = P \cup Q /\ P \cap Q = {}
  BY DEF Debris
<1>6. /\ IsFiniteSet(P) /\ Cardinality(P) = Cardinality(A)
      /\ IsFiniteSet(Q) /\ Cardinality(Q) = Cardinality(B)
  BY <1>2, <1>4
<1>7. Cardinality(A) \in Nat /\ Cardinality(B) \in Nat
  BY <1>2, FS_CardinalityType
<1>8. Cardinality(A) + Cardinality(B) = Eco!Remains(dna, x)
  BY SameCardinality DEF Eco!Remains
<1> HIDE DEF A, B, P, Q
<1>9. Cardinality(P \cup Q) = Cardinality(P) + Cardinality(Q) - Cardinality(P \cap Q)
  BY <1>6, FS_Union
<1>10. Cardinality(P \cap Q) = 0
  BY <1>5, FS_EmptySet
<1>11. Cardinality({d \in Debris(dna) : dna[d[1]].code = x}) = Cardinality(P \cup Q)
  BY <1>5, Zenon
<1>12. Cardinality(P \cup Q) = Eco!Remains(dna, x)
  BY <1>6, <1>7, <1>8, <1>9, <1>10
<1> QED
  BY <1>3, <1>11, <1>12

\* Ecosystem starts where SysEnv does.
LEMMA InitView == Init => Eco!Init
<1> SUFFICES ASSUME Init
             PROVE  Eco!Init
  OBVIOUS
<1>1. /\ cells \in Colonies /\ code \in Stores /\ code \in [Code -> Nat]
      /\ list = {} /\ brought = {}
  BY SysEnvAssumption DEF Init
<1>2. cells \in [Name -> Cell \cup {Absent}]
  BY <1>1, SysEnvAssumption
<1>3. \A n \in Name : ViewCell(n) = IF cells[n] = Absent THEN Absent ELSE View(cells[n])
  BY <1>2, AbsentAssumption DEF Init, ViewCell, Whole
<1>4. ViewCells \in ViewColonies
  BY <1>1, <1>3 DEF ViewCells, ViewColonies
<1>5. ViewCode = code
  BY <1>1, ViewCodeSeen, SeenClean, AbsentAssumption DEF Init
<1> QED
  BY <1>1, <1>4, <1>5 DEF Eco!Init

\* The state of Ecosystem changes when that of one of its cells, of code/ or
\* of the list does.
LEMMA SameView ==
  ASSUME \A n \in Name : ViewCell(n)' = ViewCell(n), ViewCode' = ViewCode,
         list' = list, brought' = brought
  PROVE  UNCHANGED Eco!vars
<1>1. ViewCells' = ViewCells
  BY DEF ViewCells
<1> QED
  BY <1>1 DEF Eco!vars

\* The process may end wherever nothing it holds is missing in the files; it
\* then starts again with an empty list.
LEMMA EndView ==
  ASSUME Shape, Faithful, EndWith("off") \/ EndWith("failed"), UNCHANGED files,
         pc \notin {"evalWrite", "bond", "birth", "age", "release", "saveOpen", "saveWrite"},
         pc = "divide" => View(cells[me]) = View(cur)
  PROVE  Eco!Next
<1>1. /\ me' = Nothing /\ hand' = Nothing /\ kidName' = Nothing /\ debris' = {}
      /\ list' = {} /\ brought' = {} /\ cells' = cells /\ code' = code
  BY DEF EndWith, files
<1>2. hand = Nothing /\ kidName = Nothing /\ debris = {} /\ code \in [Code -> Nat]
  BY DEF Shape, TypeOK, MemoryOK
<1>3. ViewCode' = ViewCode
  BY <1>1, <1>2, ViewCodeSeen, SeenClean, AbsentAssumption
<1>4. ASSUME NEW n \in Name
      PROVE  ViewCell(n)' = ViewCell(n)
  <2>1. ViewCell(n)' = IF Whole(n) THEN View(cells[n]) ELSE Absent
    BY <1>1, AbsentAssumption DEF ViewCell, Whole
  <2>2. CASE pc \notin Working
    <3>1. me = Nothing
      BY <2>2 DEF Shape, TypeOK, MemoryOK
    <3> QED
      BY <1>2, <2>1, <3>1, AbsentAssumption DEF ViewCell
  <2>3. CASE pc \in Working
    <3>1. Whole(me) /\ View(cells[me]) = View(cur)
      BY <2>3 DEF Shape, FilesOK, Faithful, Before, Working
    <3> QED
      BY <1>2, <2>1, <3>1, AbsentAssumption DEF ViewCell
  <2> QED
    BY <2>2, <2>3
<1>5. ViewCells' = ViewCells
  BY <1>4 DEF ViewCells
<1> QED
  BY <1>1, <1>3, <1>5 DEF Eco!Next, Eco!Restart

\* The main loop: the list is the one thing that changes.
LEMMA MainView ==
  ASSUME Shape, Faithful,
         \/ CheckRunning \/ NoCells \/ ScanCells \/ UpdateList \/ UpdateListFails
         \/ KeepList \/ RemoveUpdateCode \/ EndCycle \/ Load
  PROVE  [Eco!Next]_(Eco!vars)
<1>1. CASE NoCells \/ UpdateListFails \/ (CheckRunning /\ ~running) \/ (Load /\ Fail)
  <2>1. UNCHANGED files /\ (EndWith("off") \/ EndWith("failed"))
    BY <1>1 DEF NoCells, UpdateListFails, CheckRunning, Fail
  <2>2. pc \in {"check", "scan", "codes", "turn"}
    BY <1>1 DEF NoCells, UpdateListFails, CheckRunning, Load
  <2> QED
    BY <2>1, <2>2, EndView
<1>2. CASE ScanCells \/ KeepList \/ RemoveUpdateCode \/ EndCycle \/ (CheckRunning /\ running)
  <2>1. /\ cells' = cells /\ code' = code /\ list' = list /\ brought' = brought
        /\ UNCHANGED held /\ pc # "release" /\ pc' # "release"
    BY <1>2 DEF ScanCells, KeepList, RemoveUpdateCode, EndCycle, CheckRunning, files, memory, Goto
  <2>2. \A n \in Name : ViewCell(n)' = ViewCell(n)
    BY <2>1 DEF ViewCell, Whole, held
  <2>3. ViewCode' = ViewCode
    BY <2>1, ViewCodeSeen DEF held
  <2> QED
    BY <2>1, <2>2, <2>3, SameView
<1>3. CASE Load /\ ~Fail
  <2>1. PICK n \in todo :
          /\ Whole(n) /\ me' = n /\ cur' = cells[n] /\ pc' = "args"
          /\ UNCHANGED <<files, switches, list, brought, first, hand, kidName, kid, debris, kills>>
    BY <1>3 DEF Load, Goto
  <2>2. /\ n \in Name /\ me = Nothing /\ kidName = Nothing /\ debris = {}
        /\ hand = Nothing /\ code \in [Code -> Nat] /\ cells' = cells /\ code' = code /\ list' = list
        /\ hand' = Nothing /\ debris' = {} /\ brought' = brought
    BY <1>3, <2>1 DEF Load, Shape, TypeOK, MemoryOK, Working, files
  <2>3. \A m \in Name : ViewCell(m)' = ViewCell(m)
    BY <2>1, <2>2, AbsentAssumption DEF ViewCell, Whole
  <2>4. ViewCode = code /\ ViewCode' = code
    BY <2>2, ViewCodeSeen, SeenClean, AbsentAssumption
  <2> QED
    BY <2>2, <2>3, <2>4, SameView
<1>4. CASE UpdateList
  <2>1. /\ list' = ListedCodes /\ brought' = LateCodes
        /\ cells' = cells /\ code' = code /\ UNCHANGED held
        /\ pc = "codes" /\ pc' # "release" /\ \A n \in todo : Whole(n)
    BY <1>4 DEF UpdateList, Loadable, Goto, files
  <2>2. /\ me = Nothing /\ kidName = Nothing /\ debris = {} /\ hand = Nothing
        /\ code \in [Code -> Nat] /\ cells \in [Name -> Cell \cup {Absent, Torn}]
        /\ todo \subseteq Name
    BY <2>1 DEF Shape, TypeOK, MemoryOK, Working
  <2>3. \A n \in Name : ViewCell(n)' = ViewCell(n)
    BY <2>1, <2>2, AbsentAssumption DEF ViewCell, Whole, held
  <2>4. ViewCells' = ViewCells
    BY <2>3 DEF ViewCells
  <2>5. ViewCode = code /\ ViewCode' = ViewCode
    BY <2>1, <2>2, ViewCodeSeen, SeenClean, AbsentAssumption DEF held
  <2>6. \A n \in Name : /\ Whole(n) => ViewCells[n] = View(cells[n]) /\ ViewCells[n] # Absent
                        /\ ~Whole(n) => ViewCells[n] = Absent
    BY <2>2, ViewType, AbsentAssumption DEF ViewCells, ViewCell, Whole
  <2>7. Eco!Living = {n \in Name : Whole(n)}
    BY <2>6 DEF Eco!Living
  <2>8. ASSUME NEW n \in Name, Whole(n)
        PROVE  Eco!Codes(ViewCells[n].dna) = Codes(cells[n].dna)
    <3>1. ViewCells[n] = View(cells[n])
      BY <2>6, <2>8
    <3>2. View(cells[n]).dna = cells[n].dna
      BY DEF View
    <3>3. ViewCells[n].dna = cells[n].dna
      BY <3>1, <3>2
    <3> QED
      BY <3>3, SameDna
  <2>9. Eco!InDna = UNION {Codes(cells[n].dna) : n \in {m \in Name : Whole(m)}}
    BY <2>7, <2>8 DEF Eco!InDna
  <2>10. LateCodes \subseteq brought
    <3>1. \A n \in Name \ todo : Whole(n) => Codes(cells[n].dna) \subseteq brought
      BY <2>1 DEF Shape, FilesOK
    <3> QED
      BY <3>1 DEF LateCodes, ListedCodes
  <2>11. ListedCodes = Eco!Present \ LateCodes
    <3>1. UNION {Codes(cells[n].dna) : n \in todo}
            \subseteq UNION {Codes(cells[n].dna) : n \in {m \in Name : Whole(m)}}
      BY <2>1, <2>2
    <3>2. Eco!Present = Eco!InDna \cup {x \in Code : code[x] > 0}
      BY <2>5 DEF Eco!Present
    <3> QED
      BY <2>9, <3>1, <3>2 DEF LateCodes, ListedCodes
  <2>12. Eco!Refresh
    <3> HIDE DEF Eco!Present
    <3> QED
      BY <2>1, <2>4, <2>5, <2>10, <2>11 DEF Eco!Refresh
  <2> QED
    BY <2>12 DEF Eco!Next
<1> QED
  BY <1>1, <1>2, <1>3, <1>4 DEF CheckRunning

\* Metabolism: Ecosystem sees nothing of it, but where the process ends.
LEMMA MetabolismView ==
  ASSUME Shape, Faithful,
         \/ NeedsNoArgs \/ ArgsFull \/ TakeArg \/ MissArg
         \/ EvalOpen \/ EvalWrite \/ Evaluated \/ ExecCell \/ SaveOutput
         \/ CheckEndless \/ ExitCheck \/ ExitRemove \/ ExitRemoveFails
  PROVE  [Eco!Next]_(Eco!vars)
<1>1. CASE ArgsFull \/ ExitRemoveFails \/ (Evaluated /\ Fail)
  <2>1. UNCHANGED files /\ EndWith("failed") /\ pc \in {"args", "unlink", "eval"}
    BY <1>1 DEF ArgsFull, ExitRemoveFails, Evaluated, Fail
  <2> QED
    BY <2>1, EndView
<1>2. ASSUME \/ NeedsNoArgs \/ MissArg \/ SaveOutput \/ CheckEndless \/ ExitCheck \/ ExitRemove
             \/ EvalOpen \/ EvalWrite \/ ExecCell
             \/ TakeArg \/ (Evaluated /\ ~Fail)
      PROVE  UNCHANGED Eco!vars
  <2>1. /\ code' = code /\ list' = list /\ brought' = brought /\ me' = me /\ hand' = hand /\ kidName' = kidName
        /\ kid' = kid /\ debris' = debris
        /\ pc \in Before \cup {"evalWrite"} /\ pc' # "release"
    BY <1>2 DEF NeedsNoArgs, MissArg, SaveOutput, CheckEndless, ExitCheck, ExitRemove,
       EvalOpen, Open, EvalWrite, ExecCell, TakeArg, Evaluated, files, memory, held, Goto, Before
  <2>2. /\ me \in Name /\ cur \in Cell /\ kidName = Nothing /\ debris = {}
        /\ code \in [Code -> Nat] /\ cells \in [Name -> Cell \cup {Absent, Torn}]
    BY <2>1 DEF Before, Shape, TypeOK, MemoryOK, Working
  <2>3. View(cur') = View(cur)
    <3>1. CASE TakeArg
      <4>1. cur' = [cur EXCEPT !.hasArgs = cur.hasArgs + 1]
        BY <3>1 DEF TakeArg
      <4> QED
        BY <2>2, <4>1 DEF Cell, View
    <3>2. CASE Evaluated /\ ~Fail
      <4>1. pc = "eval" /\ \E r \in EvalResults : cur' = [cells[me] EXCEPT !.fitness = r]
        BY <3>2 DEF Evaluated
      <4>2. cells[me] \in Cell /\ View(cells[me]) = View(cur)
        BY <2>2, <4>1 DEF Shape, FilesOK, Faithful, Before, Working, Whole
      <4>3. View(cur') = View(cells[me])
        BY <4>1, <4>2 DEF Cell, View
      <4> QED
        BY <4>2, <4>3
    <3>3. CASE \/ NeedsNoArgs \/ MissArg \/ SaveOutput \/ CheckEndless \/ ExitCheck \/ ExitRemove
               \/ EvalOpen \/ EvalWrite \/ ExecCell
      <4>1. cur' = cur
        BY <3>3 DEF NeedsNoArgs, MissArg, SaveOutput, CheckEndless, ExitCheck, ExitRemove,
           EvalOpen, Open, EvalWrite, ExecCell, memory, held
      <4> QED
        BY <4>1
    <3> QED
      BY <1>2, <3>1, <3>2, <3>3
  <2>4. \A n \in Name \ {me} : cells'[n] = cells[n]
    BY <1>2, <2>2 DEF NeedsNoArgs, MissArg, SaveOutput, CheckEndless, ExitCheck, ExitRemove,
       EvalOpen, Open, EvalWrite, ExecCell, TakeArg, Evaluated, files
  <2>5. \A n \in Name : ViewCell(n)' = ViewCell(n)
    BY <2>1, <2>2, <2>3, <2>4, AbsentAssumption DEF ViewCell, Whole, Before
  <2>6. ViewCode' = ViewCode
    <3>1. /\ ViewCode = CodeSeen(code, hand, {}, cur.dna)
          /\ ViewCode' = CodeSeen(code, hand, {}, cur'.dna)
      BY <2>1, <2>2, ViewCodeSeen
    <3> QED
      BY <2>2, <3>1, SeenClean
  <2> QED
    BY <2>1, <2>5, <2>6, SameView
<1> QED
  BY <1>1, <1>2

\* A mutation that draws from an empty list ends the process, and the compound
\* bonded in this turn is not in the file.
LEMMA DrawView ==
  ASSUME Shape, Faithful, DivideByZero, View(cur) # View(cells[me])
  PROVE  Eco!Next
<1>1. /\ pc = "divide" /\ me' = Nothing /\ hand' = Nothing /\ kidName' = Nothing
      /\ debris' = {} /\ list' = {} /\ brought' = {} /\ cells' = cells /\ code' = code
  BY DEF DivideByZero, Fail, EndWith, files
<1>2. /\ hand = Nothing /\ kidName = Nothing /\ debris = {} /\ code \in [Code -> Nat]
      /\ me \in Name /\ Whole(me) /\ cells[me] \in Cell /\ cur \in Cell
  BY <1>1 DEF Shape, TypeOK, MemoryOK, FilesOK, Working, Whole
<1>3. PICK i \in DOMAIN cells[me].dna :
        /\ ~cells[me].dna[i].buffered
        /\ View(cur) = [View(cells[me]) EXCEPT !.dna = Bonded(@, i)]
  BY <1>1 DEF Faithful, Grown
<1>4. cells[me].dna \in Seq(Codon)
  BY <1>2, CellFields
<1>5. cur.dna = Bonded(cells[me].dna, i)
  BY <1>3 DEF View
<1>6. i \in DOMAIN cur.dna /\ cur.dna # <<>>
  BY <1>5 DEF Bonded
<1>7. Unbonded(cur.dna, i) = cells[me].dna
  BY <1>3, <1>4, <1>5, BondedUndone
<1>8. list = {} /\ MayMutate /\ Draws(cur.dna) /\ Dividable(cur.dna)
  BY <1>1, <1>6 DEF DivideByZero, Faithful
<1>9. ViewCode' = ViewCode
  BY <1>1, <1>2, ViewCodeSeen, SeenClean, AbsentAssumption
<1>10. \A n \in Name : /\ n = me => ViewCell(n) = View(cur) /\ ViewCell(n)' = View(cells[me])
                       /\ n # me => ViewCell(n)' = ViewCell(n)
  BY <1>1, <1>2, AbsentAssumption DEF ViewCell, Whole
<1>11. View(cells[me]) = [View(cur) EXCEPT !.dna = Unbonded(@, i)]
  BY <1>3, <1>5, <1>7 DEF View
<1>12. ViewCells[me] = View(cur) /\ View(cur) # Absent /\ View(cur).dna = cur.dna
  BY <1>2, <1>10, ViewType DEF ViewCells, View
<1>13. ViewCells' = [ViewCells EXCEPT ![me].dna = Unbonded(@, i)]
  <2>1. ViewCells' = [ViewCells EXCEPT ![me] = View(cells[me])]
    BY <1>2, <1>10 DEF ViewCells
  <2> QED
    BY <1>11, <1>12, <2>1
<1>14. Eco!DrawFails(me)
  BY <1>1, <1>2, <1>6, <1>8, <1>9, <1>12, <1>13, SameDna DEF Eco!DrawFails, Eco!Living
<1> QED
  BY <1>2, <1>14 DEF Eco!Next

\* Growth and division, one step of Ecosystem for each compound bonded and
\* each child.
LEMMA GrowthView ==
  ASSUME Shape, Pace, Faithful,
         \/ TakeCode \/ TakeCodeFails \/ MissCode \/ BondCode \/ ReleaseCode
         \/ Divide \/ DivideByZero \/ BirthWrite
  PROVE  [Eco!Next]_(Eco!vars)
<1>0. /\ code \in [Code -> Nat] /\ cells \in [Name -> Cell \cup {Absent, Torn}]
      /\ me \in Name /\ cur \in Cell /\ debris = {} /\ list \in SUBSET Code
      /\ pc \in {"take", "bond", "divide", "birth"} /\ Whole(me) /\ cur.dna \in Seq(Codon)
      /\ kidName # me /\ (pc # "birth" => kidName = Nothing) /\ (pc # "bond" => hand = Nothing)
  <2>1. pc \in {"take", "bond", "divide", "birth"}
    BY DEF TakeCode, TakeCodeFails, MissCode, BondCode, ReleaseCode, Divide, DivideByZero, BirthWrite
  <2>2. me \in Name /\ cur \in Cell
    BY <2>1 DEF Shape, TypeOK, MemoryOK, Working
  <2>3. cur.dna \in Seq(Codon)
    BY <2>2, CellFields
  <2> QED
    BY <2>1, <2>2, <2>3, AbsentAssumption DEF Shape, TypeOK, MemoryOK, FilesOK, Working
<1>1. CASE TakeCodeFails
  BY <1>1, EndView DEF TakeCodeFails, Fail
<1>7. CASE DivideByZero /\ View(cur) = View(cells[me])
  BY <1>7, EndView DEF DivideByZero, Fail
<1>8. CASE DivideByZero /\ View(cur) # View(cells[me])
  BY <1>8, DrawView
<1>2. CASE MissCode
  <2>1. /\ cells' = cells /\ code' = code /\ list' = list /\ brought' = brought
        /\ UNCHANGED held /\ pc # "release" /\ pc' # "release"
    BY <1>2 DEF MissCode, files, memory, Goto
  <2>2. \A n \in Name : ViewCell(n)' = ViewCell(n)
    BY <2>1 DEF ViewCell, Whole, held
  <2>3. ViewCode' = ViewCode
    BY <2>1, ViewCodeSeen DEF held
  <2> QED
    BY <2>1, <2>2, <2>3, SameView
<1>3. CASE TakeCode \/ ReleaseCode
  <2>1. /\ cells' = cells /\ list' = list /\ brought' = brought /\ me' = me /\ cur' = cur
        /\ kidName' = kidName /\ kid' = kid /\ debris' = {} /\ pc # "release" /\ pc' # "release"
    BY <1>0, <1>3 DEF TakeCode, ReleaseCode, Goto
  <2>2. \A n \in Name : ViewCell(n)' = ViewCell(n)
    BY <2>1 DEF ViewCell, Whole
  <2>3. /\ code' \in [Code -> Nat]
        /\ \A x \in Code : code'[x] + (IF hand' = x THEN 1 ELSE 0) = code[x] + (IF hand = x THEN 1 ELSE 0)
    BY <1>0, <1>3, AbsentAssumption DEF TakeCode, ReleaseCode, Shape, TypeOK, MemoryOK
  <2>4. ViewCode' = ViewCode
    <3>1. /\ ViewCode = [x \in Code |-> code[x] + (IF hand = x THEN 1 ELSE 0)]
          /\ ViewCode' = [x \in Code |-> code'[x] + (IF hand' = x THEN 1 ELSE 0)]
      <4>1. /\ ViewCode = CodeSeen(code, hand, {}, cur.dna)
            /\ ViewCode' = CodeSeen(code', hand', {}, cur'.dna)
        BY <1>0, <2>1, ViewCodeSeen
      <4>2. CodeSeen(code, hand, {}, cur.dna) = [x \in Code |-> code[x] + (IF hand = x THEN 1 ELSE 0)]
        BY <1>0, SeenClean
      <4>3. CodeSeen(code', hand', {}, cur'.dna)
              = [x \in Code |-> code'[x] + (IF hand' = x THEN 1 ELSE 0)]
        BY <2>3, SeenClean
      <4> QED
        BY <4>1, <4>2, <4>3, Zenon
    <3> QED
      BY <2>3, <3>1
  <2> QED
    BY <2>1, <2>2, <2>4, SameView
<1>4. CASE BirthWrite
  <2>1. /\ cells' = [cells EXCEPT ![kidName] = kid] /\ code' = code /\ list' = list
        /\ brought' = brought /\ me' = me /\ cur' = cur /\ kidName' = Nothing /\ hand' = hand /\ debris' = debris
        /\ pc = "birth" /\ pc' = "age"
    BY <1>4 DEF BirthWrite, Goto
  <2>2. kidName \in Name /\ kid \in Cell
    BY <2>1 DEF Shape, TypeOK, MemoryOK
  <2>3. \A n \in Name : ViewCell(n)' = ViewCell(n)
    BY <1>0, <2>1, <2>2, AbsentAssumption DEF ViewCell, Whole
  <2>4. ViewCode' = ViewCode
    BY <2>1, ViewCodeSeen
  <2> QED
    BY <2>1, <2>3, <2>4, SameView
<1>5. CASE BondCode
  <2>1. PICK i \in DOMAIN cur.dna :
          IsFirstFree(cur.dna, hand, i) /\ cur' = [cur EXCEPT !.dna = Bonded(cur.dna, i)]
    BY <1>5 DEF BondCode
  <2>2. /\ cells' = cells /\ code' = code /\ list' = list /\ brought' = brought /\ me' = me
        /\ kidName' = Nothing /\ hand' = Nothing /\ debris' = {} /\ pc = "bond" /\ pc' # "release" /\ kidName = Nothing
    BY <1>0, <1>5 DEF BondCode, files, Goto
  <2>3. hand \in Code
    BY <2>2 DEF Shape, TypeOK, MemoryOK
  <2>4. Bonded(cur.dna, i) \in Seq(Codon)
    BY <1>0, BondedDna
  <2>5. View(cur') = [View(cur) EXCEPT !.dna = Bonded(cur.dna, i)]
    BY <1>0, <2>1, <2>4, CellFields
  <2>6. \A n \in Name : /\ n = me => ViewCell(n) = View(cur) /\ ViewCell(n)' = View(cur')
                        /\ n # me => ViewCell(n)' = ViewCell(n)
    BY <1>0, <2>2, AbsentAssumption DEF ViewCell, Whole
  <2>7. /\ ViewCode = [x \in Code |-> code[x] + (IF hand = x THEN 1 ELSE 0)]
        /\ ViewCode' = code
    BY <1>0, <2>2, ViewCodeSeen, SeenClean, AbsentAssumption
  <2>8. ViewCode' = [ViewCode EXCEPT ![hand] = @ - 1] /\ ViewCode[hand] > 0
    BY <1>0, <2>3, <2>7
  <2>9. View(cur).dna = cur.dna /\ View(cur) # Absent
    BY <1>0, ViewType DEF View
  <2>10. ViewCells' = [ViewCells EXCEPT ![me].dna = Bonded(@, i)]
    <3>1. ViewCells[me] = View(cur)
      BY <1>0, <2>6 DEF ViewCells
    <3>2. ViewCells' = [ViewCells EXCEPT ![me] = View(cur')]
      BY <1>0, <2>6 DEF ViewCells
    <3> QED
      BY <2>5, <2>9, <3>1, <3>2
  <2>11. ViewCells[me] = View(cur)
    BY <1>0, <2>6 DEF ViewCells
  <2>12. Eco!Bond(me)
    BY <1>0, <2>1, <2>2, <2>3, <2>8, <2>9, <2>10, <2>11, SameDna DEF Eco!Bond, Eco!Living
  <2> QED
    BY <1>0, <2>12 DEF Eco!Next
<1>6. CASE Divide
  <2> DEFINE growing == Len(cur.dna) < MaxDna /\ Room
  <2>1. PICK m \in FreeNames, child \in Children(cur, list, growing) :
          kidName' = m /\ kid' = Newborn(child) /\ cells' = [cells EXCEPT ![m] = Torn]
    BY <1>6 DEF Divide
  <2>2. /\ cur' = [cur EXCEPT !.dna = Cleared(cur.dna)] /\ code' = code /\ list' = list /\ me' = me
        /\ brought' = brought /\ hand' = hand /\ hand = Nothing /\ debris' = {} /\ pc = "divide" /\ pc' = "birth"
        /\ kidName = Nothing /\ cur.dna # <<>>
    BY <1>0, <1>6 DEF Divide, Goto
  <2>3. m \in Name /\ m # me /\ cells[m] = Absent
    BY <1>0, <2>1 DEF FreeNames, Files, Whole
  <2>4. Cleared(cur.dna) \in Seq(Codon)
    BY <1>0, ClearedDna
  <2>5. View(cur') = [View(cur) EXCEPT !.dna = Cleared(cur.dna)]
    BY <1>0, <2>2, <2>4, CellFields
  <2>6. View(kid') = View(child) /\ View(child) \in Children(View(cur), list, growing)
    BY <1>0, <2>1, ChildIsCell, ViewChild
  <2>7. \A n \in Name : /\ n = me => ViewCell(n) = View(cur) /\ ViewCell(n)' = View(cur')
                        /\ n = m => ViewCell(n) = Absent /\ ViewCell(n)' = View(child)
                        /\ n \notin {me, m} => ViewCell(n)' = ViewCell(n)
    BY <1>0, <2>1, <2>2, <2>3, <2>6, AbsentAssumption DEF ViewCell, Whole
  <2>8. ViewCode' = ViewCode
    BY <1>0, <2>2, ViewCodeSeen, SeenClean
  <2>9. View(cur).dna = cur.dna /\ View(cur) # Absent
    BY <1>0, ViewType DEF View
  <2>10. ViewCells[me] = View(cur) /\ ViewCells[m] = Absent
    BY <1>0, <2>3, <2>7 DEF ViewCells
  <2>11. ViewCells' = [ViewCells EXCEPT ![me].dna = Cleared(@), ![m] = View(child)]
    <3>1. ViewCells' = [ViewCells EXCEPT ![me] = View(cur'), ![m] = View(child)]
      BY <1>0, <2>3, <2>7 DEF ViewCells
    <3> QED
      BY <2>5, <2>9, <2>10, <3>1
  <2>12. Dividable(cur.dna)
    BY <2>2 DEF Faithful
  <2>13. Eco!Divide(me, m)
    <3> DEFINE room == Len(ViewCells[me].dna) < MaxDna /\ Eco!Matter < MaxMatter
    <3>1. ViewCells[me].dna = cur.dna
      BY <2>9, <2>10
    <3>2. growing = room
      BY <3>1 DEF Room
    <3>3. View(child) \in Eco!Children(ViewCells[me], list, room)
      <4> HIDE DEF growing, room
      <4> QED
        BY <2>6, <2>10, <3>2, SameDna
    <3>4. me \in Eco!Living /\ m \in Name \ Eco!Living
      BY <1>0, <2>3, <2>9, <2>10 DEF Eco!Living
    <3>5. Eco!Dividable(ViewCells[me].dna) /\ ViewCells[me].dna # <<>>
      BY <2>2, <2>12, <3>1, SameDna
    <3>6. ViewCells' = [ViewCells EXCEPT ![me].dna = Eco!Cleared(@), ![m] = View(child)]
      BY <2>11, SameDna
    <3> QED
      BY <2>2, <2>8, <3>3, <3>4, <3>5, <3>6 DEF Eco!Divide
  <2> QED
    BY <1>0, <2>3, <2>13 DEF Eco!Next
<1> QED
  BY <1>1, <1>2, <1>3, <1>4, <1>5, <1>6, <1>7, <1>8

\* Life and death: a cell ages or dies in one step of Ecosystem, and what is
\* left of it is in code/ at once.
LEMMA LifeView ==
  ASSUME Shape, Pace,
         Age \/ ReleaseArg \/ ReleaseCodon \/ RemoveCell \/ SaveOpen \/ SaveWrite
  PROVE  [Eco!Next]_(Eco!vars)
<1>0. /\ code \in [Code -> Nat] /\ cells \in [Name -> Cell \cup {Absent, Torn}]
      /\ me \in Name /\ cur \in Cell /\ hand = Nothing /\ kidName = Nothing
      /\ pc \in {"age", "release", "saveOpen", "saveWrite"} /\ cur.dna \in Seq(Codon)
      /\ IF pc = "release" THEN debris \subseteq Debris(cur.dna) ELSE debris = {}
  <2>1. pc \in {"age", "release", "saveOpen", "saveWrite"}
    BY DEF Age, ReleaseArg, ReleaseCodon, RemoveCell, SaveOpen, SaveWrite, Open
  <2>2. me \in Name /\ cur \in Cell
    BY <2>1 DEF Shape, TypeOK, MemoryOK, Working
  <2>3. cur.dna \in Seq(Codon)
    BY <2>2, CellFields
  <2> QED
    BY <2>1, <2>2, <2>3 DEF Shape, TypeOK, MemoryOK
<1>1. CASE SaveOpen \/ SaveWrite \/ RemoveCell
  <2>1. /\ code' = code /\ list' = list /\ brought' = brought /\ hand' = hand
        /\ kidName' = kidName /\ debris = {}
        /\ debris' = {} /\ pc' # "release"
    BY <1>0, <1>1 DEF SaveOpen, SaveWrite, RemoveCell, Open, memory, held, Goto
  <2>2. \/ /\ pc # "release" /\ me' = me /\ cur' = cur /\ cells' = [cells EXCEPT ![me] = Torn]
        \/ /\ pc # "release" /\ me' = Nothing /\ cells' = [cells EXCEPT ![me] = cur]
        \/ /\ pc = "release" /\ me' = Nothing /\ cells' = [cells EXCEPT ![me] = Absent]
    BY <1>1 DEF SaveOpen, SaveWrite, RemoveCell, Open, memory, held
  <2>3. \A n \in Name : ViewCell(n)' = ViewCell(n)
    BY <1>0, <2>1, <2>2, AbsentAssumption DEF ViewCell, Whole
  <2>4. ViewCode = code /\ ViewCode' = code
    BY <1>0, <2>1, ViewCodeSeen, SeenClean, AbsentAssumption
  <2> QED
    BY <2>1, <2>3, <2>4, SameView
<1>2. CASE ReleaseArg \/ ReleaseCodon
  <2>1. /\ cells' = cells /\ list' = list /\ brought' = brought /\ me' = me /\ hand' = hand /\ kidName' = kidName
        /\ kid' = kid /\ pc = "release" /\ pc' = pc
    BY <1>2 DEF ReleaseArg, ReleaseCodon
  <2>2. \A n \in Name : ViewCell(n)' = ViewCell(n)
    BY <2>1 DEF ViewCell, Whole
  <2>3. CASE ReleaseArg
    <3>1. cur' = [cur EXCEPT !.hasArgs = cur.hasArgs - 1] /\ code' = code /\ debris' = debris
      BY <2>3 DEF ReleaseArg
    <3>2. cur'.dna = cur.dna
      BY <1>0, <3>1 DEF Cell
    <3>3. ViewCode' = ViewCode
      BY <2>1, <3>1, <3>2, ViewCodeSeen
    <3> QED
      BY <2>1, <2>2, <3>3, SameView
  <2>4. CASE ReleaseCodon
    <3>1. PICK d \in debris : /\ code' = [code EXCEPT ![cur.dna[d[1]].code] = @ + 1]
                             /\ debris' = debris \ {d} /\ cur' = cur
      BY <2>4 DEF ReleaseCodon
    <3> DEFINE Of(rest, x) == {e \in rest : cur.dna[e[1]].code = x}
    <3>2. IsFiniteSet(debris)
      BY <1>0, <2>1, SeenDebris, FS_Subset
    <3>3. ASSUME NEW x \in Code
          PROVE  code'[x] + Cardinality(Of(debris', x)) = code[x] + Cardinality(Of(debris, x))
      <4>1. IsFiniteSet(Of(debris, x)) /\ Cardinality(Of(debris, x)) \in Nat
        BY <3>2, FS_Subset, FS_CardinalityType
      <4>2. CASE cur.dna[d[1]].code = x
        <5>1. Of(debris', x) = Of(debris, x) \ {d} /\ d \in Of(debris, x)
          BY <3>1, <4>2
        <5>2. Cardinality(Of(debris, x) \ {d}) = Cardinality(Of(debris, x)) - 1
          <6> HIDE DEF Of
          <6> QED
            BY <4>1, <5>1, FS_RemoveElement
        <5>3. Cardinality(Of(debris', x)) = Cardinality(Of(debris, x) \ {d})
          BY <5>1, Zenon
        <5>4. code'[x] = code[x] + 1 /\ code[x] \in Nat
          BY <1>0, <3>1, <4>2
        <5> HIDE DEF Of
        <5> QED
          BY <4>1, <5>2, <5>3, <5>4
      <4>3. CASE cur.dna[d[1]].code # x
        <5>1. Of(debris', x) = Of(debris, x)
          BY <3>1, <4>3
        <5>2. Cardinality(Of(debris', x)) = Cardinality(Of(debris, x))
          BY <5>1, Zenon
        <5>3. code'[x] = code[x]
          BY <1>0, <3>1, <4>3
        <5> HIDE DEF Of
        <5> QED
          BY <5>2, <5>3
      <4> QED
        BY <4>2, <4>3
    <3>4. /\ ViewCode = [x \in Code |-> code[x] + 0 + Cardinality(Of(debris, x))]
          /\ ViewCode' = [x \in Code |-> code'[x] + 0 + Cardinality(Of(debris', x))]
      <4>1. \A x \in Code : hand # x /\ hand' # x
        BY <1>0, <2>1, AbsentAssumption
      <4> QED
        BY <3>1, <4>1 DEF ViewCode
    <3>5. \A x \in Code : /\ code[x] \in Nat /\ code'[x] \in Nat
      BY <1>0, <3>1
    <3>6. ViewCode' = ViewCode
      <4> HIDE DEF Of
      <4> QED
        BY <3>3, <3>4, <3>5
    <3> QED
      BY <2>1, <2>2, <3>6, SameView
  <2> QED
    BY <1>2, <2>3, <2>4
<1>3. CASE Age
  <2>1. /\ cells' = cells /\ code' = code /\ list' = list /\ brought' = brought /\ me' = me /\ hand' = hand
        /\ kidName' = kidName /\ kid' = kid /\ pc = "age" /\ debris = {}
    BY <1>0, <1>3 DEF Age, files
  <2>2. Paced(cur, 1)
    BY <2>1 DEF Pace
  <2>3. cur.life \in 0..Word-1 /\ cur.left \in 1..cur.life
    BY <1>0, <2>2, CellFields DEF Paced
  <2>4. (cur.left - 1) % Word = cur.left - 1 /\ cur.left - 1 \in 0..Word-1
    BY <2>3, DnaAssumption
  <2>5. cur' = [cur EXCEPT !.left = cur.left - 1]
    BY <1>3, <2>4 DEF Age
  <2>6. View(cur') = [View(cur) EXCEPT !.left = cur.left - 1] /\ cur'.dna = cur.dna
    BY <1>0, <2>4, <2>5, CellFields
  <2>7. ViewCells[me] = View(cur) /\ View(cur) # Absent /\ View(cur).left = cur.left
          /\ View(cur).dna = cur.dna
    BY <1>0, <2>1, ViewType DEF ViewCells, ViewCell, View
  <2>8. ViewCode = code
    BY <1>0, <2>1, ViewCodeSeen, SeenClean, AbsentAssumption
  <2>9. CASE cur.left = 1
    <3>1. pc' = "release" /\ debris' = Debris(cur.dna)
      BY <1>3, <2>4, <2>9 DEF Age, Over, Goto
    <3>2. ViewCells' = [ViewCells EXCEPT ![me] = Absent]
      BY <1>0, <2>1, <3>1 DEF ViewCells, ViewCell, Whole
    <3>3. ViewCode' = [x \in Code |-> code[x] + Eco!Remains(cur.dna, x)]
      <4>1. \A x \in Code : Cardinality({d \in debris' : cur'.dna[d[1]].code = x}) = Eco!Remains(cur.dna, x)
        BY <1>0, <2>6, <3>1, SeenDebris
      <4>2. \A x \in Code : hand' # x /\ code[x] \in Nat
        BY <1>0, <2>1, AbsentAssumption
      <4>3. \A x \in Code : code'[x] + (IF hand' = x THEN 1 ELSE 0) = code[x]
        BY <2>1, <4>2
      <4> QED
        BY <4>1, <4>3 DEF ViewCode
    <3>4. Eco!Die(me)
      BY <1>0, <2>1, <2>7, <2>8, <2>9, <3>2, <3>3 DEF Eco!Die, Eco!Living, Eco!Released
    <3> QED
      BY <1>0, <3>4 DEF Eco!Next
  <2>10. CASE cur.left # 1
    <3>1. pc' = "saveOpen" /\ debris' = {}
      BY <1>3, <2>1, <2>3, <2>4, <2>10 DEF Age, Over, Goto
    <3>2. ViewCells' = [ViewCells EXCEPT ![me] = View(cur')]
      BY <1>0, <2>1, <3>1 DEF ViewCells, ViewCell, Whole
    <3>3. ViewCells' = [ViewCells EXCEPT ![me].left = @ - 1]
      BY <2>6, <2>7, <3>2
    <3>4. ViewCode' = code
      BY <1>0, <2>1, <3>1, ViewCodeSeen, SeenClean, AbsentAssumption
    <3>5. me \in Eco!Living /\ ViewCells[me].left > 1
      BY <1>0, <2>3, <2>7, <2>10 DEF Eco!Living
    <3>6. Eco!Age(me)
      BY <2>1, <2>8, <3>3, <3>4, <3>5 DEF Eco!Age
    <3> QED
      BY <1>0, <3>6 DEF Eco!Next
  <2> QED
    BY <2>9, <2>10
<1> QED
  BY <1>1, <1>2, <1>3

\* The user: a compound more and a cell more are seen, once they are whole.
LEMMA UserView ==
  ASSUME Shape, User \/ UNCHANGED vars
  PROVE  [Eco!Next]_(Eco!vars)
<1>1. CASE Start \/ Stop \/ SwitchEndless \/ RequestUpdate \/ SupplyOpen \/ UNCHANGED vars
  <2>1. /\ cells' = cells /\ code' = code /\ list' = list /\ brought' = brought
        /\ UNCHANGED held
        /\ pc = "release" <=> pc' = "release"
    BY <1>1 DEF Start, Stop, SwitchEndless, RequestUpdate, SupplyOpen, vars, files, memory, Goto,
       Alive
  <2>2. \A n \in Name : ViewCell(n)' = ViewCell(n)
    BY <2>1 DEF ViewCell, Whole, held
  <2>3. ViewCode' = ViewCode
    BY <2>1, ViewCodeSeen DEF held
  <2> QED
    BY <2>1, <2>2, <2>3, SameView
<1>2. CASE SupplyWrite
  <2>1. /\ cells' = cells /\ list' = list /\ brought' = brought /\ UNCHANGED held /\ pc' = pc
        /\ Eco!Matter < MaxMatter
    BY <1>2 DEF SupplyWrite, memory, Room
  <2>2. PICK x \in Code : code' = [code EXCEPT ![x] = @ + 1]
    BY <1>2 DEF SupplyWrite
  <2>3. \A n \in Name : ViewCell(n)' = ViewCell(n)
    BY <2>1 DEF ViewCell, Whole, held
  <2>4. ViewCells' = ViewCells
    BY <2>3 DEF ViewCells
  <2>5. ViewCode' = [ViewCode EXCEPT ![x] = @ + 1]
    <3> DEFINE Rest(y) == Cardinality({d \in debris : cur.dna[d[1]].code = y})
    <3>0. code \in [Code -> Nat]
      BY DEF Shape, TypeOK
    <3>1. ASSUME NEW y \in Code
          PROVE  Rest(y) \in Nat
      <4>1. CASE pc = "release"
        <5>1. debris \subseteq Debris(cur.dna) /\ cur \in Cell
          BY <4>1 DEF Shape, TypeOK, MemoryOK, Working
        <5>2. cur.dna \in Seq(Codon)
          BY <5>1, CellFields
        <5>3. IsFiniteSet(Debris(cur.dna))
          BY <5>2, SeenDebris
        <5>4. IsFiniteSet(debris)
          BY <5>1, <5>3, FS_Subset
        <5>5. IsFiniteSet({d \in debris : cur.dna[d[1]].code = y})
          BY <5>4, FS_Subset
        <5> QED
          BY <5>5, FS_CardinalityType
      <4>2. CASE pc # "release"
        <5>1. {d \in debris : cur.dna[d[1]].code = y} = {}
          BY <4>2 DEF Shape, TypeOK, MemoryOK
        <5>2. Cardinality({d \in debris : cur.dna[d[1]].code = y}) = Cardinality({})
          BY <5>1, Zenon
        <5> QED
          BY <5>2, FS_EmptySet
      <4> QED
        BY <4>1, <4>2
    <3>2. /\ ViewCode = [y \in Code |-> code[y] + (IF hand = y THEN 1 ELSE 0) + Rest(y)]
          /\ ViewCode' = [y \in Code |-> code'[y] + (IF hand = y THEN 1 ELSE 0) + Rest(y)]
      BY <2>1 DEF ViewCode, held
    <3> HIDE DEF Rest
    <3> QED
      BY <2>2, <3>0, <3>1, <3>2
  <2>6. Eco!Supply(x)
    BY <2>1, <2>4, <2>5 DEF Eco!Supply
  <2> QED
    BY <2>6 DEF Eco!Next
<1>3. CASE PlaceOpen
  <2>1. /\ code' = code /\ list' = list /\ brought' = brought /\ UNCHANGED held /\ pc' = pc
    BY <1>3 DEF PlaceOpen, memory
  <2>2. PICK m \in Name \ Files : cells' = [cells EXCEPT ![m] = Torn]
    BY <1>3 DEF PlaceOpen
  <2>3. cells[m] = Absent /\ m # me /\ m # kidName
    BY <2>2, AbsentAssumption DEF Files, Shape, TypeOK, MemoryOK, FilesOK, Working, Whole
  <2>4. \A n \in Name : ViewCell(n)' = ViewCell(n)
    BY <2>1, <2>2, <2>3, AbsentAssumption DEF ViewCell, Whole, held, Shape, TypeOK
  <2>5. ViewCode' = ViewCode
    BY <2>1, ViewCodeSeen DEF held
  <2> QED
    BY <2>1, <2>4, <2>5, SameView
<1>4. CASE PlaceWrite
  <2> DEFINE m == copying
  <2>1. /\ code' = code /\ list' = list /\ UNCHANGED held /\ pc' = pc /\ m \in Name
    BY <1>4 DEF PlaceWrite
  <2>2. PICK c \in Visitors : /\ cells' = [cells EXCEPT ![m] = c]
                              /\ brought' = brought \cup Codes(c.dna)
                              /\ Eco!Matter + Len(c.dna) <= MaxMatter
    BY <1>4 DEF PlaceWrite
  <2>3. cells[m] = Torn /\ m # me /\ m # kidName /\ c \in Cell
    BY <2>1, SysEnvAssumption DEF Shape, FilesOK, Founder
  <2> HIDE DEF m
  <2>4. \A n \in Name : /\ n = m => ViewCell(n) = Absent /\ ViewCell(n)' = View(c)
                        /\ n # m => ViewCell(n)' = ViewCell(n)
    BY <2>1, <2>2, <2>3, AbsentAssumption DEF ViewCell, Whole, held, Shape, TypeOK
  <2>5. ViewCells' = [ViewCells EXCEPT ![m] = View(c)] /\ ViewCells[m] = Absent
    BY <2>1, <2>4 DEF ViewCells
  <2>6. ViewCode' = ViewCode
    BY <2>1, ViewCodeSeen DEF held
  <2>7. View(c).dna = c.dna /\ Eco!Codes(c.dna) = Codes(c.dna)
    BY SameDna DEF View
  <2>8. m \in Name \ Eco!Living
    BY <2>1, <2>5 DEF Eco!Living
  <2>9. Eco!Arrive(m)
    BY <2>1, <2>2, <2>5, <2>6, <2>7, <2>8 DEF Eco!Arrive
  <2> QED
    BY <2>1, <2>9 DEF Eco!Next
<1> QED
  BY <1>1, <1>2, <1>3, <1>4 DEF User

(***************************************************************************)
(* The refinement: unless somebody kills it, dsy-sysenv keeps the promise  *)
(* of Ecosystem, for every genome, population, schedule of the user and    *)
(* verdict of the evaluator, through its files, aborts and restarts        *)
(* (cell.c:17-112, 590-662, 696-830; sysenv.c:85-177).                     *)
(***************************************************************************)
THEOREM ImplementsTheorem == Spec /\ [](kills = 0) => Implements
<1>1. Init => Faithful
  BY DEF Init, Faithful, Before
<1>2. Shape /\ Pace /\ Faithful /\ [Next]_vars /\ kills = 0 /\ (kills = 0)' => [Eco!Next]_(Eco!vars)
  <2> SUFFICES ASSUME Shape, Pace, Faithful, [Next]_vars, kills = 0, kills' = 0
               PROVE  [Eco!Next]_(Eco!vars)
    OBVIOUS
  <2>1. ~Kill
    BY DEF Kill
  <2> QED
    BY <2>1, MainView, MetabolismView, GrowthView, LifeView, UserView DEF Next, Process
<1>3. Spec => [](Shape /\ Pace /\ Faithful)
  BY <1>1, InitShape, NextShape, InitPace, NextPace, NextFaithful, PTL DEF Spec
<1>4. Spec /\ [](kills = 0) => Eco!Spec
  BY <1>2, <1>3, InitView, PTL DEF Spec, Eco!Spec
<1> QED
  BY <1>4 DEF Implements

-----------------------------------------------------------------------------
(* The books of the arguments *)

\* The arguments that the cells hold, when the cell n holds f[n] of them.
Tokens(f) == UNION {{<<n, k>> : k \in 1..f[n]} : n \in Name}

LEMMA TokensFinite ==
  ASSUME NEW f \in [Name -> Nat]
  PROVE  IsFiniteSet(Tokens(f)) /\ Cardinality(Tokens(f)) \in Nat
<1> DEFINE Row(n) == {<<n, k>> : k \in 1..f[n]}
<1>1. ASSUME NEW n \in Name
      PROVE  IsFiniteSet(Row(n))
  <2>1. f[n] \in Nat
    OBVIOUS
  <2>2. IsFiniteSet(1..f[n])
    BY <2>1, FS_Interval
  <2>3. IsFiniteSet({n}) /\ IsFiniteSet({n} \X (1..f[n]))
    BY <2>2, FS_Singleton, FS_Product
  <2>4. Row(n) \subseteq {n} \X (1..f[n])
    OBVIOUS
  <2> QED
    BY <2>3, <2>4, FS_Subset
<1>2. IsFiniteSet({Row(n) : n \in Name})
  <2> DEFINE R == [n \in Name |-> Row(n)]
             T == {Row(n) : n \in Name}
  <2>1. R \in [Name -> T] /\ \A t \in T : \E n \in Name : R[n] = t
    <3> HIDE DEF Row
    <3> QED
      OBVIOUS
  <2>2. R \in Surjection(Name, T)
    BY <2>1 DEF Surjection
  <2> HIDE DEF R, T
  <2>3. IsFiniteSet(T)
    BY <2>2, SysEnvAssumption, FS_Surjection
  <2> QED
    BY <2>3 DEF T
<1>3. IsFiniteSet(UNION {Row(n) : n \in Name})
  <2> HIDE DEF Row
  <2> QED
    BY <1>1, <1>2, FS_UNION
<1> QED
  BY <1>3, FS_CardinalityType DEF Tokens

\* A cell that takes one more makes it one more in all.
LEMMA TokensMore ==
  ASSUME NEW f \in [Name -> Nat], NEW g \in [Name -> Nat], NEW m \in Name,
         g[m] = f[m] + 1, \A n \in Name \ {m} : g[n] = f[n]
  PROVE  Cardinality(Tokens(g)) = Cardinality(Tokens(f)) + 1
<1> DEFINE t == <<m, f[m] + 1>>
<1>1. f[m] \in Nat
  OBVIOUS
<1>2. t \notin Tokens(f)
  BY <1>1 DEF Tokens
<1>3. ASSUME NEW s
      PROVE  s \in Tokens(g) <=> s \in Tokens(f) \/ s = t
  <2>1. s \in Tokens(g) <=> \E n \in Name : \E k \in 1..g[n] : s = <<n, k>>
    BY DEF Tokens
  <2>2. s \in Tokens(f) <=> \E n \in Name : \E k \in 1..f[n] : s = <<n, k>>
    BY DEF Tokens
  <2>3. \A k : k \in 1..g[m] <=> k \in 1..f[m] \/ k = f[m] + 1
    BY <1>1
  <2> QED
    BY <2>1, <2>2, <2>3
<1>4. Tokens(g) = Tokens(f) \cup {t}
  BY <1>3
<1>5. Cardinality(Tokens(f) \cup {t}) = Cardinality(Tokens(f)) + 1
  <2> HIDE DEF t
  <2> QED
    BY <1>2, TokensFinite, FS_AddElement
<1> QED
  BY <1>4, <1>5, Zenon

\* So does a cell that comes with k, by k.
LEMMA TokensPlaced ==
  ASSUME NEW f \in [Name -> Nat], NEW g \in [Name -> Nat], NEW m \in Name,
         f[m] = 0, \A n \in Name \ {m} : g[n] = f[n]
  PROVE  Cardinality(Tokens(g)) = Cardinality(Tokens(f)) + g[m]
<1> DEFINE new == {m} \X (1..g[m])
<1>1. g[m] \in Nat
  OBVIOUS
<1>2. IsFiniteSet(new) /\ Cardinality(new) = g[m]
  <2>1. IsFiniteSet(1..g[m]) /\ Cardinality(1..g[m]) = g[m]
    BY <1>1, FS_Interval
  <2>2. IsFiniteSet({m}) /\ Cardinality({m}) = 1
    BY FS_Singleton
  <2>3. IsFiniteSet(new) /\ Cardinality(new) = Cardinality({m}) * Cardinality(1..g[m])
    BY <2>1, <2>2, FS_Product
  <2> QED
    BY <1>1, <2>1, <2>2, <2>3
<1>3. ASSUME NEW s
      PROVE  s \in Tokens(g) <=> s \in Tokens(f) \/ s \in new
  <2>1. s \in Tokens(g) <=> \E n \in Name : \E k \in 1..g[n] : s = <<n, k>>
    BY DEF Tokens
  <2>2. s \in Tokens(f) <=> \E n \in Name : \E k \in 1..f[n] : s = <<n, k>>
    BY DEF Tokens
  <2>3. ~ \E k : k \in 1..f[m]
    OBVIOUS
  <2>4. s \in new <=> \E k \in 1..g[m] : s = <<m, k>>
    OBVIOUS
  <2> QED
    BY <2>1, <2>2, <2>3, <2>4
<1>4. Tokens(f) \cap new = {}
  BY DEF Tokens
<1>5. Tokens(g) = Tokens(f) \cup new
  BY <1>3
<1> HIDE DEF new
<1>6. IsFiniteSet(Tokens(f)) /\ Cardinality(Tokens(f)) \in Nat
  BY TokensFinite
<1>7. Cardinality(Tokens(f) \cup new)
        = Cardinality(Tokens(f)) + Cardinality(new) - Cardinality(Tokens(f) \cap new)
  BY <1>2, <1>6, FS_Union
<1>8. Cardinality(Tokens(f) \cap new) = 0
  BY <1>4, FS_EmptySet
<1>9. Cardinality(Tokens(g)) = Cardinality(Tokens(f) \cup new)
  BY <1>5, Zenon
<1> QED
  BY <1>1, <1>2, <1>6, <1>7, <1>8, <1>9

LEMMA TokensSame ==
  ASSUME NEW f, NEW g, \A n \in Name : g[n] = f[n]
  PROVE  Cardinality(Tokens(g)) = Cardinality(Tokens(f))
<1>1. Tokens(g) = Tokens(f)
  BY DEF Tokens
<1> QED
  BY <1>1, Zenon

\* What each cell holds, and how much that is.
Holding == [n \in Name |-> ArgsHeld(n)]

LEMMA HoldingTokens ==
  /\ DataTotal = data + Cardinality(Tokens(Holding))
  /\ DataTotal' = data' + Cardinality(Tokens(Holding'))
<1>1. \A n \in Name : ArgsOf(n) = {<<n, k>> : k \in 1..Holding[n]}
  BY DEF ArgsOf, Holding
<1>2. \A n \in Name : ArgsOf(n)' = {<<n, k>> : k \in 1..Holding'[n]}
  BY DEF ArgsOf, Holding
<1>3. {ArgsOf(n) : n \in Name} = {{<<n, k>> : k \in 1..Holding[n]} : n \in Name}
  BY <1>1
<1>4. {ArgsOf(n)' : n \in Name} = {{<<n, k>> : k \in 1..Holding'[n]} : n \in Name}
  BY <1>2
<1> QED
  BY <1>3, <1>4, Zenon DEF DataTotal, Tokens

LEMMA HoldingType == Shape => Holding \in [Name -> Nat]
<1> SUFFICES ASSUME Shape PROVE Holding \in [Name -> Nat]
  OBVIOUS
<1>1. ASSUME NEW n \in Name
      PROVE  ArgsHeld(n) \in Nat
  <2>1. CASE n = me /\ pc # "eval"
    <3>1. cur \in Cell
      BY <2>1, AbsentAssumption DEF Shape, TypeOK, MemoryOK
    <3> QED
      BY <2>1, <3>1, CellFields DEF ArgsHeld
  <2>2. CASE ~(n = me /\ pc # "eval") /\ Whole(n)
    <3>1. cells[n] \in Cell
      BY <2>2 DEF Whole, Shape, TypeOK
    <3> QED
      BY <2>2, <3>1, CellFields DEF ArgsHeld
  <2>3. CASE ~(n = me /\ pc # "eval") /\ ~Whole(n)
    BY <2>3 DEF ArgsHeld
  <2> QED
    BY <2>1, <2>2, <2>3
<1> QED
  BY <1>1 DEF Holding

LEMMA HoldingTypeNext == Shape' => (Holding \in [Name -> Nat])'
  BY HoldingType, PTL

\* The inductive invariant: what the process has taken and not yet written is
\* one argument at the most, and a child has none.
ArgsKept ==
  /\ pc \in {"args", "output", "endless", "stop", "unlink"} => cur.hasArgs = cells[me].hasArgs
  /\ pc \in {"take", "bond", "divide"} =>
        cur.hasArgs = cells[me].hasArgs \/ cur.hasArgs = cells[me].hasArgs + 1
  /\ pc = "birth" => kid.hasArgs = 0

LEMMA NextArgsKept == Shape /\ ArgsKept /\ [Next]_vars => ArgsKept'
<1> SUFFICES ASSUME Shape, ArgsKept, [Next]_vars
             PROVE  ArgsKept'
  OBVIOUS
<1> DEFINE Early == {"args", "output", "endless", "stop", "unlink"}
           Late == {"take", "bond", "divide"}
<1>1. CASE \/ CheckRunning \/ NoCells \/ ScanCells \/ UpdateList \/ UpdateListFails
           \/ KeepList \/ RemoveUpdateCode \/ EndCycle \/ ArgsFull \/ ExitRemoveFails
           \/ EvalOpen \/ EvalWrite \/ ExecCell \/ TakeCodeFails \/ MissCode \/ DivideByZero
           \/ BirthWrite \/ Age
           \/ ReleaseArg \/ ReleaseCodon \/ RemoveCell \/ SaveOpen \/ SaveWrite
           \/ Start \/ Kill
  <2>1. pc' \notin Early \cup Late \cup {"birth"}
    BY <1>1 DEF CheckRunning, NoCells, ScanCells, UpdateList, UpdateListFails,
       KeepList, RemoveUpdateCode, EndCycle, ArgsFull, ExitRemoveFails, EvalOpen, Open,
       EvalWrite, ExecCell, TakeCodeFails, MissCode, DivideByZero, BirthWrite, Age, ReleaseArg, ReleaseCodon,
       RemoveCell, SaveOpen, SaveWrite, Start, Kill, Fail, EndWith, Goto
  <2> QED
    BY <2>1 DEF ArgsKept
<1>2. CASE NeedsNoArgs \/ MissArg \/ SaveOutput \/ CheckEndless \/ ExitCheck \/ ExitRemove
  <2>1. /\ cells' = cells /\ me' = me /\ cur' = cur /\ pc \in Early
        /\ pc' \in (Early \ {"args"}) \cup {"evalOpen", "take"}
    BY <1>2 DEF NeedsNoArgs, MissArg, SaveOutput, CheckEndless, ExitCheck, ExitRemove, Goto,
       files, memory, held
  <2> QED
    BY <2>1 DEF ArgsKept
<1>3. CASE TakeCode \/ ReleaseCode
  <2>1. /\ cells' = cells /\ me' = me /\ cur' = cur /\ pc \in Late
        /\ pc' \in Late \cup {"age"}
    BY <1>3 DEF TakeCode, ReleaseCode, Goto
  <2> QED
    BY <2>1 DEF ArgsKept
<1>4. CASE \/ Stop \/ SwitchEndless \/ SupplyOpen \/ SupplyWrite \/ PlaceOpen \/ PlaceWrite
           \/ RequestUpdate \/ UNCHANGED vars
  <2>1. /\ me' = me /\ cur' = cur /\ pc' = pc /\ kid' = kid
        /\ \/ cells' = cells
           \/ \E n \in Name \ Files : cells' = [cells EXCEPT ![n] = Torn]
           \/ copying \in Name /\ \E c : cells' = [cells EXCEPT ![copying] = c]
    BY <1>4 DEF Stop, SwitchEndless, SupplyOpen, SupplyWrite, PlaceOpen, PlaceWrite, RequestUpdate,
       vars, files, memory, held
  <2>2. pc \in Early \cup Late => me \in Name /\ Whole(me) /\ copying # me
    BY AbsentAssumption DEF Shape, TypeOK, MemoryOK, FilesOK, Working
  <2>3. pc \in Early \cup Late => cells'[me] = cells[me]
    BY <2>1, <2>2 DEF Shape, TypeOK, Files, Whole
  <2> QED
    BY <2>1, <2>3 DEF ArgsKept
<1>5. CASE Load
  BY <1>5 DEF Load, Fail, EndWith, Goto, files, ArgsKept
<1>6. CASE TakeArg
  <2>1. /\ cells' = cells /\ me' = me /\ pc = "args" /\ pc' \in {"evalOpen", "take"}
        /\ cur \in Cell
    BY <1>6 DEF TakeArg, Goto, Shape, TypeOK, MemoryOK, Working
  <2>2. cur' = [cur EXCEPT !.hasArgs = cur.hasArgs + 1]
    BY <1>6 DEF TakeArg
  <2>3. cur'.hasArgs = cur.hasArgs + 1
    BY <2>1, <2>2 DEF Cell
  <2> QED
    BY <2>1, <2>3 DEF ArgsKept
<1>7. CASE Evaluated
  <2>1. pc = "eval" /\ cells' = cells /\ me \in Name /\ cells[me] \in Cell
    BY <1>7 DEF Evaluated, Fail, files, Shape, TypeOK, MemoryOK, FilesOK, Working, Whole
  <2>2. \/ pc' = "failed"
        \/ /\ pc' \in {"output", "take"} /\ me' = me
           /\ \E r \in EvalResults : cur' = [cells[me] EXCEPT !.fitness = r]
    BY <1>7 DEF Evaluated, Fail, EndWith, Goto
  <2>3. pc' = "failed" \/ cur'.hasArgs = cells[me].hasArgs
    BY <2>1, <2>2 DEF Cell
  <2> QED
    BY <2>1, <2>2, <2>3 DEF ArgsKept
<1>8. CASE BondCode
  <2>1. /\ cells' = cells /\ me' = me /\ pc \in Late /\ pc' \in Late \cup {"age"}
        /\ cur \in Cell
    BY <1>8 DEF BondCode, Goto, files, Shape, TypeOK, MemoryOK, Working
  <2>2. cur'.hasArgs = cur.hasArgs
    BY <1>8, <2>1 DEF BondCode, Cell
  <2> QED
    BY <2>1, <2>2 DEF ArgsKept
<1>9. CASE Divide
  <2>1. pc' = "birth" /\ cur \in Cell /\ list \in SUBSET Code
    BY <1>9 DEF Divide, Goto, Shape, TypeOK, MemoryOK, Working
  <2>2. PICK child \in Children(cur, list, Len(cur.dna) < MaxDna /\ Room) :
          kid' = Newborn(child)
    BY <1>9 DEF Divide
  <2>3. Newborn(child) \in Cell
    BY <2>1, ChildIsCell
  <2>4. "hasArgs" \in DOMAIN child => Newborn(child).hasArgs = 0
    BY DEF Newborn
  <2>5. "hasArgs" \in DOMAIN Newborn(child)
    BY <2>3 DEF Cell
  <2>6. DOMAIN Newborn(child) = DOMAIN child
    BY DEF Newborn
  <2> QED
    BY <2>1, <2>2, <2>4, <2>5, <2>6 DEF ArgsKept
<1> QED
  BY <1>1, <1>2, <1>3, <1>4, <1>5, <1>6, <1>7, <1>8, <1>9 DEF Next, Process, User

\* Every step but four leaves each cell what it holds.
LEMMA SameHolding ==
  ASSUME Shape, data' = data, \A n \in Name : ArgsHeld(n)' = ArgsHeld(n)
  PROVE  DataTotal' = DataTotal
<1>1. \A n \in Name : Holding'[n] = Holding[n]
  BY DEF Holding
<1>2. Cardinality(Tokens(Holding')) = Cardinality(Tokens(Holding))
  BY <1>1, TokensSame
<1> QED
  BY <1>2, HoldingTokens

\* Steps in which nothing is taken and nothing is put back.
LEMMA QuietData ==
  ASSUME Shape, ArgsKept, pc # "eval",
         \/ CheckRunning \/ NoCells \/ ScanCells \/ UpdateList \/ UpdateListFails
         \/ KeepList \/ RemoveUpdateCode \/ EndCycle \/ Load \/ ArgsFull \/ ExitRemoveFails
         \/ NeedsNoArgs \/ MissArg \/ EvalOpen \/ EvalWrite \/ SaveOutput \/ CheckEndless
         \/ ExitCheck \/ ExitRemove \/ TakeCode \/ MissCode \/ BondCode \/ ReleaseCode
         \/ Divide \/ BirthWrite \/ Age \/ ReleaseCodon \/ RemoveCell \/ SaveOpen \/ SaveWrite
         \/ Start \/ Stop \/ SwitchEndless \/ RequestUpdate \/ SupplyOpen \/ SupplyWrite
         \/ PlaceOpen \/ UNCHANGED vars
  PROVE  DataTotal' = DataTotal
<1> DEFINE Same == data' = data /\ \A n \in Name : ArgsHeld(n)' = ArgsHeld(n)
<1>0. SUFFICES Same
  BY SameHolding
<1>1. cells \in [Name -> Cell \cup {Absent, Torn}]
  BY DEF Shape, TypeOK
<1>2. CASE \/ ScanCells \/ UpdateList \/ KeepList \/ RemoveUpdateCode \/ EndCycle
           \/ NeedsNoArgs \/ MissArg \/ SaveOutput \/ CheckEndless
           \/ ExitCheck \/ ExitRemove \/ TakeCode \/ MissCode \/ ReleaseCode
           \/ ReleaseCodon \/ Start \/ Stop \/ SwitchEndless \/ RequestUpdate
           \/ SupplyOpen \/ SupplyWrite \/ UNCHANGED vars
  <2>1. cells' = cells /\ data' = data /\ me' = me /\ cur' = cur /\ pc' # "eval"
    BY <1>2 DEF ScanCells, UpdateList, KeepList, RemoveUpdateCode, EndCycle,
       NeedsNoArgs, MissArg, SaveOutput, CheckEndless, ExitCheck, ExitRemove, TakeCode,
       MissCode, ReleaseCode, ReleaseCodon, Start, Stop, SwitchEndless, RequestUpdate,
       SupplyOpen, SupplyWrite, vars, files, memory, held, Goto
  <2> QED
    BY <2>1 DEF ArgsHeld, Whole
<1>3. CASE Load /\ ~Fail
  <2>1. /\ me = Nothing /\ me' \in Name /\ cells' = cells /\ data' = data /\ pc' = "args"
        /\ cur' = cells[me'] /\ Whole(me')
    BY <1>3 DEF Load, Goto, files, Shape, TypeOK, MemoryOK, Working, Whole
  <2> QED
    BY <2>1, AbsentAssumption DEF ArgsHeld, Whole
<1>4. CASE CheckRunning \/ NoCells \/ UpdateListFails \/ ArgsFull \/ ExitRemoveFails \/ (Load /\ Fail)
  <2>1. /\ cells' = cells /\ data' = data /\ pc' # "eval"
        /\ pc \in {"check", "scan", "codes", "turn", "args", "unlink"}
        /\ me' \notin Name
    BY <1>4, AbsentAssumption DEF CheckRunning, NoCells, UpdateListFails, ArgsFull,
       ExitRemoveFails, Load, Fail, EndWith, Goto, files, memory, held, Shape, TypeOK, MemoryOK,
       Working
  <2>2. me \in Name => cur.hasArgs = cells[me].hasArgs /\ Whole(me)
    BY <2>1, AbsentAssumption DEF Shape, TypeOK, MemoryOK, FilesOK, ArgsKept, Working
  <2> QED
    BY <2>1, <2>2 DEF ArgsHeld, Whole
<1>5. CASE EvalOpen \/ SaveOpen
  <2>1. /\ cells' = [cells EXCEPT ![me] = Torn] /\ data' = data /\ me' = me /\ cur' = cur
        /\ pc' # "eval"
    BY <1>5 DEF EvalOpen, SaveOpen, Open, memory, held, Goto
  <2> QED
    BY <1>1, <2>1 DEF ArgsHeld, Whole
<1>6. CASE EvalWrite \/ SaveWrite
  <2>1. /\ cells' = [cells EXCEPT ![me] = cur] /\ data' = data /\ cur \in Cell /\ me \in Name
        /\ me' = me \/ me' \notin Name
        /\ me' = me => pc' = "eval"
    BY <1>6, AbsentAssumption DEF EvalWrite, SaveWrite, memory, held, Goto, Shape, TypeOK,
       MemoryOK, Working
  <2> QED
    BY <1>1, <2>1, AbsentAssumption DEF ArgsHeld, Whole
<1>7. CASE RemoveCell
  <2>1. /\ cells' = [cells EXCEPT ![me] = Absent] /\ data' = data /\ cur.hasArgs = 0
        /\ me \in Name /\ me' \notin Name
    BY <1>7, AbsentAssumption DEF RemoveCell, Shape, TypeOK, MemoryOK, Working
  <2> QED
    BY <1>1, <2>1 DEF ArgsHeld, Whole
<1>8. CASE BondCode \/ Age
  <2>1. /\ cells' = cells /\ data' = data /\ me' = me /\ pc' # "eval" /\ cur \in Cell
    BY <1>8 DEF BondCode, Age, Goto, files, Shape, TypeOK, MemoryOK, Working
  <2>2. cur'.hasArgs = cur.hasArgs
    BY <1>8, <2>1 DEF BondCode, Age, Cell
  <2> QED
    BY <2>1, <2>2 DEF ArgsHeld, Whole
<1>9. CASE Divide
  <2>1. PICK m \in FreeNames : cells' = [cells EXCEPT ![m] = Torn]
    BY <1>9 DEF Divide
  <2>2. /\ data' = data /\ me' = me /\ pc' # "eval" /\ cur \in Cell /\ m # me /\ cells[m] = Absent
    BY <1>9, <2>1 DEF Divide, Goto, FreeNames, Files, Shape, TypeOK, MemoryOK, FilesOK, Working,
       Whole
  <2>3. cur'.hasArgs = cur.hasArgs
    BY <1>9, <2>2 DEF Divide, Cell
  <2> QED
    BY <1>1, <2>1, <2>2, <2>3 DEF ArgsHeld, Whole
<1>10. CASE BirthWrite
  <2>1. /\ cells' = [cells EXCEPT ![kidName] = kid] /\ data' = data /\ me' = me /\ cur' = cur
        /\ pc' # "eval" /\ kid.hasArgs = 0 /\ kid \in Cell /\ kidName # me
        /\ kidName \in Name /\ cells[kidName] = Torn
    BY <1>10 DEF BirthWrite, Goto, ArgsKept, Shape, TypeOK, MemoryOK, FilesOK
  <2> QED
    BY <1>1, <2>1, AbsentAssumption DEF ArgsHeld, Whole
<1>11. CASE PlaceOpen
  <2>1. data' = data /\ me' = me /\ cur' = cur /\ pc' = pc
    BY <1>11 DEF PlaceOpen, memory, held
  <2>2. PICK m \in Name \ Files : cells' = [cells EXCEPT ![m] = Torn]
    BY <1>11 DEF PlaceOpen
  <2>3. cells[m] = Absent
    BY <2>2 DEF Files
  <2> QED
    BY <1>1, <2>1, <2>2, <2>3 DEF ArgsHeld, Whole
<1> QED
  BY <1>2, <1>3, <1>4, <1>5, <1>6, <1>7, <1>8, <1>9, <1>10, <1>11

LEMMA StepData == Shape /\ Shape' /\ ArgsKept /\ [Next]_vars => DataStep
<1> SUFFICES ASSUME Shape, Shape', ArgsKept, [Next]_vars, pc # "eval", kills' = kills
             PROVE  \/ DataTotal' = DataTotal
                    \/ /\ pc \in {"take", "divide"} /\ pc' = "failed"
                       /\ DataTotal' = DataTotal - 1
                    \/ /\ copying \in Name /\ copying' = Nothing
                       /\ DataTotal' = DataTotal + cells'[copying].hasArgs
  BY DEF DataStep
<1>1. /\ Holding \in [Name -> Nat] /\ Cardinality(Tokens(Holding)) \in Nat
      /\ DataTotal = data + Cardinality(Tokens(Holding)) /\ data \in Nat
  BY HoldingType, TokensFinite, HoldingTokens DEF Shape, TypeOK
<1>2. /\ Holding' \in [Name -> Nat] /\ Cardinality(Tokens(Holding')) \in Nat
      /\ DataTotal' = data' + Cardinality(Tokens(Holding')) /\ data' \in Nat
  <2>1. Holding' \in [Name -> Nat]
    BY HoldingTypeNext
  <2> QED
    BY <2>1, TokensFinite, HoldingTokens DEF Shape, TypeOK
<1>3. \A n \in Name : Holding[n] = ArgsHeld(n) /\ Holding'[n] = ArgsHeld(n)'
  BY DEF Holding
<1>4. CASE TakeArg
  <2>1. /\ cells' = cells /\ data' = data - 1 /\ me' = me /\ pc' # "eval" /\ me \in Name
        /\ cur \in Cell
    BY <1>4 DEF TakeArg, Goto, Shape, TypeOK, MemoryOK, Working
  <2>2. cur'.hasArgs = cur.hasArgs + 1
    BY <1>4, <2>1 DEF TakeArg, Cell
  <2>3. Holding'[me] = Holding[me] + 1 /\ \A n \in Name \ {me} : Holding'[n] = Holding[n]
    BY <1>3, <2>1, <2>2 DEF ArgsHeld, Whole
  <2>4. Cardinality(Tokens(Holding')) = Cardinality(Tokens(Holding)) + 1
    BY <1>1, <1>2, <2>1, <2>3, TokensMore
  <2> QED
    BY <1>1, <1>2, <2>1, <2>4
<1>5. CASE ReleaseArg
  <2>1. /\ cells' = cells /\ data' = data + 1 /\ me' = me /\ pc' # "eval" /\ me \in Name
        /\ cur \in Cell
    BY <1>5 DEF ReleaseArg, Shape, TypeOK, MemoryOK, Working
  <2>2. cur'.hasArgs = cur.hasArgs - 1 /\ cur.hasArgs \in Nat
    BY <1>5, <2>1 DEF ReleaseArg, Cell
  <2>3. Holding[me] = Holding'[me] + 1 /\ \A n \in Name \ {me} : Holding[n] = Holding'[n]
    BY <1>3, <2>1, <2>2 DEF ArgsHeld, Whole
  <2>4. Cardinality(Tokens(Holding)) = Cardinality(Tokens(Holding')) + 1
    BY <1>1, <1>2, <2>1, <2>3, TokensMore
  <2> QED
    BY <1>1, <1>2, <2>1, <2>4
<1>6. CASE DivideByZero \/ TakeCodeFails
  <2>1. /\ cells' = cells /\ data' = data /\ me' \notin Name
        /\ pc \in {"take", "divide"} /\ pc' = "failed"
        /\ me \in Name /\ Whole(me)
        /\ cur.hasArgs = cells[me].hasArgs \/ cur.hasArgs = cells[me].hasArgs + 1
    BY <1>6, AbsentAssumption DEF DivideByZero, TakeCodeFails, Fail, EndWith, Goto, files, Shape, TypeOK,
       MemoryOK, FilesOK, ArgsKept, Working
  <2>2. /\ Holding[me] = cur.hasArgs /\ Holding'[me] = cells[me].hasArgs
        /\ \A n \in Name \ {me} : Holding[n] = Holding'[n]
    BY <1>3, <2>1 DEF ArgsHeld, Whole
  <2>3. CASE cur.hasArgs = cells[me].hasArgs
    <3>1. \A n \in Name : Holding'[n] = Holding[n]
      BY <2>2, <2>3
    <3>2. Cardinality(Tokens(Holding')) = Cardinality(Tokens(Holding))
      BY <3>1, TokensSame
    <3> QED
      BY <1>1, <1>2, <2>1, <3>2
  <2>4. CASE cur.hasArgs = cells[me].hasArgs + 1
    <3>1. Cardinality(Tokens(Holding)) = Cardinality(Tokens(Holding')) + 1
      BY <1>1, <1>2, <2>1, <2>2, <2>4, TokensMore
    <3> QED
      BY <1>1, <1>2, <2>1, <3>1
  <2> QED
    BY <2>1, <2>3, <2>4
<1>7. ~Evaluated /\ ~ExecCell /\ ~Kill
  BY DEF Evaluated, ExecCell, Kill, Shape, TypeOK
<1>8. CASE PlaceWrite
  <2> DEFINE m == copying
  <2>1. /\ data' = data /\ me' = me /\ cur' = cur /\ pc' = pc /\ copying' = Nothing
        /\ m \in Name
    BY <1>8 DEF PlaceWrite, held
  <2>2. PICK c \in Visitors : cells' = [cells EXCEPT ![m] = c]
    BY <1>8 DEF PlaceWrite
  <2>3. cells[m] = Torn /\ m # me /\ c \in Cell
    BY <2>1, SysEnvAssumption DEF Shape, FilesOK, Founder
  <2> HIDE DEF m
  <2>4. cells'[m] = c /\ \A n \in Name \ {m} : cells'[n] = cells[n]
    BY <2>1, <2>2 DEF Shape, TypeOK
  <2>5. /\ Holding[m] = 0 /\ Holding'[m] = c.hasArgs
        /\ \A n \in Name \ {m} : Holding'[n] = Holding[n]
    BY <1>3, <2>1, <2>3, <2>4, AbsentAssumption DEF ArgsHeld, Whole
  <2>6. Cardinality(Tokens(Holding')) = Cardinality(Tokens(Holding)) + Holding'[m]
    BY <1>1, <1>2, <2>1, <2>5, TokensPlaced
  <2>7. Holding'[m] \in Nat
    BY <1>2, <2>1
  <2>8. DataTotal' = DataTotal + cells'[m].hasArgs
    BY <1>1, <1>2, <2>1, <2>4, <2>5, <2>6, <2>7
  <2> QED
    BY <2>1, <2>8 DEF m
<1> QED
  BY <1>4, <1>5, <1>6, <1>7, <1>8, QuietData DEF Next, Process, User

(***************************************************************************)
(* The books of the arguments balance, step by step: outside of the        *)
(* evaluator one is lost only with a process that ends, in the turn in     *)
(* which a cell took it, at a compound still being copied or a division by *)
(* zero, and more come only with a cell file that the user places          *)
(* (cell.c:17-54, 590, 811, compound.c:36).                                *)
(***************************************************************************)
THEOREM DataTheorem == Spec => DataBalances
<1>1. Init => ArgsKept
  BY DEF Init, ArgsKept
<1>2. Spec => [](Shape /\ ArgsKept)
  BY <1>1, InitShape, NextShape, NextArgsKept, PTL DEF Spec
<1>3. Spec => [][Shape /\ Shape' /\ ArgsKept /\ Next]_vars
  BY <1>2, PTL DEF Spec
<1>4. [Shape /\ Shape' /\ ArgsKept /\ Next]_vars => [DataStep]_vars
  BY StepData
<1> QED
  BY <1>3, <1>4, PTL DEF DataBalances
=============================================================================
