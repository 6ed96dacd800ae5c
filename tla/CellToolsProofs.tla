-------------------------- MODULE CellToolsProofs --------------------------
(***************************************************************************)
(* What the three programs that rewrite a cell file do to it, for every    *)
(* life, number of arguments and edit: the file is torn only while it is   *)
(* being written, or after a write failed; and, of a careful user with     *)
(* room on his disk, no turn is lost, and only his edits of has_args make  *)
(* a turn abort the process.                                               *)
(***************************************************************************)
EXTENDS CellTools, TLAPS

USE CellToolsAssumption, AbsentAssumption

-----------------------------------------------------------------------------
(* The state *)

\* A cell that has cycles left: what is loaded, edited, run and saved.
Alive == {c \in Cell : c.left > 0}

\* Where dsy-sysenv holds a cell; it has died where it is released.
Holding == {"args", "evalOpen", "evalWrite", "eval", "age", "saveOpen", "saveWrite"}
Dying == {"release", "remove"}

Tool(busy) == [at : busy, cell : Alive]
EditorBusy == [at : {"ask", "write", "lost"}, cell : Alive, over : BOOLEAN]
RunnerBusy == Tool({"run", "open", "write", "lost"})

TypeOK ==
  /\ file \in Alive \cup {Absent, Torn}
  /\ data \in Nat /\ turns \in Nat
  /\ careful \in BOOLEAN /\ full \in BOOLEAN /\ over \in BOOLEAN
  /\ pc \in Holding \cup Dying \cup {"off", "failed", "scan", "load"}
  /\ pc \in Holding => cur \in Alive
  /\ pc \in Dying => cur \in Cell
  /\ editor.at # "off" => editor \in EditorBusy
  /\ runner.at # "off" => runner \in RunnerBusy

(***************************************************************************)
(* Of a careful user, one program at a time has the cell, but for the      *)
(* evaluator's dsy-exec-cell, for which dsy-sysenv waits.                  *)
(***************************************************************************)
OneAtATime ==
  careful =>
    /\ Up => Idle(editor)
    /\ Up /\ pc # "eval" => Idle(runner)
    /\ Idle(editor) \/ Idle(runner)

\* From the scan of the directory to the end of the turn the file is there.
Present == careful /\ Up /\ pc # "scan" => file # Absent

(***************************************************************************)
(* Every copy of the cell has aged by the turns it had; the file alone is  *)
(* one turn behind from the moment the cell is older to the save.          *)
(***************************************************************************)
Behind == IF pc \in {"saveOpen", "release", "remove"} THEN 1 ELSE 0

Aged ==
  careful /\ ~full =>
    /\ Whole => file.left + turns = Life + Behind
    /\ pc \in Holding \cup Dying => cur.left + turns = Life
    /\ ~Idle(editor) => editor.cell.left + turns = Life
    /\ ~Idle(runner) => runner.cell.left + turns = Life

IInv == TypeOK /\ TornIsBusy /\ OneAtATime /\ Present /\ Aged

-----------------------------------------------------------------------------

LEMMA InitIInv == Init => IInv
<1> SUFFICES ASSUME Init PROVE IInv
  OBVIOUS
<1>1. PICK n \in ArgCounts :
        file = [left |-> Life, fitness |-> MaxFitness, num |-> n, has |-> 0]
  BY DEF Init
<1>2. file \in Alive /\ file.left = Life
  BY <1>1 DEF Alive, Cell
<1>3. TypeOK
  <2>1. full \in BOOLEAN /\ over \in BOOLEAN
    BY DEF Init
  <2>2. MaxData \in Nat /\ data \in Nat
    BY DEF Init
  <2> QED
    BY <1>2, <2>1, <2>2 DEF Init, TypeOK, Off, Holding, Dying
<1>4. TornIsBusy
  BY <1>2 DEF TornIsBusy, Alive
<1>5. OneAtATime /\ Present
  BY DEF Init, OneAtATime, Present, Off, Idle, Up
<1>6. Aged
  BY <1>2 DEF Init, Aged, Behind, Off, Idle, Whole, Holding, Dying
<1> QED
  BY <1>3, <1>4, <1>5, <1>6 DEF IInv

\* A write makes the file the cell it was given, or the disk is full.
LEMMA WrittenCell ==
  ASSUME TypeOK, NEW c \in Alive, Reaches(c) \/ DiskFull(c)
  PROVE  /\ file' \in Alive \cup {Absent, Torn}
         /\ full' \in BOOLEAN
         /\ full => full'
         /\ ~full' => file' = c
         /\ file' \in {file, c}
         /\ file' = Torn => full'
         /\ c # Absent /\ c # Torn
<1>1. c # Absent /\ c # Torn
  BY DEF Alive
<1>2. CASE Reaches(c)
  BY <1>1, <1>2 DEF Reaches, TypeOK
<1>3. CASE DiskFull(c)
  <2>1. file' \in {file, c} /\ full'
    BY <1>3 DEF DiskFull
  <2> QED
    BY <1>1, <2>1 DEF TypeOK
<1> QED
  BY <1>2, <1>3

\* What dsy-exec-cell saves: the cell without its arguments.
LEMMA EmptiedCell ==
  ASSUME NEW c \in Alive
  PROVE  /\ [c EXCEPT !.has = 0] \in Alive
         /\ [c EXCEPT !.has = 0].left = c.left /\ [c EXCEPT !.has = 0].num = c.num
         /\ [c EXCEPT !.has = 0].has = 0
BY DEF Alive, Cell

LEMMA ArgNumbers ==
  ASSUME NEW c \in Alive
  PROVE  c.num \in ArgCounts /\ c.num \in Nat /\ c.has \in Nat
<1>1. c.num \in ArgCounts /\ c.has \in 0..Byte-1
  BY DEF Alive, Cell
<1>2. ArgCounts \subseteq Nat /\ 0..Byte-1 \subseteq Nat
  OBVIOUS
<1> QED
  BY <1>1, <1>2

\* An edit leaves the life alone and makes a cell of a cell.
LEMMA EditedCell ==
  ASSUME NEW c \in Alive, NEW edit \in Edits
  PROVE  /\ Edited(c, edit) \in Alive
         /\ Edited(c, edit).left = c.left /\ Edited(c, edit).num = c.num
         /\ Edited(c, edit).has = IF edit.field = "has" THEN edit.value % Byte ELSE c.has
<1>1. edit.field \in {"fitness", "has"} /\ edit.value % Byte \in 0..Byte-1
  BY DEF Edit
<1>2. CASE edit.field = "fitness"
  BY <1>1, <1>2 DEF Edited, Alive, Cell
<1>3. CASE edit.field = "has"
  BY <1>1, <1>3 DEF Edited, Alive, Cell
<1> QED
  BY <1>1, <1>2, <1>3

LEMMA SysenvIInv == IInv /\ Sysenv /\ UNCHANGED careful => IInv'
<1> SUFFICES ASSUME IInv, Sysenv, UNCHANGED careful PROVE IInv'
  OBVIOUS
<1> USE DEF IInv, TypeOK, TornIsBusy, OneAtATime, Present, Aged, Behind, Idle, Up, Whole,
        Holding, Dying, Alive, EditorBusy, RunnerBusy, Tool, Goto, FailAt,
        disk
<1>1. CASE Start BY <1>1 DEF Start
<1>2. CASE Stop BY <1>2 DEF Stop
<1>3. CASE Scan BY <1>3 DEF Scan
<1>4. CASE Load BY <1>4 DEF Load
<1>5. CASE NeedsNoArgs BY <1>5 DEF NeedsNoArgs
<1>6. CASE ArgsFull BY <1>6 DEF ArgsFull
<1>7. CASE TakeArg
  <2>1. cur \in Alive /\ cur' \in Alive /\ cur'.left = cur.left
    BY <1>7 DEF TakeArg, Cell
  <2> QED
    BY <1>7, <2>1 DEF TakeArg
<1>8. CASE MissArg BY <1>8 DEF MissArg
<1>9. CASE EvalOpen BY <1>9 DEF EvalOpen, Open
<1>10. CASE EvalWrite BY <1>10, WrittenCell DEF EvalWrite
<1>11. CASE Evaluated
  <2>1. CASE Whole /\ Goto("eval", "age")
    <3>1. PICK f \in 0..MaxFitness : cur' = [file EXCEPT !.fitness = f]
      BY <1>11, <2>1 DEF Evaluated, Reloaded
    <3>2. cur' \in Alive /\ cur'.left = file.left
      BY <2>1, <3>1 DEF Cell
    <3> QED
      BY <1>11, <2>1, <3>2 DEF Evaluated
  <2>2. CASE ~Whole /\ FailAt("eval")
    BY <1>11, <2>2 DEF Evaluated
  <2> QED
    BY <1>11, <2>1, <2>2 DEF Evaluated
<1>12. CASE Age
  <2>1. /\ cur \in Alive /\ cur' \in Cell /\ cur'.left = cur.left - 1
        /\ cur.left - 1 # 0 => cur' \in Alive
    BY <1>12 DEF Age, Older, Cell
  <2> QED
    BY <1>12, <2>1 DEF Age, Cell
<1>13. CASE Release
  <2>1. data' \in Nat
    BY <1>13 DEF Release, Cell
  <2> QED
    BY <1>13, <2>1 DEF Release
<1>14. CASE Remove
  <2>1. /\ editor.at # "off" => /\ editor' \in EditorBusy /\ editor'.cell = editor.cell
                               /\ editor'.at # "off" /\ editor'.at # "write"
        /\ editor.at = "off" => editor' = editor
    BY <1>14 DEF Remove, Unlinked
  <2>2. /\ runner.at # "off" => /\ runner' \in RunnerBusy /\ runner'.cell = runner.cell
                               /\ runner'.at # "off" /\ runner'.at # "write"
        /\ runner.at = "off" => runner' = runner
    BY <1>14 DEF Remove, Unlinked
  <2> HIDE DEF EditorBusy, RunnerBusy
  <2> QED
    BY <1>14, <2>1, <2>2 DEF Remove
<1>15. CASE SaveOpen BY <1>15 DEF SaveOpen, Open
<1>16. CASE SaveWrite BY <1>16, WrittenCell DEF SaveWrite
<1> QED
  BY <1>1, <1>2, <1>3, <1>4, <1>5, <1>6, <1>7, <1>8, <1>9, <1>10, <1>11, <1>12, <1>13,
     <1>14, <1>15, <1>16 DEF Sysenv

LEMMA EditCellIInv == IInv /\ EditCell /\ UNCHANGED careful => IInv'
<1> SUFFICES ASSUME IInv, EditCell, UNCHANGED careful PROVE IInv'
  OBVIOUS
<1> USE DEF IInv, TypeOK, TornIsBusy, OneAtATime, Present, Aged, Behind, Idle, Up, Whole,
        Holding, Dying, EditorBusy, Editor, Off, disk
<1>1. CASE EditLoad
  <2>1. PICK edit \in Edits :
          Editor("off", [at |-> "ask", cell |-> Edited(file, edit),
                         over |-> MadeOver(edit, Edited(file, edit))])
    BY <1>1 DEF EditLoad
  <2>2. file \in Alive
    BY <1>1 DEF EditLoad
  <2>3. Edited(file, edit) \in Alive /\ Edited(file, edit).left = file.left
    BY <2>2, EditedCell
  <2>4. MadeOver(edit, Edited(file, edit)) \in BOOLEAN
    BY DEF MadeOver, Overdone
  <2>5. editor' \in EditorBusy /\ editor'.cell.left = file.left /\ editor'.at = "ask"
    BY <2>1, <2>3, <2>4
  <2> HIDE DEF EditorBusy
  <2> QED
    BY <1>1, <2>1, <2>2, <2>5 DEF EditLoad
<1>2. CASE EditNo
  BY <1>2 DEF EditNo
<1>3. CASE EditOpen
  <2>1. editor' \in EditorBusy /\ editor'.cell = editor.cell /\ editor'.at = "write"
    BY <1>3 DEF EditOpen
  <2> QED
    BY <1>3, <2>1 DEF EditOpen
<1>4. CASE EditWrite
  <2>1. editor.cell \in Alive /\ editor.over \in BOOLEAN
    BY <1>4 DEF EditWrite
  <2> HIDE DEF EditorBusy
  <2> QED
    BY <1>4, <2>1, WrittenCell DEF EditWrite
<1>5. CASE EditLost
  BY <1>5 DEF EditLost
<1> QED
  BY <1>1, <1>2, <1>3, <1>4, <1>5 DEF EditCell

LEMMA RunWriteIInv ==
  ASSUME IInv, RunWrite, UNCHANGED careful
  PROVE  IInv'
<1>1. /\ runner.at = "write" /\ runner' = Off /\ over' = FALSE
      /\ pc' = pc /\ cur' = cur /\ editor' = editor /\ turns' = turns /\ data' = data
      /\ Reaches(runner.cell) \/ DiskFull(runner.cell)
  BY DEF RunWrite, Runner
<1>2. TypeOK /\ runner.cell \in Alive /\ Off.at = "off"
  BY <1>1 DEF IInv, TypeOK, RunnerBusy, Tool, Off
<1>3. /\ file' \in Alive \cup {Absent, Torn} /\ full' \in BOOLEAN /\ (full => full')
      /\ ~full' => file' = runner.cell
      /\ file' \in {file, runner.cell} /\ (file' = Torn => full')
      /\ runner.cell # Absent /\ runner.cell # Torn
  BY <1>1, <1>2, WrittenCell
<1>4. TypeOK'
  <2>1. careful' \in BOOLEAN /\ over' \in BOOLEAN /\ runner'.at = "off"
    BY <1>1, <1>2 DEF TypeOK
  <2>2. full' \in BOOLEAN /\ file' \in Alive \cup {Absent, Torn}
    BY <1>3
  <2> QED
    BY <1>1, <1>2, <2>1, <2>2 DEF TypeOK
<1>5. TornIsBusy'
  BY <1>3 DEF TornIsBusy
<1>6. OneAtATime' /\ Present'
  BY <1>1, <1>2, <1>3 DEF IInv, OneAtATime, Present, Up, Idle
<1>7. Aged'
  <2> SUFFICES ASSUME careful', ~full' PROVE Aged'
    BY DEF Aged
  <2>1. careful /\ ~full /\ file' = runner.cell
    BY <1>3
  <2>2. editor.at = "off" /\ pc \notin {"saveOpen", "release", "remove"}
    BY <1>1, <2>1 DEF IInv, OneAtATime, Up, Idle
  <2> QED
    BY <1>1, <1>2, <2>1, <2>2 DEF IInv, Aged, Behind, Idle
<1> QED
  BY <1>4, <1>5, <1>6, <1>7 DEF IInv

LEMMA ExecCellIInv == IInv /\ ExecCell /\ UNCHANGED careful => IInv'
<1> SUFFICES ASSUME IInv, ExecCell, UNCHANGED careful PROVE IInv'
  OBVIOUS
<1> USE DEF IInv, TypeOK, TornIsBusy, OneAtATime, Present, Aged, Behind, Idle, Up, Whole,
        Holding, Dying, RunnerBusy, Tool, Runner, Off, disk
<1>1. CASE RunLoad
  BY <1>1 DEF RunLoad
<1>2. CASE Run
  <2>1. runner.cell \in Alive
    BY <1>2 DEF Run
  <2>3. /\ runner' \in RunnerBusy /\ runner'.at = "open"
        /\ runner'.cell.left = runner.cell.left
    BY <1>2, <2>1, EmptiedCell DEF Run
  <2> HIDE DEF Tool
  <2> QED
    BY <1>2, <2>3 DEF Run
<1>3. CASE RunOpen
  <2>1. /\ runner' \in RunnerBusy
        /\ runner'.cell = runner.cell /\ runner'.at = "write"
    BY <1>3 DEF RunOpen
  <2> QED
    BY <1>3, <2>1 DEF RunOpen
<1>4. CASE RunWrite
  BY <1>4, RunWriteIInv
<1>5. CASE RunLost
  BY <1>5 DEF RunLost
<1> QED
  BY <1>1, <1>2, <1>3, <1>4, <1>5 DEF ExecCell

LEMMA UserIInv == IInv /\ UserRemove /\ UNCHANGED careful => IInv'
BY DEF IInv, TypeOK, TornIsBusy, OneAtATime, Present, Aged, Behind, Idle, Up, Whole,
   Holding, Dying, UserRemove, disk

LEMMA NextIInv == IInv /\ [Next]_vars => IInv'
<1>1. ASSUME IInv, UNCHANGED vars PROVE IInv'
  BY <1>1 DEF vars, IInv, TypeOK, TornIsBusy, OneAtATime, Present, Aged, Behind, Idle, Up, Whole
<1> QED
  BY <1>1, SysenvIInv, EditCellIInv, ExecCellIInv, UserIInv DEF Next

\* The inductive invariant holds in every reachable state.
THEOREM Invariance == Spec => []IInv
BY InitIInv, NextIInv, PTL DEF Spec

(***************************************************************************)
(* Short of a failed write, an abort or an end of any of the three         *)
(* programs never leaves the file empty: every save that opens it writes   *)
(* it (cell.c:712).                                                        *)
(***************************************************************************)
THEOREM TornTheorem == Spec => []TornIsBusy
BY Invariance, PTL DEF IInv

(***************************************************************************)
(* Of a careful user with room on his disk, every turn takes one off the   *)
(* life in the file, for every life, every number of arguments and         *)
(* whatever he edits.                                                      *)
(***************************************************************************)
THEOREM TurnsTheorem == Spec => []EveryTurnCounts
<1>1. IInv => EveryTurnCounts
  BY DEF IInv, TypeOK, Aged, Behind, EveryTurnCounts, Alive, Cell, Whole
<1> QED
  BY <1>1, Invariance, PTL
-----------------------------------------------------------------------------
(* Arguments *)

(***************************************************************************)
(* Only the evaluator sees a file with all of its arguments that no edit   *)
(* gave it, and what dsy-exec-cell makes of a cell has none.               *)
(***************************************************************************)
ArgsOpen ==
  careful /\ ~full =>
    /\ Whole /\ pc # "eval" => ~Overdone(file) \/ over
    /\ pc \in {"args", "age", "saveOpen", "saveWrite"} => ~Overdone(cur) \/ over
    /\ editor.at # "off" => ~Overdone(editor.cell) \/ editor.over
    /\ runner.at # "off" =>
         pc = "eval" \/ ~Overdone(runner.cell) \/ (over /\ runner.at = "run")
    /\ runner.at \in {"open", "write"} => ~Overdone(runner.cell)

LEMMA InitArgs == Init => ArgsOpen
<1> SUFFICES ASSUME Init PROVE ArgsOpen
  OBVIOUS
<1>1. PICK n \in ArgCounts :
        file = [left |-> Life, fitness |-> MaxFitness, num |-> n, has |-> 0]
  BY DEF Init
<1> QED
  BY <1>1 DEF Init, ArgsOpen, Overdone, Off

\* An aged or fed cell, and one an evaluator has seen.
LEMMA OverdoneCells ==
  ASSUME NEW c \in Alive
  PROVE  /\ Overdone([c EXCEPT !.has = 0]) = FALSE
         /\ Overdone([c EXCEPT !.left = @ - 1]) = Overdone(c)
         /\ \A f \in 0..MaxFitness :
              c.has = 0 => Overdone([c EXCEPT !.fitness = f]) = FALSE
         /\ c.has < c.num => (Overdone([c EXCEPT !.has = @ + 1]) <=> c.has + 1 = c.num)
BY ArgNumbers DEF Overdone, Alive, Cell

LEMMA SysenvArgs == IInv /\ ArgsOpen /\ Sysenv /\ UNCHANGED careful => ArgsOpen'
<1>a. full => full' \/ ~Sysenv
  BY DEF Sysenv, Start, Stop, Scan, Load, NeedsNoArgs, ArgsFull, TakeArg, MissArg,
     EvalOpen, SaveOpen, Open, EvalWrite, Evaluated, Age, Release, Remove, SaveWrite, disk,
     Reaches, DiskFull
<1> SUFFICES ASSUME IInv, ArgsOpen, Sysenv, UNCHANGED careful,
                    careful, ~full, ~full'
             PROVE  ArgsOpen'
  BY <1>a DEF ArgsOpen
<1> USE DEF IInv, TypeOK, TornIsBusy, OneAtATime, Idle, Up, Whole,
        Holding, Dying, ArgsOpen, Goto, FailAt, disk, Reaches, DiskFull
<1>0. file \in Alive \/ ~Whole
  OBVIOUS
<1>1. CASE Start BY <1>1 DEF Start
<1>2. CASE Stop BY <1>2 DEF Stop
<1>3. CASE Scan BY <1>3 DEF Scan
<1>4. CASE Load BY <1>4 DEF Load
<1>5. CASE NeedsNoArgs BY <1>5 DEF NeedsNoArgs
<1>6. CASE ArgsFull BY <1>6 DEF ArgsFull
<1>7. CASE TakeArg BY <1>7, OverdoneCells DEF TakeArg
<1>8. CASE MissArg BY <1>8 DEF MissArg
<1>9. CASE EvalOpen BY <1>9 DEF EvalOpen, Open
<1>10. CASE EvalWrite BY <1>10 DEF EvalWrite
<1>11. CASE Evaluated
  <2>1. CASE Whole /\ Goto("eval", "age")
    <3>1. PICK f \in 0..MaxFitness : cur' = [file EXCEPT !.fitness = f]
      BY <1>11, <2>1 DEF Evaluated, Reloaded
    <3>2. file \in Alive /\ file.has = 0 /\ file' = file
      BY <1>11, <2>1 DEF Evaluated
    <3>3. ~Overdone(file) /\ ~Overdone(cur')
      BY <3>1, <3>2, OverdoneCells, ArgNumbers DEF Overdone
    <3> QED
      BY <1>11, <2>1, <3>2, <3>3 DEF Evaluated
  <2>2. CASE ~Whole /\ FailAt("eval")
    BY <1>11, <2>2 DEF Evaluated
  <2> QED
    BY <1>11, <2>1, <2>2 DEF Evaluated
<1>12. CASE Age BY <1>12, OverdoneCells DEF Age, Older
<1>13. CASE Release BY <1>13 DEF Release
<1>14. CASE Remove BY <1>14 DEF Remove, Unlinked
<1>15. CASE SaveOpen BY <1>15 DEF SaveOpen, Open
<1>16. CASE SaveWrite BY <1>16 DEF SaveWrite
<1> QED
  BY <1>1, <1>2, <1>3, <1>4, <1>5, <1>6, <1>7, <1>8, <1>9, <1>10, <1>11, <1>12, <1>13,
     <1>14, <1>15, <1>16 DEF Sysenv

LEMMA ToolsArgs ==
  ASSUME IInv, ArgsOpen, UNCHANGED careful, EditCell \/ ExecCell \/ UserRemove
  PROVE  ArgsOpen'
<1> SUFFICES ASSUME careful, ~full, ~full' PROVE ArgsOpen'
  BY DEF ArgsOpen, EditCell, ExecCell, UserRemove, EditLoad, EditNo, EditOpen, EditWrite,
     EditLost, RunLoad, Run, RunOpen, RunWrite, RunLost, disk, Reaches, DiskFull
<1> USE DEF IInv, TypeOK, OneAtATime, Idle, Up, Whole, Holding, Dying, ArgsOpen,
        Editor, Runner, Off, disk, Reaches, DiskFull
<1>1. CASE EditLoad
  <2>1. PICK edit \in Edits :
          Editor("off", [at |-> "ask", cell |-> Edited(file, edit),
                         over |-> MadeOver(edit, Edited(file, edit))])
    BY <1>1 DEF EditLoad
  <2>2. file \in Alive /\ pc # "eval"
    BY <1>1 DEF EditLoad
  <2>3. ~Overdone(Edited(file, edit)) \/ MadeOver(edit, Edited(file, edit))
    <3>1. CASE edit.field = "has"
      BY <3>1 DEF MadeOver
    <3>2. CASE edit.field # "has"
      <4>1. Overdone(Edited(file, edit)) = Overdone(file)
        BY <2>2, <3>2, EditedCell DEF Overdone
      <4>2. ~Overdone(file) \/ over
        BY <1>1, <2>2 DEF EditLoad
      <4> QED
        BY <3>2, <4>1, <4>2 DEF MadeOver
    <3> QED
      BY <3>1, <3>2
  <2> QED
    BY <1>1, <2>1, <2>3 DEF EditLoad
<1>2. CASE EditNo BY <1>2 DEF EditNo
<1>3. CASE EditOpen
  <2>1. editor'.cell = editor.cell /\ editor'.over = editor.over /\ editor'.at = "write"
    BY <1>3 DEF EditOpen, EditorBusy
  <2> QED
    BY <1>3, <2>1 DEF EditOpen
<1>4. CASE EditWrite BY <1>4 DEF EditWrite
<1>5. CASE EditLost BY <1>5 DEF EditLost
<1>6. CASE RunLoad BY <1>6 DEF RunLoad
<1>7. CASE Run
  <2>1. runner.cell \in Alive
    BY <1>7 DEF Run, RunnerBusy, Tool
  <2>2. runner' = [at |-> "open", cell |-> [runner.cell EXCEPT !.has = 0]]
    BY <1>7 DEF Run
  <2>3. ~Overdone(runner'.cell)
    BY <2>1, <2>2, OverdoneCells
  <2> QED
    BY <1>7, <2>2, <2>3 DEF Run
<1>8. CASE RunOpen
  <2>1. runner'.cell = runner.cell /\ runner'.at = "write"
    BY <1>8 DEF RunOpen, RunnerBusy, Tool
  <2> QED
    BY <1>8, <2>1 DEF RunOpen
<1>9. CASE RunWrite BY <1>9 DEF RunWrite
<1>10. CASE RunLost BY <1>10 DEF RunLost
<1>11. CASE UserRemove BY <1>11 DEF UserRemove
<1> QED
  BY <1>1, <1>2, <1>3, <1>4, <1>5, <1>6, <1>7, <1>8, <1>9, <1>10, <1>11 DEF EditCell, ExecCell

\* While the user is careful and his disk has room, an abort follows an edit.
LEMMA AbortStep == IInv /\ ArgsOpen /\ Next =>
                     (careful /\ ~full' /\ pc # "failed" /\ pc' = "failed" => over)
<1> SUFFICES ASSUME IInv, ArgsOpen, Next, careful, ~full', pc # "failed", pc' = "failed"
             PROVE  over
  OBVIOUS
<1> USE DEF IInv, TypeOK, TornIsBusy, OneAtATime, Present, Idle, Up, Whole, Holding, Dying,
        ArgsOpen, Goto, FailAt, disk, Reaches, DiskFull
<1>1. Sysenv
  BY DEF Next, EditCell, ExecCell, UserRemove, EditLoad, EditNo, EditOpen, EditWrite,
     EditLost, RunLoad, Run, RunOpen, RunWrite, RunLost, Editor, Runner
<1>2. \/ Load /\ ~Whole
      \/ ArgsFull
      \/ Evaluated /\ ~Whole
      \/ Remove /\ file = Absent
  BY <1>1 DEF Sysenv, Start, Stop, Scan, Load, NeedsNoArgs, ArgsFull, TakeArg, MissArg,
     EvalOpen, SaveOpen, Open, EvalWrite, Evaluated, Age, Release, Remove, SaveWrite
<1>3. CASE Load /\ ~Whole BY <1>3 DEF Load
<1>4. CASE ArgsFull BY <1>4 DEF ArgsFull, Overdone
<1>5. CASE Evaluated /\ ~Whole BY <1>5 DEF Evaluated
<1>6. CASE Remove /\ file = Absent BY <1>6 DEF Remove
<1> QED
  BY <1>2, <1>3, <1>4, <1>5, <1>6

(***************************************************************************)
(* For every life, number of arguments and edit: of a careful user with    *)
(* room on his disk, only an edit that gave the cell all of its arguments  *)
(* makes a turn abort.  Neither a torn or missing file nor arguments that  *)
(* were consumed come back, whatever order the programs run in.            *)
(***************************************************************************)
THEOREM AbortTheorem == Spec => AbortByEdit
<1>1. IInv /\ ArgsOpen /\ [Next]_vars => ArgsOpen'
  <2>1. ASSUME IInv, ArgsOpen, UNCHANGED vars PROVE ArgsOpen'
    BY <2>1 DEF vars, ArgsOpen, Whole
  <2>2. ASSUME IInv, ArgsOpen, Next PROVE ArgsOpen'
    BY <2>2, SysenvArgs, ToolsArgs DEF Next
  <2> QED
    BY <2>1, <2>2
<1>2. IInv /\ ArgsOpen /\ [Next]_vars =>
        [careful /\ ~full' /\ pc # "failed" /\ pc' = "failed" => over]_vars
  BY AbortStep
<1> QED
  BY InitArgs, Invariance, <1>1, <1>2, PTL DEF Spec, AbortByEdit
============================================================================
