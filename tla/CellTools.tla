----------------------------- MODULE CellTools -----------------------------
(***************************************************************************)
(* One cell file and the three programs that rewrite it: dsy-sysenv in its *)
(* turns, dsy-exec-cell, which the evaluator or the user calls, and        *)
(* dsy-edit-cell, which loads the cell, shows it to the user, waits for    *)
(* his answer and saves all of it.  Each loads the whole file, empties it  *)
(* by fopen("w+b") and fills it again; nothing is locked, and the disk may *)
(* be full.  The fields modelled here lie in the first bytes of the file,  *)
(* which one call writes: of two writers, the last decides them all.       *)
(* Growth and division leave them alone and are left out.                  *)
(***************************************************************************)
EXTENDS Integers

CONSTANTS
  Life,        \* life_duration of the cell
  ArgCounts,   \* what num_args of the cell may be
  MaxFitness,  \* CELL_MAX_FITNESS
  Byte,        \* fitness and has_args are bytes: values modulo Byte
  Edits,       \* what dsy-edit-cell may be asked: a field and its value
  Absent, Torn, Nothing,
  MaxData,     \* bound of the model: compounds in data/
  MaxTurns     \* bound of the model: turns of the cell

VARIABLES
  file,      \* the cell file
  data,      \* the number of compounds in data/
  pc, cur,   \* the next call of dsy-sysenv and its struct cell
  editor,    \* dsy-edit-cell: its next call and its struct cell
  runner,    \* dsy-exec-cell: the same
  turns,     \* how often dsy-sysenv has taken a cycle off the cell's life
  careful,   \* the tools are used one at a time, in all of this behaviour
  full,      \* a write has failed
  over       \* dsy-edit-cell has given the cell all of its arguments, or more

vars == <<file, data, pc, cur, editor, runner, turns, careful, full, over>>
disk == <<full, over>>

Cell == [left : 0..Life, fitness : 0..Byte-1, num : ArgCounts, has : 0..Byte-1]
Edit == [field : {"fitness", "has"}, value : Nat]

ASSUME CellToolsAssumption ==
  /\ Life \in Nat \ {0} /\ {MaxFitness, MaxData, MaxTurns} \subseteq Nat
  /\ Byte \in Nat \ {0} /\ ArgCounts \subseteq 0..Byte-1 /\ 0 < MaxFitness /\ MaxFitness < Byte
  /\ Edits \subseteq Edit

\* No file and a file without content are no cells.
ASSUME AbsentAssumption == Absent \notin Cell /\ Torn \notin Cell /\ Absent # Torn

Whole == file \notin {Absent, Torn}
Up == pc \notin {"off", "failed"}
Idle(tool) == tool.at = "off"
Off == [at |-> "off", cell |-> Nothing]

Init ==
  /\ \E n \in ArgCounts :
       file = [left |-> Life, fitness |-> MaxFitness, num |-> n, has |-> 0]
  /\ data \in 0..MaxData
  /\ pc = "off" /\ cur = Nothing
  /\ editor = Off /\ runner = Off
  /\ turns = 0
  /\ careful \in BOOLEAN
  /\ full = FALSE /\ over = FALSE

-----------------------------------------------------------------------------
(* dsy-sysenv *)

Goto(p, q) == pc = p /\ pc' = q
FailAt(p) == pc = p /\ pc' = "failed" /\ cur' = Nothing

Start ==
  /\ ~Up /\ pc' = "scan"
  /\ careful => Idle(editor) /\ Idle(runner)
  /\ UNCHANGED <<file, data, cur, editor, runner, turns, disk>>

\* The file running is gone at the end of a cycle.
Stop == Goto("scan", "off") /\ UNCHANGED <<file, data, cur, editor, runner, turns, disk>>

Scan ==
  /\ Goto("scan", "load")
  /\ file # Absent /\ turns < MaxTurns
  /\ UNCHANGED <<file, data, cur, editor, runner, turns, disk>>

Load ==
  /\ \/ Goto("load", "args") /\ Whole /\ cur' = file
     \/ FailAt("load") /\ ~Whole
  /\ UNCHANGED <<file, data, editor, runner, turns, disk>>

NeedsNoArgs ==
  /\ Goto("args", "evalOpen") /\ cur.num = 0
  /\ UNCHANGED <<file, data, cur, editor, runner, turns, disk>>

\* The assertion of get_args.
ArgsFull ==
  /\ FailAt("args") /\ cur.num > 0 /\ cur.has >= cur.num
  /\ UNCHANGED <<file, data, editor, runner, turns, disk>>

TakeArg ==
  /\ pc = "args" /\ cur.has < cur.num /\ cur.fitness > 0 /\ data > 0
  /\ data' = data - 1
  /\ cur' = [cur EXCEPT !.has = @ + 1]
  /\ Goto("args", IF cur.has + 1 = cur.num THEN "evalOpen" ELSE "age")
  /\ UNCHANGED <<file, editor, runner, turns, disk>>

MissArg ==
  /\ pc = "args" /\ cur.has < cur.num /\ (cur.fitness < MaxFitness \/ data = 0)
  /\ Goto("args", "age")
  /\ UNCHANGED <<file, data, cur, editor, runner, turns, disk>>

\* A failed write leaves the file short, or as another writer left it, or
\* whole where only fsync fails; the last bytes are lost by fclose, unnoticed.
Reaches(c) == file' = c /\ UNCHANGED full
DiskFull(c) == file' \in {file, c} /\ full' = TRUE

\* cell_save_to_file; a file that is not there is made anew.
Open(p, q) ==
  /\ Goto(p, q)
  /\ file' = Torn
  /\ UNCHANGED <<data, cur, editor, runner, turns, disk>>

EvalOpen == Open("evalOpen", "evalWrite")
SaveOpen == Open("saveOpen", "saveWrite")

EvalWrite ==
  /\ \/ Goto("evalWrite", "eval") /\ UNCHANGED cur /\ (Reaches(cur) \/ DiskFull(cur))
     \/ FailAt("evalWrite") /\ DiskFull(cur)
  /\ UNCHANGED <<data, editor, runner, turns, over>>

\* Mutant: the file is not loaded again.
ReloadedNot == cur

Reloaded == file

\* The evaluator has ended; the file is loaded again.
Evaluated ==
  /\ pc = "eval" /\ (careful => Idle(runner))
  /\ \/ /\ Whole
        /\ careful => file.has = 0
        /\ \E f \in 0..MaxFitness : cur' = [Reloaded EXCEPT !.fitness = f]
        /\ Goto("eval", "age")
     \/ ~Whole /\ FailAt("eval")
  /\ UNCHANGED <<file, data, editor, runner, turns, disk>>

\* Mutant: the turn takes nothing off the life.
OlderNot(c) == c

Older(c) == [c EXCEPT !.left = @ - 1]

Age ==
  /\ pc = "age" /\ cur' = Older(cur)
  /\ Goto("age", IF cur.left - 1 = 0 THEN "release" ELSE "saveOpen")
  /\ turns' = turns + 1
  /\ UNCHANGED <<file, data, editor, runner, disk>>

\* death() puts the arguments back, one compound after the other.
Release ==
  /\ Goto("release", "remove")
  /\ data' = data + cur.has
  /\ UNCHANGED <<file, cur, editor, runner, turns, disk>>

\* What a tool has open is no longer the file of that name.
Unlinked(tool) == IF tool.at = "write" THEN [tool EXCEPT !.at = "lost"] ELSE tool

\* The assertion of cell_remove_file.
Remove ==
  /\ \/ Goto("remove", "scan") /\ file # Absent
     \/ FailAt("remove") /\ file = Absent
  /\ file' = Absent /\ cur' = Nothing
  /\ editor' = Unlinked(editor) /\ runner' = Unlinked(runner)
  /\ UNCHANGED <<data, turns, disk>>

SaveWrite ==
  /\ \/ Goto("saveWrite", "scan") /\ (Reaches(cur) \/ DiskFull(cur))
     \/ pc = "saveWrite" /\ pc' = "failed" /\ DiskFull(cur)
  /\ cur' = Nothing
  /\ UNCHANGED <<data, editor, runner, turns, over>>

Sysenv ==
  \/ Start \/ Stop \/ Scan \/ Load \/ NeedsNoArgs \/ ArgsFull \/ TakeArg \/ MissArg
  \/ EvalOpen \/ EvalWrite \/ Evaluated \/ Age \/ Release \/ Remove
  \/ SaveOpen \/ SaveWrite

-----------------------------------------------------------------------------
(* dsy-edit-cell *)

Editor(from, to) ==
  /\ editor.at = from /\ editor' = to
  /\ UNCHANGED <<data, pc, cur, runner, turns>>

\* option_parser: atoi into a byte.
Edited(c, edit) == [c EXCEPT ![edit.field] = edit.value % Byte]

\* What get_args asserts of the cells it loads is not so.
Overdone(c) == c.num > 0 /\ c.has >= c.num

\* What the history remembers of an edit.
MadeOver(edit, c) == IF edit.field = "has" THEN Overdone(c) ELSE over

EditLoad ==
  /\ careful => ~Up /\ Idle(runner)
  /\ Whole
  /\ \E edit \in Edits :
       LET c == Edited(file, edit)
       IN  Editor("off", [at |-> "ask", cell |-> c, over |-> MadeOver(edit, c)])
  /\ UNCHANGED <<file, disk>>

EditNo == Editor("ask", Off) /\ UNCHANGED <<file, disk>>

EditOpen ==
  /\ Editor("ask", [editor EXCEPT !.at = "write"])
  /\ file' = Torn
  /\ UNCHANGED disk

EditWrite ==
  /\ Editor("write", Off)
  /\ Reaches(editor.cell) \/ DiskFull(editor.cell)
  /\ over' = editor.over

\* A write into a file that was removed.
EditLost == Editor("lost", Off) /\ UNCHANGED <<file, disk>>

EditCell == EditLoad \/ EditNo \/ EditOpen \/ EditWrite \/ EditLost

-----------------------------------------------------------------------------
(* dsy-exec-cell *)

Runner(from, to) ==
  /\ runner.at = from /\ runner' = to
  /\ UNCHANGED <<pc, cur, editor, turns>>

RunLoad ==
  /\ careful => pc = "eval" \/ (~Up /\ Idle(editor))
  /\ Whole
  /\ Runner("off", [at |-> "run", cell |-> file])
  /\ UNCHANGED <<file, data, disk>>

\* cell_exec: the arguments are consumed, the result goes to data/.
Run ==
  /\ Runner("run", [at |-> "open", cell |-> [runner.cell EXCEPT !.has = 0]])
  /\ data' \in {data, data + 1} /\ data' <= MaxData
  /\ UNCHANGED <<file, disk>>

RunOpen ==
  /\ Runner("open", [runner EXCEPT !.at = "write"])
  /\ file' = Torn
  /\ UNCHANGED <<data, disk>>

\* Mutant: dsy-exec-cell does not write what it opened.
RunWriteNothing ==
  /\ Runner("write", Off)
  /\ UNCHANGED <<file, data, disk>>

RunWrite ==
  /\ Runner("write", Off)
  /\ Reaches(runner.cell) \/ DiskFull(runner.cell)
  /\ over' = FALSE
  /\ UNCHANGED data

RunLost == Runner("lost", Off) /\ UNCHANGED <<file, data, disk>>

ExecCell == RunLoad \/ Run \/ RunOpen \/ RunWrite \/ RunLost

-----------------------------------------------------------------------------

\* docs/tips.md: to kill a cell the user stops the program and removes its file.
UserRemove ==
  /\ ~Up /\ Idle(editor) /\ Idle(runner)
  /\ file # Absent /\ file' = Absent
  /\ UNCHANGED <<data, pc, cur, editor, runner, turns, disk>>

(***************************************************************************)
(* A careful user calls the tools only while dsy-sysenv does not run, and  *)
(* the evaluator of his cells runs dsy-exec-cell on a cell with arguments, *)
(* as the one of samples/ does; nothing in the code asks for either.       *)
(***************************************************************************)
Next == (Sysenv \/ EditCell \/ ExecCell \/ UserRemove) /\ UNCHANGED careful

Spec == Init /\ [][Next]_vars

-----------------------------------------------------------------------------

(***************************************************************************)
(* Whatever the three programs do at the same time, the file is without    *)
(* content only while one of them has it open to write (cell.c:712), or    *)
(* after a write failed: none ends otherwise and leaves an empty file.     *)
(***************************************************************************)
TornIsBusy ==
  file = Torn =>
    \/ pc \in {"evalWrite", "saveWrite"} \/ editor.at = "write" \/ runner.at = "write"
    \/ full

(***************************************************************************)
(* cell.h:27: every cycle takes one off the life left.  Between two turns  *)
(* the file has aged by exactly the turns the cell had, through every save *)
(* of the process, of the evaluator's dsy-exec-cell and of dsy-edit-cell,  *)
(* as long as no write fails.                                              *)
(***************************************************************************)
EveryTurnCounts ==
  careful /\ ~full /\ pc \in {"off", "scan"} /\ Whole => file.left + turns = Life

(***************************************************************************)
(* Where the tools are called one at a time and every write succeeds, a    *)
(* turn aborts the process for one reason: the last edit of has_args, with *)
(* no dsy-exec-cell after it, made it num_args or more, which the usage    *)
(* offers (dsy-edit-cell.c:16) and get_args rejects (cell.c:23).  No other *)
(* edit does, and arguments that were consumed never come back.            *)
(***************************************************************************)
AbortByEdit ==
  [][careful /\ ~full' /\ pc # "failed" /\ pc' = "failed" => over]_vars
============================================================================
