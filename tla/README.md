# Formal model of daisy-tools

daisy-tools is an artificial-life environment made of directories and files:
`cell/` holds cells, `code/` and `data/` hold the compounds they feed on, and
the process `dsy-sysenv` gives every cell one turn per cycle, in which it
takes compounds, runs, grows, divides with mutations, ages and dies.  This
directory holds TLA+ specifications of it, the instances TLC checks, and
proofs checked by TLAPS.

```
tlc -workers 2 -config MCSysEnv.cfg MCSysEnv     # one run
tlapm EcosystemProofs.tla                         # the proofs
```

`PROJECT.json` maps every definition to the lines it models and lists the runs,
the mutants (one broken version of the code per property), the findings, the
hazards and the theorems.

## 1. Inventory

| Component | Source | State | Operations |
|---|---|---|---|
| main loop | `main.c` | file `running` | `sysenv_init`, a cycle while `running` exists, a pause |
| environment cycle | `sysenv.c:141-184` | listing of `cell/`, `num_cycle`, file `update_code` | scan, `update_all_code_list` in the first cycle or on request, the turn of each cell |
| list of all codes | `sysenv.c:14-16,57-121,280-285` | `all_code_list`, `num_all_codes`, in memory only | rebuild, draw a codon for mutation |
| environment compounds and names | `sysenv.c:28-55,186-248`, `compound.c` | one file per compound in `code/`, `data/` | take a random one, put one under a free name |
| switch files and evaluator | `sysenv.c:262-332` | `running`, `endless`, `out.cell`, exit status of `dsy-eval` | evaluate, stop the process when a cell is perfect |
| cell cycle | `cell.c:741-808` | `struct cell` in memory, its file | load, metabolism, growth, division, life and death, save |
| DNA, mutation, division | `cell.c:56-156,193-581`, `cell.h` | codons with a compound flag and four protection flags | bond, copy, insert before or after, change, remove; central dogma; life of a mutant |
| cell file format | `cell.c:618-739`, `common.c` | bytes of `cell/<name>` | load, save, remove |
| `dsy-exec-cell` | `dsy-exec-cell.c`, `cell.c:810-828` | the cell file, `data/` | call the function, consume arguments, put the result |
| `dsy-edit-cell` | `dsy-edit-cell.c` | the cell file | load, ask the user, save |
| `dsy-cell2elf`, `dsy-elf2asm` | `dsy-cell2elf.c`, `bin/dsy-elf2asm` | `.test.elf` | headers, character list and protein; listing |
| `dsy-cell2pbm` | `dsy-cell2pbm.c` | output | image |
| run script, fitness logger | `bin/run`, `bin/cell-fitness-logger` | `running`, copies of `cell/`, `log/current_html` | start, log while `running` exists, last log |
| dumps, log pages | `cell.c:830-1071`, `dsy-dump-cell.c`, `bin/cell-log-html` | output | text, JSON, HTML |
| sample cells and evaluators | `samples/` | files the user installs, fitness | founders of a population, what a program is worth |
| exercises | `docs/exercise` | an executable made by hand | `create-elf-header` |

### How they interact

* The environment calls `cell_do_cycle` for each name it listed; the cell calls
  back `sysenv_get_comp`, `sysenv_put_comp`, `sysenv_put_cell`,
  `sysenv_exec_and_eval`, `sysenv_get_mutated_codon` and `sysenv_exit`.
* Process, evaluator and user share nothing but files, and no file is locked.
  The evaluator runs as a child process between the save of the cell and its
  second load; it may run `dsy-exec-cell`, which rewrites the cell's file.
* `dsy-edit-cell` and `dsy-exec-cell` load, change and save the same cell file when
  the user calls them.
* `bin/run` starts `dsy-sysenv` and `cell-fitness-logger`; the three share only the
  file `running`, and the logger copies `cell/` while the process works on it.
* The user talks to the process by making and removing `running`, `endless` and
  `update_code` and by copying files into `code/` and `cell/` at any moment
  (`docs/tips.md:54-65`).
* Every failed `ASSERT` or `ERROR_WITH` is `err()`: the process ends where it is,
  with its files as they are.

### What is hard

* *Interleaving*: the user acts between any two file operations
  (`running` between `sysenv_is_running` and `remove`; `update_code` between the
  reading of the directories and its removal; a half-copied file of `cell/` or
  `code/`, which whoever loads it aborts at).
* *Stale state*: the listing of `cell/` and the list of all codes are read once
  and used while cells are born, die and are placed by the user, who need not ask
  for an update of the list when he places one.
* *Partial failure and crashes*: a turn is some ten file operations without a
  transaction; aborts are part of normal operation (an evaluator that exits
  with more than 100, an empty DNA that divides by zero).
* *Kill and power failure*: a file is emptied, filled through a buffer, synced
  before the buffer is written; the next start reads every file and aborts at a
  broken one.
* *Two programs on one file*: the editor waits for the user between load and save.
* *Fixed buffers*: the list of all codes, the text of a DNA, the JSON of a cell.
* *Long histories*: mutation works over generations; protection flags, lives,
  matter and the list of codes must stay right after any number of them.
* *Numbers*: unsigned lives, `rand() %` of counts that may be zero.

### What makes each component correct

* Environment: no matter or instruction is lost; a cycle gives each listed cell
  one turn; a stop and an update that are asked for happen.
* List of codes: complete for every living DNA but those of cells placed since it was
  built, and empty when it is used for such a cell only.
* Cell cycle: no torn files except by a kill; at most one compound bonded per
  turn and none left by a division; every cell dies.
* DNA: protected ends stay, protein and DNA differ by one mutation, lives are
  positive and do not wrap.
* Arguments: each data compound is in one place.
* Files: a load accepts nothing but the whole of the last save; a compound is in
  one file, and no file is opened that somebody else has.
* Tools: used one at a time they undo no turn, and make the next one abort only by an
  edit of `has_args` to `num_args` or more.
* Scripts: what is asked to stop stops, and the last page shows the last cells when no
  other log is written at the same time.
* Executables and evaluators: the program that runs is the protein; 100 is given
  for reaching the goal and never by adding up.

## 2. The modules

| Module | Models | State |
|---|---|---|
| `Seqs` | the operators on sequences taken from the community modules | none |
| `Dna` | `struct codon`, growth, mutation, division (pure operators) | none |
| `DnaProofs` | lemmas about them | |
| `Ecosystem` | the abstract specification: what `cell.c` and `sysenv.c` promise together | `cells`, `code`, `list`, and the history `brought` |
| `EcosystemProofs` | types, tails, lives, list, species, protein and DNA, matter, names | |
| `SysEnv` | the process, one step per effect on the file system, with user, evaluator, aborts, kills and restarts | files, switch files, `pc`, memory of the process |
| `SysEnvProofs` | `SysEnv` implements `Ecosystem`; files, listing, list of codes, pace, arguments | |
| `Store` | the abstract specification of a directory of compounds: a bag | `code`, `held`, `up` |
| `Compounds` | its files: names, listing, reading, removing, writing, copies by the user, kills, repairs | `file`, `pc`, memory of the process |
| `AllCodes` | the array `all_code_list`, entry by entry | `all_code_list`, `num_all_codes`, what it is built from |
| `EnvironmentProofs` | `Compounds` implements `Store`, broken files; the array: overrun only by too many instructions, genuine, complete, without doubles | |
| `CellFile` | the bytes of a cell file, the buffer of stdio, disk | `file`, `disk`, `put`, `pc` |
| `CellFileProofs` | what a load accepts, what a save leaves | |
| `CellTools` | `dsy-sysenv`, `dsy-exec-cell` and `dsy-edit-cell` on one cell file | the file and the three programs |
| `CellToolsProofs` | torn files, counted turns, aborts by an edit | |
| `Lifecycle` | `bin/run`, `dsy-sysenv`, the loggers and the commands they leave, several sessions | `running`, `cells`, `page`, one program counter per process |
| `LifecycleProofs` | the last page | |
| `Dump` | the text of a DNA and the JSON of a cell, and their buffers | buffer, loops |
| `Elf` | the executable `dsy-cell2elf` writes, the one of exercise 7, what `dsy-elf2asm` skips (operators) | none |
| `Samples` | the DNA of the sample cells and the machine code of their instructions (operators) | none |
| `Evaluation` | a line of descent from a sample cell: executable, run, twelve evaluators, division | `cell`, `elf`, `result`, `fitness` |
| `OutputProofs` | the executable, what it runs to and its ratings in every generation; the buffers of both dumps | |
| `MC...` | instances for TLC | |

Three refinements and uses hold the project together.  `SysEnv` has `Eco == INSTANCE
Ecosystem WITH cells <- ViewCells, code <- ViewCode, Colonies <- ViewColonies`, and
`Implements == Eco!Spec` is checked and proved.  `Compounds` has `Bag == INSTANCE
Store WITH code <- CodeBag, up <- Alive, ...`, and `Implements == Bag!Spec` is checked
and proved: it justifies that `SysEnv` and `Ecosystem` know `code/` as a number per
instruction.  `Dna` is used by `Ecosystem`, `SysEnv` and `Evaluation`, so cells
mutate by the same operators everywhere.

### Dna

An element of `Code` stands for the eight bytes and the length of an
instruction: the code compares `int64` only.  `dis` is the set of mutations a
codon forbids (`mutate_flg`).  `Children(c, list, growing)` is the set of all
children `division` can make: the copy (also when the draw of `mutation` meets a
flag), and every insertion, change and removal the flags allow, with any
instruction of the list.  The copy loops are functions over positions, with the
same comparisons as the loops of `cell.c`.  The child's `body` is the parent's
instruction list (`Protein`): a mutation shows in the protein one generation
late.  `LifeOf` is `30 * n - 20` in an unsigned integer, with its slope, offset
and word size as parameters (`docs/tips.md` invites the user to change the
formula).

### Ecosystem

`Refresh` (the list is rebuilt), `Bond` (a compound to the first free codon of
its instruction), `Divide`, `Age`, `Die` (the remains go to `code/`), `Supply`
(the user adds a compound), `Arrive` (the user places a cell), `Restart` (the list is in
memory only), `DrawFails` (a mutation draws from a list that is empty: the process ends,
and the compound bonded last is gone).  There is no turn, no order and no file.

A cell file is seen in the next cycle, the list is not rebuilt for it.  `brought` is a
history variable: the instructions of the cells placed since the directory was read for
the list.  The only action that reads it is `Refresh`; `ListSound` says with it that
those are the only instructions the list may lack.  `Refresh` lets a part of them be
`late` again: `cell/` is read before the list is rebuilt, and a cell may be placed in
between.  `Amount(x)` counts an instruction everywhere: one for each codon, one for each
bonded compound (together the pieces of `Held(x)`), one for each compound in `code/`:
this is what `death` returns.

### SysEnv

`pc` names the next call.  The correspondence:

| Code | Actions |
|---|---|
| `main`, `sysenv_init` | `Start`, `CheckRunning` |
| `sysenv_do_cycle` | `NoCells`, `ScanCells`, `UpdateList`, `UpdateListFails`, `KeepList`, `RemoveUpdateCode`, `Load`, `EndCycle` |
| `metabolism`, `get_args` | `NeedsNoArgs`, `ArgsFull`, `TakeArg`, `MissArg` |
| save, `sysenv_exec_and_eval`, second load | `EvalOpen`, `EvalWrite`, `Evaluated`; `ExecCell` (the evaluator runs the cell, any number of times) |
| fitness 100 | `SaveOutput`, `CheckEndless`, `ExitCheck`, `ExitRemove`, `ExitRemoveFails` |
| `growth`, `sysenv_get_comp`, `sysenv_put_comp` | `TakeCode`, `TakeCodeFails`, `MissCode`, `BondCode`, `ReleaseCode` |
| `division`, `sysenv_put_cell` | `Divide`, `DivideByZero`, `BirthWrite` |
| life and `death` | `Age`, `ReleaseArg`, `ReleaseCodon`, `RemoveCell`, `SaveOpen`, `SaveWrite` |
| `ASSERT`, `ERROR_WITH` | `Fail` |
| user, operating system | `Start`, `Stop`, `SwitchEndless`, `RequestUpdate`, `SupplyOpen`, `SupplyWrite`, `PlaceOpen`, `PlaceWrite`, `Kill` |

*Copies.*  The user copies one file at a time into `code/` or `cell/`: it is created, then
filled, and in between the process may pick it.  `copying` says which.  `Loadable` is what
a rebuilding of the list asserts: every cell it listed and every compound of `code/` is
whole.  A turn that takes a half-copied compound ends the process after it may have taken
an argument (`TakeCodeFails`).

*The refinement mapping.*  The struct in memory counts, not the file it came
from; a compound in the hand of `growth` and the remains `death` still holds
count as if they were in `code/`; a cell is dead when its life is over, a child
is born when it has a name.  An abort between two of these steps is therefore
visible in the mapping as a loss unless the files agree with it: that they do,
at every point where the program aborts by itself, is what `Implements`
says.

### Store and Compounds

A compound file is `Absent`, `Torn` (less than its 16 bytes) or a compound.  One action
is one call that touches the directory: `ListCodes` (the listing of every start, which
loads every file), `Scan`, `Load`, `Remove` for `sysenv_get_comp`; `BeginPut`,
`DrawName`, `OpenNew`, `WriteNew` for `sysenv_put_comp`.  Between any two of them the
user may copy a file into the directory (`AddOpen`, `AddWrite`: `cp` creates it, then
fills it), the process may be killed, and while none runs the user may throw broken
files away.  `NamesApart` says that the user gives no name that `dsy-name` draws
(hexadecimal digits); a name that was found free is opened later.  In `Store` there
are `Take`, `Put`, `Supply`, `Start`, `Stop` and a bag.

### AllCodes

The instruction is a pair of its eight bytes and its length.  `Clear` resets the lengths
and the count and leaves the bytes, as the code does; `AddNext` adds one compound with
the comparison of the code (bytes of the used entries only); `ScanCells` is the reading
of `cell/` before it.  The user may add compounds (`Supply`) and cells (`Place`) at any
moment; `brought` remembers of the cells what came after `ScanCells`.  The array may be
shorter than there are instructions.  A write behind it and a modulo by zero are states
of their own (`"overrun"`, `"divided by zero"`).

### CellFile

A file, and the disk behind it, is a prefix: the first `len` bytes of the cell `of`.  `put`
counts what `fwrite` accepted; the bytes reach the file at any moment once they exceed
the buffer, and at `Close`.  `Sync` copies file to disk before `Close`, as
`_save_file_to` does; `WriteBack` is the kernel's own.  `full` is a history variable:
in this save the disk was full.  `LoadOf` cuts the file by the sizes in its
attributes, with the assertions of `cell_load_from_file`.

### CellTools

The turn of `dsy-sysenv` without growth and division, which leave life, fitness and
arguments alone; `dsy-edit-cell` (`EditLoad`, then the answer of the user, `EditOpen`,
`EditWrite`); `dsy-exec-cell` (`RunLoad`, `Run`, `RunOpen`, `RunWrite`), called by the
evaluator or by the user.  The rigid variable `careful` says, for a whole behaviour,
that the tools are used the way the docs show: while `dsy-sysenv` is stopped, or by
its evaluator, which runs the function of the cell in every turn.  Without it every
interleaving is possible.

Every write may reach the file or meet a full disk (`Reaches`, `DiskFull`), where the
program fails at an assertion of the save or, if it is `fclose` that fails, goes on
with a file that is not whole; the history `full` remembers it.  The attributes lie in the
first bytes of the file, which one call writes, so of two writers the last one decides
them.  A program that has the file open when `dsy-sysenv` removes it writes into nothing
(`Unlinked`, `EditLost`, `RunLost`).  An edit may give any value; `atoi` goes into a byte
(`Edited`).  The history `over` remembers that the last edit of `has_args` left the cell
with all of its arguments or more, and is cleared by `dsy-exec-cell`.

### Lifecycle

A session is one call of `bin/run`: `Touch`, `StartLogger`, `StartSysenv`, `KillLogger`,
the logger once more with `--oneshot`; `set -e` makes a failing command the end of the
script (`SysenvFailed`, `KillFails`), Ctrl-C runs the trap (`Interrupt`, `Trap`).  The
user may start the next session at once after removing `running`, while the old process
still works (`Touch`).  A logger lists, copies one cell after the other, fails when a
cell it listed is gone, clears `log/current_html` and publishes.  Its directory is named
by the second, so `cp -r` may merge into that of another log (`ListMerged`).  A `kill`
ends the bash of a script and not the command it waits for: an `rm` or a `cp` on
`log/current_html` goes on by itself (`Killed`, `CommandLeft`, `CommandEnds`).  The
history `alone` says that the session had the pages for itself: nothing of an earlier
one was left when it began, its kill met no such command, and its last log shares its
second with no other.

### Dump

`DumpSpec` is one call of either writer, `InitText` or `InitJson`.  `Text` writes the
instructions character by character, with the NULs `sprintf` leaves, into a buffer of
`BufSize`.  `Json` counts characters: each value is at its shortest or at its longest,
literal text is its length.

### Elf, Samples, Evaluation

`Elf` and `Samples` say at which addresses and with which bytes; `Evaluation` puts
them together.  `Convert` makes the executable, `Evaluate` runs it and rates it with all
twelve evaluators of `samples/` that run an executable, `Divide` makes the child the
next cell of the line.  The processor (`Step`) is external: the instructions of the
samples, each with its effect on the registers (`Instruction`), one after the other
(`Last`), from the entry point of the executable (`Starts`), writes checked against the segment
(`Readable`), a `ret` or a store at a bad address as a crash.  After a system call `rax`
is unknown.

### Decisions

* Fitness is scaled from 0..100 to 0..`MaxFitness` = 2 where evaluators are not
  modelled; what matters is whether `rand() % CELL_MAX_FITNESS < fitness` is
  impossible, possible or certain, and whether an evaluation is above the maximum.
  In `Evaluation` it is 0..100.
* In `Ecosystem` and `SysEnv` the list of all codes is a set and a compound is put in
  one step; `AllCodes` and `Compounds` have the detail.  A cell file in `SysEnv` is
  absent, torn or whole; `CellFile` has the bytes.
* Values of arguments and results are not modelled, their numbers are.
* `out.cell` is a boolean.
* A DNA of no codon never divides: `DivideByZero` stands for both ends of the
  process, the division by zero of a mutation and the failed `mmap` of
  `central_dogma`; it is also the mutation that draws from an empty list.
* In `SysEnv` the user starts the program only when it does not run, and does not remove
  `update_code`; into `cell/` he copies files under names that are free and changes or
  removes none (`Lifecycle` and `CellTools` have users who do).  He copies one file at a
  time, and adds no file to `data/` (the calls are those of `Compounds`, where
  the user does).
* When every name is taken `create_filename` spins: `Divide` is not enabled.
  `NameAvailable` shows that this needs fewer names than matter.
* Mutants stand next to the definition they break, under a comment that begins
  with "Mutant:"; no specification uses them.

## 3. What TLC checks

| Run | Shows | Distinct states |
|---|---|---|
| `eco` | population of a cell with a two-codon exit block, into which cells are placed: types, tails, protein and DNA, list, names (invariants); species and matter (action properties) | 50 000 |
| `sys` | the process with user, half-copied files, placed cells, arguments, aborts and restarts implements `Ecosystem`; its listing and list do not go stale, growth has its pace, data compounds are in one place | 378 000 |
| `sys_kill` | one kill at any moment: at most one torn file, and while there is one no cell has a turn, and every other file is a cell to start from; the process ends when asked to, every cell dies, an update is taken up | 124 000 |
| `comp` | files of compounds: what the process knows is fresh, broken files are counted and block every start, the directory is a bag, a put ends | 173 000 |
| `all_codes` | the array: overrun only by too many instructions, genuine, complete but for cells placed late | 719 000 |
| `file` | a load accepts only what was saved; a save that returned is whole unless the disk was full | 11 000 |
| `tools` | no empty file is left in any interleaving but by a failed write; tools used one at a time lose no turn and abort only by an edit of `has_args` | 5 100 000 |
| `life` | the last page of a session that has the pages for itself shows the last cells; without `running` all is quiet | 233 000 |
| `dump` | the text is whole and inside its buffer, the JSON of 96 codons fits | 620 000 |
| `eval` | the executable starts with the protein, 100 is for the goal only, no foreign system call, the exit block ends every program | 257 000 |
| `doc_life`, `doc_update` | expected violations, see below | |

Bounds, and why they are enough to meet the interesting cases:

* `Name`: three names (four in `doc_life`).  Two cells and a third name for a child
  that takes the name of a cell that died in the same cycle.  Symmetric but for the
  founder; symmetry is not used for liveness.
* `Code`: two instructions (three for the exit block): the protected one and a
  foreign one.
* `MaxDna` 2 to 4: a genome can grow and shrink around its tail.
* `MaxMatter` 2 to 7 bounds the user's supply and the insertions, the only
  sources of matter; children and cells that would exceed a bound are left out.  In
  `sys_kill` it is 2 with three names: a kill may double the remains of a cell, and
  with more cells than names `create_filename` would rightly never end.  That leaves no
  room for a mutant, whose life `FoundersLeft` speaks of too; for every bound that is
  `FounderTheorem`.
* `LifeSlope` 2, `LifeOffset` 1, `Word` 16 (4 in `sys` and `sys_kill`): lives of 1, 3 and
  5, and a life that wraps at 0 codons, as in 30n - 20 modulo 2^32.  `Evaluation`
  has 30 and 20.
* The founder of `sys` is a cell of two arguments whose DNA has become empty, in its last
  turn: it divides by zero, or meets a half-copied compound, in a turn in which it may have
  taken one of them.  In `sys` and `sys_kill` the user places the cell of
  `create-incr-cell-data.c`, with an argument and a return value; in `eco` a cell that
  brings an instruction that may not exist otherwise.
* `EvalResults` has an acceptable, the perfect and a rejected exit status.
* `MaxData` bounds what `ExecCell` may put; `MaxKills` is 0 or 1, 2 in `comp`.
* `MutationProbability` is 100 as in `cell.h`; copies still happen where a draw
  meets a flag.
* `comp`: five names to draw and one of the user, two files at most besides those in
  hand, two kills, one copy.  `all_codes`: an array of two entries, one less than there are
  byte patterns among its four instructions, of which one is zero and one is shared by
  two lengths.  `file`: parts of 2 bytes and a buffer of 3, so that it is emptied
  inside and between the parts; four cells of three sizes.
* `tools`: a life of 2, two turns, cells without and with two arguments, a byte of 3
  values; edits of the fitness and of `has_args` to every value from none to `num_args`,
  and values that a byte wraps.  `life`: two sessions and one cell name, which dies and is
  born again.
* `dump`: all DNAs of up to three instructions of up to three bytes, and two of seven
  and eight bytes; cells of up to 96 codons.  96 fits the 40960 bytes with every value at its
  longest, 97 does not.
* `eval`: the six sample lines up to 35 codons, two mutations (one for the long hello
  cell, with its 26 codons and more), and a hello cell that has come down to its last
  codon and may lose it.

*Fairness.*  `SysEnv!Live == Spec /\ WF_vars(Process)`: `dsy-sysenv` is a single thread
whose every call returns, provided that the evaluator ends (it is run by
`system()`, without a timeout).  `Compounds!Live` is the same for its process; it
includes that random names, drawn again and again, meet a free one.  `Lifecycle!Live` has
weak fairness of each script with its `dsy-sysenv` and of each logger with the commands it
leaves; it assumes that these commands return, the `strace` of each cell's executable among
them, which has no limit (`bin/cell-log-html:36`).  No fairness of the
user, of the choice of compounds or of the draws of mutation is assumed.

*Deadlock.*  `life`, `dump` and `eval` turn deadlock checking off: all sessions have
ended; a text has been written; a line of descent whose mutations are used up and
whose DNA has no flag has no copy that the draw would make.

### Disagreements

Two are runs that are expected to end in a violation.

* `doc_life` - `docs/tips.md:126`: the life of a mutant is proportional to its
  codons.  `cell.c:516` computes `30 * num_codns - 20` in an unsigned int: a child
  that lost its last codon has a life of 2^32 - 20 cycles.
* `doc_update` - `docs/tips.md:62-65`: a compound is added, `update_code` is
  placed, the next cycle knows the compound.  When an earlier update is being
  served, `update_code` is removed after `code/` was read, and the request is
  lost.

Others were met while modelling.  The models contain the behaviour; where a property
would fail its condition says so, and the formula given here shows it.

* `cell.h:77`: `insp_dis` forbids the insertion directly before the codon.
  `INSERT_NEXT` (`cell.c:278`) looks at the flag of the codon it is applied to only: a MODIFY
  clears the flags of the codon before (`cell.c:391`), and then the insertion happens.
* `cell.h:45-47`: the argument fields do nothing in the design with
  `dsy-eval`.  A cell that got its arguments and whose evaluator did not call
  `dsy-exec-cell` is saved with them and aborts the process in its next turn
  (`cell.c:23`): `[][pc = "args" => pc' # "failed"]_vars` of `SysEnv`.
* `dsy-edit-cell.c:16` offers `--has_args={0..num_args}`; the value `num_args` does the
  same: `AbortByEdit` without `over`.
* `cell.h:27`: every cycle takes one off the life.  `dsy-edit-cell` next to a running
  `dsy-sysenv` undoes the turns in between: `EveryTurnCounts` without `careful`.  It also
  brings back a cell that died.
* `bin/README.md:226`: after `running` is removed the process ends with the cycle.  When
  that happens between the lookup and the remove of `sysenv_exit` (`sysenv.c:326`), the
  assertion aborts it: `[][pc = "unlink" => pc' # "failed"]_vars`.
* `README.md:97`: removing `running` stops the program.  A `bin/run` before it has looked
  makes the old process go on, and two work on the same directories: the second
  alternative of `Touch` in `Lifecycle`.
* `docs/tips.md:54-56`: a cell may be placed while the program runs and is like any other
  from the next cycle on.  Its instructions are not drawn by any mutation until
  `update_code` is placed, and where there was no instruction at all its first division
  divides by zero: `ListSound`, `ListReady` and `Complete` without `brought`.
* `docs/tips.md:58-65`: files may be added to `code/` while the program runs.  A file that
  is just being copied may be picked and ends the process (`compound.c:36`):
  `[][pc = "pick" => pc' # "failed"]_vars` of `Compounds`, `TakeCodeFails` and
  `UpdateListFails` of `SysEnv`.  A cell of several arguments may lose one by it:
  `DataBalances` says when.
* `bin/README.md:37`: nothing stops the periodic logger but the user.  `cp -r`
  (`cell-fitness-logger:31`) fails when a cell it has listed dies, and `set -e` ends it.
* `bin/run:36-39`: the last log is of the last cells.  The `kill` leaves a running `rm`
  or `cp` of the periodic logger, which may clear or fill the page after the last log,
  and two logs of one second share a directory: `PageFinal` without `alone`.
* `cell.c:693` asserts that all was written; on a full disk it is `fclose`
  (`cell.c:704`) that fails, unnoticed: `SavedWhole` without `~full`.
* `cell.c:702-703` syncs before `fclose` has flushed the buffer: after a power failure
  a cell that was saved may be gone, `done => disk = file` fails.

## 4. What is proved

Every theorem holds for all values of the constants that satisfy the named
assumptions of its module; TLC evaluates them in every run.  Each part has an
inductive invariant, one lemma or step per action, and its theorems at the end.
`EnvironmentProofs` is about `Compounds` and `AllCodes`, `OutputProofs` about `Evaluation`
and `Dump`, every other `...Proofs` about the module of its name.

*Ecosystem.*  Assumptions: `DnaAssumption`, `EcosystemAssumption`, `AbsentAssumption` (the
founders are cells within the bounds, with the tail; a tail forbids to change or
remove its codons and to insert between or after them; no DNA of at most `MaxDna`
codons has a new life of 0; names and instructions are finitely many).  Names,
instructions, tail, populations and bounds are arbitrary.

* `TypeCorrect`: `Spec => []TypeOK`.
* `TailTheorem`: `Spec => []TailIntact`, for any number of generations.
* `LifeTheorem`: `Spec => []LifeLeft`.
* `ListTheorem`: `Spec => []ListSound`.
* `SpeciesTheorem`: `Spec => SpeciesKept`, an action property.
* `BodyTheorem`: `Spec => []BodyNearDna`.
* `MatterTheorem`: `Spec => MatterBalances`, an action property.
* `NameTheorem`: `Tail0 # <<>> /\ Spec => []NameAvailable`.

The inductive invariant is `IInv == TypeOK /\ DnaBound /\ TailIntact /\ LifeLeft`.
`LifeLeft` alone is not inductive: a new life is positive only for a DNA
within the bound, so `DnaBound` is needed; types and tails need each
other, since a mutation is a DNA with the tail only if the parent is.
`DnaProofs` says of each mutation what it returns: its length, its type, and that
the tail stays when the flag that allows it is not in the tail.
`EcosystemProofs` collects that in `NewDnaHeir` and `ChildOfCell` and has one step
per action in `NextIInv`.  TLC checks the first and third conjunct in `eco`, and what the
others say of the cells, on the files, in `sys_kill` (`FoundersLeft`).

`ListSound` and `SpeciesKept` are proved together, for environments into which cells are
placed at any moment.  A child is made of the instructions of its parent and of the list
(`ChildOfCell`), so it brings in nothing that is neither in the list nor in `brought`;
what a placed cell brings is in `brought`, also when the list is rebuilt while it comes;
and the list stays sound because nothing that exists disappears: a bonded compound is an
instruction of the DNA it bonded to, and `death` releases each instruction of the DNA
(`RemainsPositive`). `StepKeeps` proves both for each action from `IInv /\ ListSound`.

For `BodyNearDna`, each mutation is shown to be one edit of the protein in terms
of `RemoveAt` and `ReplaceAt` (`NewDnaEdit`, from one lemma for each
mutation in `DnaProofs`); growth and copying leave it alone (`SameProtein`).

The books of matter are kept by counting pieces.  `HeldSplit` and `OwnType` take the
pieces of one cell out of `Held`, `HeldSwap` and `StockSwap` say that what changes in
`Amount` is what changes in that cell and in `code/`, and `NewDnaCount` that a mutation
adds, removes or exchanges one codon (`OneChange`).  A placed cell adds what it holds, a
draw from an empty list takes at most one compound.  No strengthening of `TypeOK` is
needed.  `NamesLeft` counts too: each living cell has a first codon, the dividing one a
compound besides, and a colony therefore has more pieces than cells.  The hypothesis of
`NameTheorem` is needed: without a protected tail a cell may lose its last codon, and
cells of no codon have a name and no matter.

*SysEnv.*  Assumptions: `SysEnvAssumption` (as for `Ecosystem`, and the verdicts of the
evaluator are numbers), `AbsentAssumption`; any genome, population, cells to be placed,
schedule of the user, number of kills.

* `ShapeTheorem`: the types, and what memory and files have to do with each other in
  every phase of a turn (`Shape`): the struct belongs to the cell whose turn it is,
  its file is torn exactly while it is written, and the file of a child waits under
  a name of its own.
* `TornTheorem`, `BlockTheorem`, `TodoTheorem`, `ListTheorem`, `PaceTheorem`: `TornFiles`,
  `TornBlocks`, `TodoExists`, `ListReady`, `GrowthPace`.  From the last it follows that two
  divisions of a cell are at least as many cycles apart as it has codons: a division
  leaves no bond, each turn saved adds at most one, and the next needs all of them.
* `FounderTheorem`: `Spec => []FoundersLeft`.
* `ImplementsTheorem`: `Spec /\ [](kills = 0) => Implements`, the refinement of `Ecosystem`.
* `DataTheorem`: `Spec => DataBalances`, an action property.

`Shape` is inductive, and the rest stands on it.  `TornBlocks` needs `Blocked`: with a torn
file left over, the process is in its first cycle and before the list of codes is
built.  `ListReady` needs `Known`: from then on, every instruction of every file, of the cell in
memory and of its child is in the list or was brought by a placed cell since `cell/` was
read.  `GrowthPace` needs `Pace`, which says for each
phase of the turn whether the cell is one compound ahead of its cycles.  `FoundersLeft` follows
from `Pace` and `Lineage` (tail and protein of every cell, in a file or in memory), through any
number of kills: a kill may lose or double matter, but the cells it leaves are cells
that `Init` allows, so to start from what an earlier run left is no special case.
For the refinement,
`Faithful` says at which points the file and the struct agree (there the program may
abort), and that a cell that is dividing has all its compounds; `InitView` and one
lemma per group of actions (`MainView`, `MetabolismView`, `GrowthView`, `LifeView`, `UserView`)
map a step to a step of `Ecosystem` or to a stutter.  The hypothesis `[](kills = 0)` is
the run's `MaxKills = 0`: a kill between the bond and the save loses a compound.
`DataBalances` counts the arguments one by one (`Tokens`), with `ArgsKept` for how many
the struct is ahead of its file.  Its one exception, a turn that aborts between the taking
of one of several arguments and the save, is the code's: at a half-copied compound, or at
a division by zero.

What is proved about `Ecosystem` is by `ImplementsTheorem` also true of the files and
memory of a `dsy-sysenv` that nobody kills, for finitely many instructions: species,
matter, and tails, lives and proteins, which `FounderTheorem` states of the files themselves.
This conclusion is drawn here and not by the prover, which does not take a theorem
through an `INSTANCE`.

*Compounds.*  Assumptions: `CompoundsAssumption`, `NamesApart`; any finite set of names,
any number of kills, copies and files.

* `TypeTheorem`, `FreshTheorem`, `BlocksTheorem`, `BrokenTheorem`: `TypeOK`, `Fresh`,
  `BrokenBlocks`, `BrokenFiles`.
* `ImplementsTheorem`: `Spec => Implements`, the refinement of `Store`.

The inductive invariant adds to `TypeOK` and `Fresh` that the listing is empty
except between `Scan` and `Load`, without which a listed file could vanish.
`Simulation` has one step per action; each rests on `OneMore`, `OneLess` or
`SameBag`: what a change of one file does to the cardinality of the files of each compound.
`BrokenFiles` counts: `LeftStep` bounds what one step adds to the broken files that
nobody is writing.

*CellFile.*  Assumption: `CellFileAssumption`; any cells, part sizes and buffer.

* `CutTheorem`: the sizes in the attributes cut the bytes of a whole file back into the
  cell that was saved, `LoadOf(Bytes(c)) = c`; its lemmas are the arithmetic of the
  layout.
* `LoadTheorem`: `Spec => []LoadSound`; `SavedTheorem`: `Spec => []SavedWhole`.

*AllCodes.*  Assumption: `AllCodesAssumption` (finitely many byte patterns); any length of
the array, more or fewer patterns than entries.

* `FitsTheorem`, `GenuineTheorem`, `CompleteTheorem`, `OnceTheorem`.

`Fits` is not inductive: that an overrun means too many instructions follows from `Once`
and `Genuine` by counting (`ListFull`): the entries of a full array have different byte
patterns, all of existing instructions, and the one to be added is another.  `Complete`
needs what the loops still have to do (`Covers`) and that everything listed existed when
the loop began (`Sources`).

*CellTools.*  Assumptions: `CellToolsAssumption`, `AbsentAssumption`; any life, number of
arguments, width of the byte and order of the three programs.

* `TornTheorem`, `TurnsTheorem`: `TornIsBusy`, `EveryTurnCounts`.
* `AbortTheorem`: `Spec => AbortByEdit`, an action property.

The inductive invariant adds to the types that a careful user lets one program at a
time have the cell (`OneAtATime`), that the file is there during a turn (`Present`), and
by how much each copy of the cell has aged (`Aged`: the file is a turn behind between
`Age` and the save).  `AbortByEdit` needs `ArgsOpen` besides: outside of the evaluator a
copy of the cell has all of its arguments only if an edit gave them (`over`), and what
`dsy-exec-cell` is about to write has none.

*Lifecycle.*  Assumption: `LifecycleAssumption`; any sets of sessions and cells.

* `PageTheorem`: `Spec => []PageFinal`.

The page is final because of `OneSession` (of a session that is alone, only the last one
goes on, and its script waits for `dsy-sysenv`), `LoggersEnd` (no other logger and no
command of one is left, and the periodic logger has been killed before the last call)
and `LastLogged` (how far that call has come).  The three say nothing of a session that is
not `alone`: there an older copy may be published last.

*Evaluation.*  Assumptions: `DnaAssumption`, `EvaluationAssumption` (environment and
founders are made of the instructions of `samples/`); any founders, length of the
DNA, number of generations and mutations, and any of the evaluators.

* `LineTheorem`: `Spec => []LineInv`.
* `EntryTheorem`, `MeantTheorem`: `EntryIsCode`, `MeantSyscalls`.
* `HundredTheorem`: `Spec => []HundredIsGoal`.
* `HundredAnchoredTheorem`: if every founder is `Anchored`, `Spec => []NeverRejected`: no
  evaluator gives more than 100.
* `EndsTheorem`: if `FounderTails`, `Spec => []EndsByTail`.

`LineInv` is inductive: the executable is that of the protein of the living
cell, in the layout of `dsy-cell2elf` or in that of the exercise, and what is rated is
what running it showed.  The rest is about a single program.  `EntryIsCode` needs the
arithmetic of the layout (`Layout`, `Addresses`).  `MeantSyscalls` needs that whatever
precedes a `syscall` in a listing that passes the guard set `rax`: the listing is
followed line by line next to the run (`Loop`, `Joins`).  `HundredIsGoal` is
arithmetic of the evaluators once the bytes of the protein, its length and its output
are bounded.

A cell without codons has an executable without code, and several evaluators
give it 200, which ends the process (`sysenv.c:275`); `HundredIsGoal` allows that and
nothing else above 100.  A codon with
`mod_dis` and `rem_dis` (`Anchored`) can be neither changed nor removed, so a line
that has one keeps it: every sample but the hello cell.  `FlagSets` is what the proof
follows through the generations: `NewDnaFlags` says that no mutation takes the last
codon with the flag away.  `EndsByTail` follows the whole protected block the same way
(`TailOfCell`), and needs that the block, run from any state of the registers, exits.
`FounderTails` allows a founder without such a codon, of which `EndsByTail` says
nothing.  All the cells of the run `eval` satisfy it, and all but the hello cells
are `Anchored`.

*Dump.*  Assumption: `DumpAssumption`; any set of DNAs, any length of a DNA.

* `TextTheorem`: `DumpSpec => []WholeText`.
* `JsonTheorem`: if `MaxCodons <= 96`, `DumpSpec => []Fits`.

`TextInv` says that at each byte the buffer holds the text so far and one NUL, which
the next character takes; that the text never leaves the buffer then follows from the
lengths.  The inductive invariant of the other writer is the sum of the widest
values: 391 characters of attributes, 378 for each codon, 20 between, 5 for each byte
of the protein, 7 at the end.  It is 40586 for 96 codons of eight bytes, with the
terminating NUL below 40960, and more than that for 97.

*Induction.*  What these proofs say of a program or a text of any length is proved by
the least number: a set of numbers that is not empty has a least one
(`LeastElement`, from the well-founded order of the naturals), so a set that has 0 and
with each number the next has all of them (`Induction`), and a function that is
computed in steps keeps what each step keeps (`LoopInduction`).  The set takes the place
of the predicate, which the provers could not instantiate.

*Only model-checked*: the five liveness properties `StopObeyed`, `Mortal`, `UpdateServed`,
`PutEnds` and `AllQuiet`.  Liveness under fairness, through `ENABLED`, is out of
reach of the provers.  Every other property of a passing run is stated by a theorem.

## 5. Not modelled

* `dsy-cell2pbm`, `cell_dump`, `comp_dump` and `dsy-dump-cell`'s printing: they print one
  loaded cell to a stream and change nothing.
* What the making of a page does: `bin/cell-log-html:36` runs the executable of every cell of
  the log under `strace`, without the guard of the evaluators.  Whatever system call a
  mutant makes is made there; `MeantSyscalls` is about the evaluators only.
* `idle_usec`: a pause, without effect on the state.
* The cells of `create-img*` and `dsy-eval-img`, which rate the protein as an image; the
  incr cell is only a founder of `SysEnv` and `CellTools`, `dsy-eval-incr` only the
  caller of `dsy-exec-cell`.
* The native call of a cell's code by `dsy-exec-cell`: its result is arbitrary.  Jumps do
  not occur among the instructions of the samples.
* Fields of the ELF headers that do not place or start the program.
* The exercises but for `create-elf-header`: shell commands on the same tools.

What the models leave open or show without a property of its own:

* A cell of no codon ends the process when it divides (`DivideByZero`), and so does a
  half-copied compound that is picked (`TakeCodeFails`).  An argument that the cell took in
  that turn is lost when it still lacks another, since it left `data/` and the cell is not
  saved.  `DataBalances` allows these losses and no other.
* Two writers of one cell file may leave a mixture of their later bytes, DNA and protein;
  `CellTools` has the first bytes only.
* With more than 4096 different instructions the list of all codes is written behind its
  array (`Fits` of `AllCodes`); what the process does after that is open.
* How much matter a kill may lose or double.  A compound leaves `code/` long before the
  cell that bonded it is saved, and the remains of a dead cell are put before its
  file is removed.
* `system()` waits for the evaluator without a timeout: a program that loops stops the
  environment.  The fairness assumes that it does not.
* A user who removes `running` between the touch of `bin/run` and `sysenv_init` has asked in
  vain, since `sysenv_init` makes the file again (`sysenv.c:137`); `Lifecycle` has the step.
* `bin/run:38`: `kill` fails when the logger has ended by itself, and `set -e` then skips
  the last log.
* Nothing keeps a DNA below 97 codons, where the JSON may overflow its buffer
  (`cell.c:563`): `Fits` with `MaxCodons` = 97.
* No codon of the hello cell is protected against both change and removal, so its line
  may lose all codons; several evaluators then give 200, which ends the process
  (`sysenv.c:275`).  `HundredIsGoal` says so, and the run `eval` reaches it.
* `dsy-eval-hello` gives a long program 90 for printing nothing and less once it prints a
  correct H; its guard gives 0 to a write whose number was set by a pair of
  instructions it does not know.
