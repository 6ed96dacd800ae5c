----------------------------- MODULE Lifecycle -----------------------------
(***************************************************************************)
(* The processes around the file running: the script bin/run, dsy-sysenv   *)
(* (its main loop only), and cell-fitness-logger, which copies cell/ and   *)
(* publishes pages of it.  A session is one call of bin/run by the user;   *)
(* it starts a periodic logger, runs dsy-sysenv to its end, kills the      *)
(* logger and calls it once more with --oneshot.                           *)
(***************************************************************************)
EXTENDS Naturals

CONSTANTS
  MaxSessions,  \* bound of the model: the calls of bin/run
  Name          \* the names a cell file can have

ASSUME LifecycleAssumption == MaxSessions \in Nat

Session == 1..MaxSessions

VARIABLES
  running,  \* whether the file running exists
  cells,    \* the names of the cells in cell/
  shell,    \* the next command of each bin/run
  env,      \* the next call of each dsy-sysenv
  logger,   \* the next command of each cell-fitness-logger
  todo,     \* the cells that its cp has listed and not yet copied
  copied,   \* the cells it has a page for
  page,     \* log/current_html: the cells it shows
  last,     \* the session started last, 0 before the first
  alone     \* whether it has had the pages for itself: see Touch, KillLogger, ListMerged

logs == <<logger, todo, copied, page>>
session == <<last, alone>>
vars == <<running, cells, shell, env, logs, session>>

Periodic(s) == <<s, "periodic">>
Oneshot(s) == <<s, "oneshot">>
Logger == Session \X {"periodic", "oneshot"}

\* A logger that is killed in the middle of a command leaves the command.
CommandLeft(l) == logger[l] \in {"rm left", "cp left"}

EnvAlive(s) == env[s] \in {"init", "check", "cycle", "remove"}
LoggerAlive(l) == logger[l] \in {"loop", "list", "copy", "clear", "publish"}
ShellAlive(s) == shell[s] \notin {"none", "done", "error"}

Init ==
  /\ running = FALSE
  /\ cells \in SUBSET Name \ {{}}
  /\ shell = [s \in Session |-> "none"]
  /\ env = [s \in Session |-> "none"]
  /\ logger = [l \in Logger |-> "none"]
  /\ todo = [l \in Logger |-> {}]
  /\ copied = [l \in Logger |-> {}]
  /\ page = {}
  /\ last = 0 /\ alone = TRUE

-----------------------------------------------------------------------------
(* bin/run *)

Goto(s, from, to) == shell[s] = from /\ shell' = [shell EXCEPT ![s] = to]

\* The user calls bin/run when nothing runs, or at once after removing the file
\* running, whether or not the process has ended by then.  Alone is the session
\* that finds nothing of an earlier one left.
Touch(s) ==
  /\ Goto(s, "none", "logger") /\ s = last + 1
  /\ \/ \A t \in Session : ~EnvAlive(t) /\ ~ShellAlive(t)
     \/ /\ ~running
        /\ \A t \in Session : shell[t] \notin {"logger", "sysenv"} /\ env[t] # "init"
  /\ running' = TRUE
  /\ last' = s
  /\ alone' = (/\ \A t \in Session : ~EnvAlive(t) /\ ~ShellAlive(t)
               /\ \A l \in Logger : ~LoggerAlive(l) /\ ~CommandLeft(l))
  /\ UNCHANGED <<cells, env, logs>>

StartLogger(s) ==
  /\ Goto(s, "logger", "sysenv")
  /\ logger' = [logger EXCEPT ![Periodic(s)] = "loop"]
  /\ UNCHANGED <<running, cells, env, todo, copied, page, session>>

StartSysenv(s) ==
  /\ Goto(s, "sysenv", "wait")
  /\ env' = [env EXCEPT ![s] = "init"]
  /\ UNCHANGED <<running, cells, logs, session>>

\* set -e: a dsy-sysenv that fails ends the script; its logger stays.
SysenvFailed(s) ==
  /\ Goto(s, "wait", "error") /\ env[s] = "failed"
  /\ UNCHANGED <<running, cells, env, logs, session>>

\* Mutant: the last lines do not kill the logger.
KillLoggerNot(s) ==
  /\ Goto(s, "wait", "oneshot") /\ env[s] = "off"
  /\ logger' = [logger EXCEPT ![Oneshot(s)] = "list"]
  /\ UNCHANGED <<running, cells, env, todo, copied, page, session>>

\* kill ends the bash of a script at once, not the command it waits for: an rm
\* or a cp on log/current_html goes on.
Killed(l) ==
  {"failed"} \cup (IF logger[l] = "clear" THEN {"rm left"} ELSE {})
             \cup (IF logger[l] = "publish" THEN {"cp left"} ELSE {})

\* What a logger that ends had copied matters no more, unless a cp is left.
Forget(l, how) ==
  /\ todo' = [todo EXCEPT ![l] = {}]
  /\ copied' = [copied EXCEPT ![l] = IF how = "cp left" THEN @ ELSE {}]

KillLogger(s) ==
  /\ Goto(s, "wait", "oneshot") /\ env[s] = "off"
  /\ LoggerAlive(Periodic(s))
  /\ \E how \in Killed(Periodic(s)) :
        /\ logger' = [logger EXCEPT ![Periodic(s)] = how, ![Oneshot(s)] = "list"]
        /\ Forget(Periodic(s), how)
        /\ alone' = (alone /\ how = "failed")
  /\ UNCHANGED <<running, cells, env, page, last>>

\* set -e: a kill that finds no process ends the script before the last log.
KillFails(s) ==
  /\ Goto(s, "wait", "error") /\ env[s] = "off"
  /\ ~LoggerAlive(Periodic(s))
  /\ UNCHANGED <<running, cells, env, logs, session>>

OneshotEnds(s) ==
  /\ Goto(s, "oneshot", IF logger[Oneshot(s)] = "ended" THEN "done" ELSE "error")
  /\ ~LoggerAlive(Oneshot(s))
  /\ UNCHANGED <<running, cells, env, logs, session>>

\* Ctrl-C while the script waits: dsy-sysenv ends, the trap kills the logger.
Interrupt(s) ==
  /\ Goto(s, "wait", "trap") /\ EnvAlive(s)
  /\ env' = [env EXCEPT ![s] = "failed"]
  /\ UNCHANGED <<running, cells, logs, session>>

Trap(s) ==
  /\ Goto(s, "trap", "error")
  /\ IF LoggerAlive(Periodic(s))
     THEN \E how \in Killed(Periodic(s)) :
            logger' = [logger EXCEPT ![Periodic(s)] = how] /\ Forget(Periodic(s), how)
     ELSE UNCHANGED <<logger, todo, copied>>
  /\ UNCHANGED <<running, cells, env, page, session>>

Shell(s) ==
  \/ StartLogger(s) \/ StartSysenv(s) \/ SysenvFailed(s)
  \/ KillLogger(s) \/ KillFails(s) \/ OneshotEnds(s) \/ Trap(s)

-----------------------------------------------------------------------------
(* dsy-sysenv *)

EnvGoto(s, from, to) == env[s] = from /\ env' = [env EXCEPT ![s] = to]

\* fopen("a+") makes the file running if it is missing.
InitEnv(s) ==
  /\ EnvGoto(s, "init", "check")
  /\ running' = TRUE
  /\ UNCHANGED <<cells, shell, logs, session>>

CheckRunning(s) ==
  /\ EnvGoto(s, "check",
       IF ~running THEN "off" ELSE IF cells = {} THEN "failed" ELSE "cycle")
  /\ UNCHANGED <<running, cells, shell, logs, session>>

\* In a cycle cells are born and die, and an assertion may fail.
Birth(s) ==
  /\ env[s] = "cycle"
  /\ \E n \in Name \ cells : cells' = cells \cup {n}
  /\ UNCHANGED <<running, shell, env, logs, session>>

Death(s) ==
  /\ env[s] = "cycle"
  /\ \E n \in cells : cells' = cells \ {n}
  /\ UNCHANGED <<running, shell, env, logs, session>>

FailCycle(s) ==
  /\ EnvGoto(s, "cycle", "failed")
  /\ UNCHANGED <<running, cells, shell, logs, session>>

EndCycle(s) ==
  /\ EnvGoto(s, "cycle", "check")
  /\ UNCHANGED <<running, cells, shell, logs, session>>

\* sysenv_exit, when a cell is perfect: look for the file, remove it.
ExitCheck(s) ==
  /\ EnvGoto(s, "cycle", "remove") /\ running
  /\ UNCHANGED <<running, cells, shell, logs, session>>

ExitRemove(s) ==
  /\ EnvGoto(s, "remove", IF running THEN "cycle" ELSE "failed")
  /\ running' = FALSE
  /\ UNCHANGED <<cells, shell, logs, session>>

Env(s) ==
  \/ InitEnv(s) \/ CheckRunning(s) \/ FailCycle(s) \/ EndCycle(s)
  \/ ExitCheck(s) \/ ExitRemove(s)

-----------------------------------------------------------------------------
(* bin/cell-fitness-logger *)

LogGoto(l, from, to) == logger[l] = from /\ logger' = [logger EXCEPT ![l] = to]

\* Mutant: the loop goes on without the file running.
LoopForever(l) ==
  /\ LogGoto(l, "loop", "list")
  /\ UNCHANGED <<running, cells, shell, env, todo, copied, page, session>>

\* while [ -f running ]; with --oneshot the loop runs once in any case.
Loop(l) ==
  /\ LogGoto(l, "loop", IF running THEN "list" ELSE "ended")
  /\ UNCHANGED <<running, cells, shell, env, todo, copied, page, session>>

\* cp -r lists the directory, then copies one file after the other.
List(l) ==
  /\ LogGoto(l, "list", "copy")
  /\ todo' = [todo EXCEPT ![l] = cells]
  /\ copied' = [copied EXCEPT ![l] = {}]
  /\ UNCHANGED <<running, cells, shell, env, page, session>>

\* The directory of a log is named by the second: one that another log has made
\* in the same second holds pages already, of cells of that second.
ListMerged(l) ==
  /\ LogGoto(l, "list", "copy")
  /\ \E m \in Logger \ {l} : logger[m] # "none"
  /\ todo' = [todo EXCEPT ![l] = cells]
  /\ \E pages \in SUBSET Name : copied' = [copied EXCEPT ![l] = pages]
  /\ alone' = (alone /\ l # Oneshot(last))
  /\ UNCHANGED <<running, cells, shell, env, page, last>>

\* A file in the middle of a save is copied as it is; dsy-dump-cell refuses it
\* and there is no page.
Copy(l) ==
  /\ logger[l] = "copy"
  /\ \E n \in todo[l] \cap cells :
       /\ todo' = [todo EXCEPT ![l] = @ \ {n}]
       /\ \/ copied' = [copied EXCEPT ![l] = @ \cup {n}]
          \/ (\E s \in Session : env[s] = "cycle") /\ UNCHANGED copied
  /\ UNCHANGED <<running, cells, shell, env, logger, page, session>>

\* A listed file is gone: cp fails, and set -e ends the script.
CopyFails(l) ==
  /\ LogGoto(l, "copy", "failed") /\ ~(todo[l] \subseteq cells)
  /\ Forget(l, "failed")
  /\ UNCHANGED <<running, cells, shell, env, page, session>>

MakePages(l) ==
  /\ LogGoto(l, "copy", "clear") /\ todo[l] = {}
  /\ UNCHANGED <<running, cells, shell, env, todo, copied, page, session>>

Clear(l) ==
  /\ LogGoto(l, "clear", "publish")
  /\ page' = {}
  /\ UNCHANGED <<running, cells, shell, env, todo, copied, session>>

\* What sleep adds is time: the logger looks for the file running later.
Publish(l) ==
  /\ LogGoto(l, "publish", IF l[2] = "oneshot" THEN "ended" ELSE "loop")
  /\ page' = page \cup copied[l]
  /\ copied' = [copied EXCEPT ![l] = {}]
  /\ UNCHANGED <<running, cells, shell, env, todo, session>>

\* The command that a killed logger left removes the pages it was given, or
\* copies its own, and ends: some of them before others write, some after.
CommandEnds(l) ==
  /\ \/ LogGoto(l, "rm left", "failed") /\ page' \in SUBSET page
     \/ LogGoto(l, "cp left", "failed") /\ page' \in {page \cup d : d \in SUBSET copied[l]}
  /\ Forget(l, "failed")
  /\ UNCHANGED <<running, cells, shell, env, session>>

Log(l) ==
  \/ Loop(l) \/ List(l) \/ ListMerged(l) \/ Copy(l) \/ CopyFails(l) \/ MakePages(l)
  \/ Clear(l) \/ Publish(l) \/ CommandEnds(l)

-----------------------------------------------------------------------------
(* The user *)

\* rm running
Stop ==
  /\ running
  /\ running' = FALSE
  /\ UNCHANGED <<cells, shell, env, logs, session>>

\* A logger that is left, or any other, may be killed at any time.
UserKill(l) ==
  /\ LoggerAlive(l)
  /\ \E how \in Killed(l) : logger' = [logger EXCEPT ![l] = how] /\ Forget(l, how)
  /\ UNCHANGED <<running, cells, shell, env, page, session>>

-----------------------------------------------------------------------------

Next ==
  \/ \E s \in Session :
       Touch(s) \/ Shell(s) \/ Interrupt(s) \/ Env(s) \/ Birth(s) \/ Death(s)
  \/ \E l \in Logger : Log(l) \/ UserKill(l)
  \/ Stop

Spec == Init /\ [][Next]_vars

\* Every process that can go on does, the script or the dsy-sysenv it waits for;
\* nothing is assumed of the user.
Live ==
  /\ Spec
  /\ \A s \in Session : WF_vars(Shell(s) \/ Env(s))
  /\ \A l \in Logger : WF_vars(Log(l))

-----------------------------------------------------------------------------

(***************************************************************************)
(* After a session that ended without an error, log/current_html shows     *)
(* exactly the cells that are left: whatever dsy-sysenv and the two        *)
(* loggers of the session did at the same time, no older copy is published *)
(* afterwards and nothing clears the page (run:36-39,                      *)
(* cell-fitness-logger:49-50).  That needs a session that has the pages    *)
(* for itself: nothing of an earlier session goes on, the kill of run:38   *)
(* meets no rm or cp of the logger, and no other log was made in the       *)
(* second of the last one.                                                 *)
(***************************************************************************)
PageFinal == last # 0 /\ shell[last] = "done" /\ alone => page = cells

(***************************************************************************)
(* When the file running stays away, every process ends in the end:        *)
(* dsy-sysenv, the script, every logger, one that an earlier failure left  *)
(* included, and the commands of killed loggers; also when sessions were   *)
(* started so soon that several dsy-sysenv share the directories           *)
(* (README.md:97, main.c:52, sysenv.c:293, cell-fitness-logger:27).        *)
(***************************************************************************)
AllQuiet ==
  <>[](~running) =>
    <>[](/\ \A s \in Session : ~EnvAlive(s) /\ ~ShellAlive(s)
         /\ \A l \in Logger : ~LoggerAlive(l) /\ ~CommandLeft(l))
============================================================================
