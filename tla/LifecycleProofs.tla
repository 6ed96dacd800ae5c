-------------------------- MODULE LifecycleProofs --------------------------
(***************************************************************************)
(* The page that a session leaves, for any number of sessions and cells:   *)
(* why the copy that cell-fitness-logger --oneshot takes is of the cells   *)
(* that are left, and why nothing overwrites it.                           *)
(***************************************************************************)
EXTENDS Lifecycle, TLAPS

USE LifecycleAssumption

TypeOK ==
  /\ cells \subseteq Name /\ page \subseteq Name
  /\ DOMAIN shell = Session /\ DOMAIN env = Session
  /\ DOMAIN logger = Logger
  /\ todo \in [Logger -> SUBSET Name] /\ copied \in [Logger -> SUBSET Name]
  /\ last \in 0..MaxSessions

\* Nothing but the session that is alone goes on, and its script waits for
\* dsy-sysenv as long as that runs.
OneSession ==
  alone =>
    /\ \A s \in Session : ShellAlive(s) => s = last
    /\ \A s \in Session : EnvAlive(s) => s = last /\ shell[s] = "wait"

\* A logger or a command of it that may still write the page.
Busy(l) == LoggerAlive(l) \/ CommandLeft(l)

\* Which of them may be left: only those of the session that is alone, and none
\* but the last call after it has killed the periodic one.
LoggersEnd ==
  /\ \A s \in Session : logger[Oneshot(s)] # "loop"
  /\ alone =>
       /\ \A l \in Logger : Busy(l) => l[1] = last
       /\ last # 0 /\ shell[last] \in {"oneshot", "done"} => ~Busy(Periodic(last))
       /\ last # 0 /\ shell[last] = "done" => ~Busy(Oneshot(last))

(***************************************************************************)
(* How far the last call has come: what it has copied and has yet to copy  *)
(* are the cells that are left, and the page is one of them in the end.    *)
(***************************************************************************)
LastLog(s) ==
  /\ shell[s] = "oneshot" =>
       /\ logger[Oneshot(s)] = "copy" => copied[Oneshot(s)] \cup todo[Oneshot(s)] = cells
       /\ logger[Oneshot(s)] \in {"clear", "publish"} => copied[Oneshot(s)] = cells
       /\ logger[Oneshot(s)] = "publish" => page = {}
       /\ logger[Oneshot(s)] = "ended" => page = cells
  /\ shell[s] = "done" => page = cells

LastLogged == alone /\ last # 0 => LastLog(last)

IInv == TypeOK /\ OneSession /\ LoggersEnd /\ LastLogged

-----------------------------------------------------------------------------
(* Loggers *)

LEMMA Loggers ==
  /\ \A s \in Session : Periodic(s) \in Logger /\ Oneshot(s) \in Logger
  /\ \A s, t \in Session : Periodic(s) # Oneshot(t)
  /\ \A s, t \in Session : Periodic(s) = Periodic(t) => s = t
  /\ \A s, t \in Session : Oneshot(s) = Oneshot(t) => s = t
  /\ \A s \in Session : Periodic(s)[1] = s /\ Oneshot(s)[1] = s
  /\ \A s \in Session : Periodic(s)[2] = "periodic" /\ Oneshot(s)[2] = "oneshot"
  /\ \A l \in Logger : l[1] \in Session /\ (l = Periodic(l[1]) \/ l = Oneshot(l[1]))
BY DEF Periodic, Oneshot, Logger

LEMMA LastSession == TypeOK /\ last # 0 => last \in Session
BY LifecycleAssumption DEF TypeOK, Session

\* A command of a logger changes no other logger, and only one that is busy.
LEMMA LogStep ==
  ASSUME TypeOK, NEW l \in Logger, Log(l) \/ UserKill(l)
  PROVE  /\ Busy(l)
         /\ \A m \in Logger \ {l} :
              logger'[m] = logger[m] /\ todo'[m] = todo[m] /\ copied'[m] = copied[m]
         /\ DOMAIN logger' = Logger
         /\ todo' \in [Logger -> SUBSET Name] /\ copied' \in [Logger -> SUBSET Name]
         /\ page' \subseteq Name
         /\ alone' => alone
         /\ UNCHANGED <<running, cells, shell, env, last>>
<1> USE DEF TypeOK, Busy, LoggerAlive, CommandLeft, LogGoto, session
<1>1. CASE Loop(l) BY <1>1 DEF Loop
<1>2. CASE List(l) BY <1>2 DEF List
<1>3. CASE Copy(l) BY <1>3 DEF Copy
<1>4. CASE CopyFails(l) BY <1>4 DEF CopyFails, Forget
<1>5. CASE MakePages(l) BY <1>5 DEF MakePages
<1>6. CASE Clear(l) BY <1>6 DEF Clear
<1>7. CASE Publish(l) BY <1>7 DEF Publish
<1>8. CASE ListMerged(l) BY <1>8 DEF ListMerged
<1>9. CASE UserKill(l) BY <1>9 DEF UserKill, Forget
<1>10. CASE CommandEnds(l) BY <1>10 DEF CommandEnds, Forget
<1> QED
  BY <1>1, <1>2, <1>3, <1>4, <1>5, <1>6, <1>7, <1>8, <1>9, <1>10 DEF Log

LEMMA InitIInv == Init => IInv
BY Loggers DEF Init, IInv, TypeOK, OneSession, LoggersEnd, LastLogged, ShellAlive, EnvAlive,
   Busy, LoggerAlive, CommandLeft

\* The last call copies the cells that are left, while nobody changes them.
LEMMA LastCall ==
  ASSUME IInv, alone', last \in Session, last # 0, shell[last] = "oneshot",
         NEW l \in Logger, l = Oneshot(last), Log(l) \/ UserKill(l)
  PROVE  LastLog(last)'
<1> USE DEF LastLog, LogGoto, session, IInv, TypeOK, LastLogged, LoggersEnd
<1>0. shell' = shell /\ cells' = cells /\ last' = last /\ alone /\ LastLog(last)
  BY LogStep
<1>1. CASE Loop(l) BY <1>0, <1>1 DEF Loop
<1>2. CASE List(l) BY <1>0, <1>2 DEF List
<1>3. CASE Copy(l)
  <2>1. \A s \in Session : env[s] # "cycle"
    BY <1>0 DEF OneSession, EnvAlive, ShellAlive
  <2> QED
    BY <1>0, <1>3, <2>1 DEF Copy
<1>4. CASE CopyFails(l) BY <1>0, <1>4 DEF CopyFails
<1>5. CASE MakePages(l) BY <1>0, <1>5 DEF MakePages
<1>6. CASE Clear(l) BY <1>0, <1>6 DEF Clear
<1>7. CASE Publish(l) BY <1>0, <1>7, Loggers DEF Publish
<1>8. CASE ListMerged(l) BY <1>0, <1>8 DEF ListMerged
<1>9. CASE UserKill(l)
  <2>1. logger'[l] \in {"failed", "rm left", "cp left"}
    BY <1>9 DEF UserKill, Killed
  <2> QED
    BY <1>0, <2>1
<1>10. CASE CommandEnds(l) BY <1>0, <1>10 DEF CommandEnds
<1> QED
  BY <1>1, <1>2, <1>3, <1>4, <1>5, <1>6, <1>7, <1>8, <1>9, <1>10 DEF Log

LEMMA LogIInv ==
  ASSUME IInv, NEW l \in Logger, Log(l) \/ UserKill(l)
  PROVE  IInv'
<1> USE DEF IInv
<1>0. /\ Busy(l)
      /\ \A m \in Logger \ {l} : logger'[m] = logger[m]
      /\ alone' => alone
      /\ UNCHANGED <<cells, shell, env, last>>
  BY LogStep
<1>1. TypeOK'
  BY LogStep DEF TypeOK
<1>2. OneSession'
  BY <1>0 DEF OneSession, ShellAlive, EnvAlive
<1>3. LoggersEnd'
  <2>1. \A m \in Logger : Busy(m)' => Busy(m)
    BY <1>0 DEF Busy, LoggerAlive, CommandLeft
  <2>2. \A s \in Session : l = Oneshot(s) => logger'[l] # "loop"
    <3> SUFFICES ASSUME NEW s \in Session, l = Oneshot(s)
                 PROVE  logger'[l] # "loop"
      OBVIOUS
    <3> QED
      BY <1>0, Loggers DEF LoggersEnd, TypeOK, Log, LogGoto, Loop, List, ListMerged, Copy,
         CopyFails, MakePages, Clear, Publish, CommandEnds, UserKill, Killed
  <2> HIDE DEF IInv
  <2>3. \A s \in Session : logger'[Oneshot(s)] # "loop"
    BY <1>0, <2>2, Loggers DEF IInv, LoggersEnd
  <2> QED
    BY <1>0, <2>1, <2>3, Loggers, LastSession DEF IInv, LoggersEnd
<1>4. LastLogged'
  <2> SUFFICES ASSUME alone', last # 0 PROVE LastLog(last)'
    BY <1>0 DEF LastLogged
  <2>1. last \in Session /\ alone /\ l[1] = last
    BY <1>0, LastSession DEF LoggersEnd
  <2>2. CASE shell[last] = "oneshot"
    <3>1. l = Oneshot(last)
      BY <1>0, <2>1, <2>2, Loggers DEF LoggersEnd
    <3> QED
      BY <2>1, <2>2, <3>1, LastCall
  <2>3. CASE shell[last] = "done"
    BY <1>0, <2>1, <2>3, Loggers DEF LoggersEnd
  <2>4. CASE shell[last] \notin {"oneshot", "done"}
    BY <1>0, <2>4 DEF LastLog
  <2> QED
    BY <2>2, <2>3, <2>4
<1> QED
  BY <1>1, <1>2, <1>3, <1>4

-----------------------------------------------------------------------------
(* dsy-sysenv and the user *)

\* What dsy-sysenv does, and what becomes of the cells, concerns only a session
\* whose script waits.
LEMMA EnvIInv ==
  ASSUME IInv, NEW s \in Session, Env(s) \/ Birth(s) \/ Death(s)
  PROVE  IInv'
<1> USE DEF IInv, EnvGoto
<1>1. /\ EnvAlive(s) /\ cells' \subseteq Name
      /\ DOMAIN env' = Session /\ \A t \in Session \ {s} : env'[t] = env[t]
      /\ UNCHANGED <<shell, logs, session>>
  BY DEF TypeOK, EnvAlive, Env, InitEnv, CheckRunning, FailCycle, EndCycle, ExitCheck,
     ExitRemove, Birth, Death
<1>2. alone => shell[s] = "wait" /\ s = last
  BY <1>1 DEF OneSession
<1>3. TypeOK'
  BY <1>1 DEF TypeOK, logs, session
<1>4. OneSession'
  BY <1>1, <1>2 DEF OneSession, ShellAlive, EnvAlive, session
<1>5. LoggersEnd'
  BY <1>1 DEF LoggersEnd, Busy, LoggerAlive, CommandLeft, logs, session
<1>6. LastLogged'
  BY <1>1, <1>2 DEF LastLogged, LastLog, session
<1> QED
  BY <1>3, <1>4, <1>5, <1>6

\* A session that is alone starts when nothing else goes on.
LEMMA TouchIInv ==
  ASSUME IInv, NEW s \in Session, Touch(s)
  PROVE  IInv'
<1> USE DEF IInv, Touch, Goto, logs
<1>1. TypeOK'
  BY LifecycleAssumption DEF TypeOK, Session
<1>2. shell'[s] = "logger" /\ \A t \in Session \ {s} : shell'[t] = shell[t]
  BY DEF TypeOK
<1>3. OneSession'
  BY <1>2 DEF OneSession, ShellAlive, EnvAlive
<1>4. LoggersEnd'
  BY <1>2 DEF LoggersEnd, Busy, LoggerAlive, CommandLeft
<1>5. LastLogged'
  BY <1>2 DEF LastLogged, LastLog
<1> QED
  BY <1>1, <1>3, <1>4, <1>5

LEMMA StopIInv == ASSUME IInv, Stop PROVE IInv'
BY DEF IInv, Stop, TypeOK, OneSession, ShellAlive, EnvAlive, LoggersEnd, Busy, LoggerAlive,
   CommandLeft, LastLogged, LastLog, logs, session
-----------------------------------------------------------------------------
(* bin/run *)

\* A command of the script or its interruption concerns its own session.
LEMMA ShellStep ==
  ASSUME IInv, NEW s \in Session, Shell(s) \/ Interrupt(s)
  PROVE  /\ ShellAlive(s) /\ (alone => s = last) /\ (alone' => alone)
         /\ DOMAIN shell' = Session /\ DOMAIN env' = Session /\ DOMAIN logger' = Logger
         /\ todo' \in [Logger -> SUBSET Name] /\ copied' \in [Logger -> SUBSET Name]
         /\ \A t \in Session \ {s} : shell'[t] = shell[t] /\ env'[t] = env[t]
         /\ \A t \in Session \ {s} :
              /\ logger'[Periodic(t)] = logger[Periodic(t)]
              /\ logger'[Oneshot(t)] = logger[Oneshot(t)]
         /\ UNCHANGED <<cells, page, last>>
<1>0. ASSUME NEW how, Forget(Periodic(s), how)
      PROVE  todo' \in [Logger -> SUBSET Name] /\ copied' \in [Logger -> SUBSET Name]
  BY <1>0 DEF Forget, IInv, TypeOK
<1> USE DEF IInv, TypeOK, Goto, logs, session, OneSession, ShellAlive
<1>1. CASE StartLogger(s)
  BY <1>1, Loggers DEF StartLogger
<1>2. CASE StartSysenv(s)
  BY <1>2 DEF StartSysenv
<1>3. CASE SysenvFailed(s)
  BY <1>3 DEF SysenvFailed
<1>4. CASE KillLogger(s)
  <2>1. PICK how : /\ logger' = [logger EXCEPT ![Periodic(s)] = how, ![Oneshot(s)] = "list"]
                   /\ Forget(Periodic(s), how) /\ alone' = (alone /\ how = "failed")
    BY <1>4 DEF KillLogger
  <2>2. DOMAIN logger' = Logger /\ (alone' => alone)
    BY <2>1
  <2>3. \A t \in Session \ {s} :
          logger'[Periodic(t)] = logger[Periodic(t)] /\ logger'[Oneshot(t)] = logger[Oneshot(t)]
    BY <2>1, Loggers
  <2>4. /\ ShellAlive(s) /\ DOMAIN shell' = Session /\ DOMAIN env' = Session
        /\ \A t \in Session \ {s} : shell'[t] = shell[t] /\ env'[t] = env[t]
        /\ UNCHANGED <<cells, page, last>>
    BY <1>4 DEF KillLogger
  <2> QED
    BY <1>0, <2>1, <2>2, <2>3, <2>4
<1>5. CASE KillFails(s)
  BY <1>5 DEF KillFails
<1>6. CASE OneshotEnds(s)
  BY <1>6 DEF OneshotEnds
<1>7. CASE Trap(s)
  <2>1. /\ DOMAIN logger' = Logger
        /\ todo' \in [Logger -> SUBSET Name] /\ copied' \in [Logger -> SUBSET Name]
        /\ \A l \in Logger \ {Periodic(s)} : logger'[l] = logger[l]
    BY <1>0, <1>7 DEF Trap
  <2>2. \A t \in Session \ {s} :
          logger'[Periodic(t)] = logger[Periodic(t)] /\ logger'[Oneshot(t)] = logger[Oneshot(t)]
    BY <2>1, Loggers
  <2> QED
    BY <1>7, <2>1, <2>2 DEF Trap
<1>8. CASE Interrupt(s)
  BY <1>8 DEF Interrupt
<1> QED
  BY <1>1, <1>2, <1>3, <1>4, <1>5, <1>6, <1>7, <1>8 DEF Shell

LEMMA ShellIInv ==
  ASSUME IInv, NEW s \in Session, Shell(s) \/ Interrupt(s)
  PROVE  IInv'
<1> USE ShellStep DEF IInv
<1>1. TypeOK'
  BY DEF TypeOK
<1>2. OneSession'
  <2>1. alone' /\ EnvAlive(s)' => shell'[s] = "wait"
    <3>1. alone' => (EnvAlive(s) => shell[s] = "wait")
      BY DEF OneSession
    <3> QED
      BY <3>1 DEF TypeOK, EnvAlive, Shell, Goto, StartLogger, StartSysenv, SysenvFailed,
         KillLogger, KillFails, OneshotEnds, Trap, Interrupt
  <2> QED
    BY <2>1 DEF OneSession, ShellAlive, EnvAlive
<1>3. LoggersEnd'
  <2>1. logger'[Oneshot(s)] # "loop"
    <3> USE Loggers DEF LoggersEnd, TypeOK
    <3>1. CASE StartLogger(s) BY <3>1 DEF StartLogger
    <3>2. CASE KillLogger(s) BY <3>2 DEF KillLogger
    <3>3. CASE Trap(s) BY <3>3 DEF Trap
    <3>4. CASE StartSysenv(s) \/ SysenvFailed(s) \/ KillFails(s) \/ OneshotEnds(s) \/ Interrupt(s)
      BY <3>4 DEF StartSysenv, SysenvFailed, KillFails, OneshotEnds, Interrupt, logs
    <3> QED
      BY <3>1, <3>2, <3>3, <3>4 DEF Shell
  <2>2. alone' => (/\ shell'[s] \in {"oneshot", "done"} => ~Busy(Periodic(s))'
                   /\ shell'[s] = "done" => ~Busy(Oneshot(s))')
    <3> SUFFICES ASSUME alone'
                 PROVE  /\ shell'[s] \in {"oneshot", "done"} => ~Busy(Periodic(s))'
                        /\ shell'[s] = "done" => ~Busy(Oneshot(s))'
      OBVIOUS
    <3>0. alone /\ s = last /\ last # 0
      BY DEF Session
    <3> USE Loggers DEF LoggersEnd, TypeOK, Busy, LoggerAlive, CommandLeft, Goto
    <3>1. CASE StartLogger(s) BY <3>1 DEF StartLogger
    <3>2. CASE KillLogger(s) BY <3>2 DEF KillLogger
    <3>3. CASE Trap(s) BY <3>3 DEF Trap
    <3>4. CASE OneshotEnds(s) BY <3>0, <3>4 DEF OneshotEnds, logs
    <3>5. CASE StartSysenv(s) \/ SysenvFailed(s) \/ KillFails(s) \/ Interrupt(s)
      BY <3>5 DEF StartSysenv, SysenvFailed, KillFails, Interrupt, logs
    <3> QED
      BY <3>1, <3>2, <3>3, <3>4, <3>5 DEF Shell
  <2>3. alone' => \A l \in Logger : Busy(l)' => l[1] = last
    <3> SUFFICES ASSUME alone', NEW l \in Logger, Busy(l)', l[1] # last
                 PROVE  FALSE
      OBVIOUS
    <3>1. l[1] \in Session \ {s} /\ (l = Periodic(l[1]) \/ l = Oneshot(l[1]))
      BY Loggers
    <3>2. logger'[l] = logger[l]
      BY <3>1
    <3> QED
      BY <3>2 DEF LoggersEnd, Busy, LoggerAlive, CommandLeft
  <2>4. \A t \in Session : logger'[Oneshot(t)] # "loop"
    BY <2>1 DEF LoggersEnd
  <2>5. last' = last /\ (alone' => s = last)
    OBVIOUS
  <2> QED
    BY <2>2, <2>3, <2>4, <2>5 DEF LoggersEnd
<1>4. LastLogged'
  <2> SUFFICES ASSUME alone' PROVE LastLog(s)'
    BY DEF LastLogged
  <2>1. LastLog(s)
    BY DEF LastLogged, Session
  <2>2. CASE KillLogger(s)
    BY <2>2, Loggers DEF KillLogger, Goto, LastLog, TypeOK
  <2>3. CASE OneshotEnds(s)
    BY <2>1, <2>3 DEF OneshotEnds, Goto, LastLog, TypeOK
  <2>4. CASE ~KillLogger(s) /\ ~OneshotEnds(s)
    <3>1. shell'[s] \notin {"oneshot", "done"}
      BY <2>4 DEF TypeOK, Shell, Goto, StartLogger, StartSysenv, SysenvFailed, KillFails, Trap,
         Interrupt
    <3> QED
      BY <3>1 DEF LastLog
  <2> QED
    BY <2>2, <2>3, <2>4
<1> QED
  BY <1>1, <1>2, <1>3, <1>4

-----------------------------------------------------------------------------

LEMMA NextIInv == IInv /\ [Next]_vars => IInv'
<1>1. ASSUME IInv, UNCHANGED vars PROVE IInv'
  BY <1>1 DEF vars, logs, session, IInv, TypeOK, OneSession, ShellAlive, EnvAlive, LoggersEnd,
     Busy, LoggerAlive, CommandLeft, LastLogged, LastLog
<1> QED
  BY <1>1, TouchIInv, ShellIInv, EnvIInv, LogIInv, StopIInv DEF Next

(***************************************************************************)
(* For any number of sessions, cells and kills of loggers, sessions that   *)
(* are started next to one that goes on included: a session that ends      *)
(* without an error and had the pages for itself leaves a page of exactly  *)
(* the cells that are left.                                                *)
(***************************************************************************)
THEOREM PageTheorem == Spec => []PageFinal
<1>1. Init => IInv
  BY InitIInv
<1>2. IInv /\ [Next]_vars => IInv'
  BY NextIInv
<1>3. IInv => PageFinal
  BY DEF IInv, LastLogged, LastLog, PageFinal
<1> QED
  BY <1>1, <1>2, <1>3, PTL DEF Spec
============================================================================
