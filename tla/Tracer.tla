------------------------------- MODULE Tracer -------------------------------
(***************************************************************************)
(* One tracer (libresmack_fuzz/src/tracer.cpp) in the main process: its    *)
(* monitor thread launches a child, waits for it and handles its crash,    *)
(* over and over; its timeout thread measures the iteration the child is   *)
(* in and kills it when that takes too long; the main thread stops both.   *)
(*                                                                         *)
(* Children are numbered in the order they are forked, and a number stands *)
(* for the pid; 0 is the -1 that traced_pid starts with.  Pids are not     *)
(* reused.  A tracer shares one block of memory with its children: the     *)
(* time the iteration began and the ASAN report.                           *)
(*                                                                         *)
(* A child asks to be traced in its main thread and fuzzes in another one  *)
(* (fork.cpp:55, 66).  A fatal signal of the target therefore ends it; a   *)
(* signal sent to the process stops only the thread that is traced, and    *)
(* the fuzzing goes on.                                                    *)
(***************************************************************************)
EXTENDS Naturals

CONSTANTS
  MaxSpawns,    \* bound: children the tracer forks
  IterLimit,    \* timeout, in ticks of the clock
  LifeLimit,    \* alive_max, in ticks of the clock
  Signals       \* signals sent to a child from outside

\* Signals that stop a child: those of IsCrashSignal and the others.
Stops == {"fatal", "other"}

ASSUME TracerAssumption ==
  /\ MaxSpawns \in Nat
  /\ IterLimit \in Nat \ {0}
  /\ LifeLimit \in Nat \ {0}
  /\ Signals \subseteq Stops

Children == 1..MaxSpawns

VARIABLES
  proc,          \* what the operating system knows of each child
  halted,        \* the signal at which its main thread is stopped, or "no"
  forked,        \* how many children have been forked
  \* the shared block (TraceeShared and AsanInfo)
  iterAge,       \* ticks since iter_start; Unset for -1
  lifeAge,       \* ticks since lifetime_start
  asan,          \* 0 when there is no report, else the child that wrote it
  \* members of the Tracer
  shouldRun, tracedPid,
  \* the threads of the main process
  monitor,       \* where the monitor thread is
  exitInfo,      \* what WaitForExit has returned to it
  timer,         \* where the timeout thread is
  timerPid,      \* its local pid
  main,          \* where the main thread is
  shuttingDown,  \* SHUTTING_DOWN, of which every child has a copy
  \* history
  reports,       \* the crashes handed to exception_cb: the child, the ASAN report used
  late           \* children that have been overdue

block    == <<iterAge, lifeAge, asan>>
os       == <<proc, halted, forked>>
threads  == <<monitor, exitInfo, timer, timerPid, main>>
tracer   == <<shouldRun, tracedPid, shuttingDown>>
history  == <<reports, late>>
vars     == <<os, block, threads, tracer, history>>

\* An iter_start of -1, which measures as a time beyond every limit.
Unset == IterLimit + 1

\* A child at work, and the ways it ends before it is reaped.
Working == {"starting", "fuzzing", "reporting", "hung", "leaving"}
Ends    == {"exit", "asanExit", "abort", "otherSignal", "killed"}

\* LoadSignalInfo: the outcomes that are crashes.
Crashes == {"asanExit", "abort", "fatal"}

Init ==
  /\ proc = [n \in Children |-> "none"] /\ halted = [n \in Children |-> "no"] /\ forked = 0
  /\ iterAge = Unset /\ lifeAge = 0 /\ asan = 0
  /\ shouldRun = TRUE /\ tracedPid = 0
  /\ monitor = "loop" /\ exitInfo = "none"
  /\ timer = "loop" /\ timerPid = 0
  /\ main = "run" /\ shuttingDown = FALSE
  /\ reports = {} /\ late = {}

-----------------------------------------------------------------------------
(* A child: FuzzLoop as the tracer sees it.                                *)

Becomes(n, state) == proc' = [proc EXCEPT ![n] = state]

\* A new iteration: IterStart.
IterStart(n) ==
  /\ proc[n] \in {"starting", "fuzzing"}
  /\ Becomes(n, "fuzzing")
  /\ iterAge' = 0
  /\ UNCHANGED <<halted, forked, lifeAge, asan, threads, tracer, history>>

\* The target does not return, or the child waits for a lock nobody holds.
Hang(n) ==
  /\ proc[n] \in {"starting", "fuzzing", "leaving"}
  /\ Becomes(n, "hung")
  /\ UNCHANGED <<halted, forked, block, threads, tracer, history>>

\* ASAN's callback: SaveAsanInfo.
SaveAsanInfo(n) ==
  /\ proc[n] = "fuzzing"
  /\ Becomes(n, "reporting")
  /\ asan' = n
  /\ UNCHANGED <<halted, forked, iterAge, lifeAge, threads, tracer, history>>

\* ASAN ends the process after its report; a fatal signal ends it without one.
Die(n) ==
  /\ \/ proc[n] = "reporting" /\ Becomes(n, "asanExit")
     \/ /\ proc[n] \in {"starting", "fuzzing"}
        /\ \E end \in {"abort", "otherSignal"} : Becomes(n, end)
  /\ UNCHANGED <<halted, forked, block, threads, tracer, history>>

\* FuzzLoop ends when a limit is reached; a stopped main thread cannot exit.
Finish(n) ==
  /\ proc[n] \in {"starting", "fuzzing"} /\ halted[n] = "no"
  /\ Becomes(n, "exit")
  /\ UNCHANGED <<halted, forked, block, threads, tracer, history>>

\* A child that was forked with SHUTTING_DOWN set leaves FuzzLoop at once.
Leave(n) ==
  /\ proc[n] = "leaving" /\ halted[n] = "no"
  /\ Becomes(n, "exit")
  /\ UNCHANGED <<halted, forked, block, threads, tracer, history>>

\* A signal is sent to the process and stops its main thread.
Halt(n) ==
  /\ proc[n] \in Working /\ halted[n] = "no"
  /\ \E sig \in Signals : halted' = [halted EXCEPT ![n] = sig]
  /\ UNCHANGED <<proc, forked, block, threads, tracer, history>>

\* Time passes; what has reached its limit stays there.
Tick ==
  /\ iterAge' = IF iterAge < IterLimit THEN iterAge + 1 ELSE iterAge
  /\ lifeAge' = IF lifeAge < LifeLimit THEN lifeAge + 1 ELSE lifeAge
  /\ <<iterAge, lifeAge>>' # <<iterAge, lifeAge>>
  /\ late' = IF iterAge' = IterLimit \/ lifeAge' = LifeLimit
             THEN late \cup {n \in Children : proc[n] \in Working}
             ELSE late
  /\ UNCHANGED <<os, asan, threads, tracer, reports>>

-----------------------------------------------------------------------------
(* The monitor thread: MonitorTracee.                                      *)

\* What kill(pid, SIGKILL) makes of the children; -1 stands for every process.
KilledBy(pid) ==
  [n \in Children |-> IF pid \in {0, n} /\ proc[n] \in Working THEN "killed" ELSE proc[n]]

\* Faulty: leaves the ASAN report of the previous child in the block.
SpawnKeepsAsan ==
  /\ monitor = "loop"
  /\ \/ /\ shouldRun /\ forked < MaxSpawns
        /\ iterAge' = Unset /\ lifeAge' = 0
        /\ monitor' = "fork"
     \/ ~shouldRun /\ monitor' = "done" /\ UNCHANGED <<iterAge, lifeAge>>
  /\ UNCHANGED <<os, asan, exitInfo, timer, timerPid, main, tracer, history>>

\* The head of the loop, and Spawn as far as Tracee::Reset.
Spawn ==
  /\ monitor = "loop"
  /\ \/ /\ shouldRun /\ forked < MaxSpawns
        /\ iterAge' = Unset /\ lifeAge' = 0 /\ asan' = 0
        /\ monitor' = "fork"
     \/ ~shouldRun /\ monitor' = "done" /\ UNCHANGED block
  /\ UNCHANGED <<os, exitInfo, timer, timerPid, main, tracer, history>>

\* The rest of Spawn: fork, and the handshake that lets the child run.
Fork ==
  /\ monitor = "fork"
  /\ forked' = forked + 1
  /\ Becomes(forked + 1, IF shuttingDown THEN "leaving" ELSE "starting")
  /\ late' = IF lifeAge = LifeLimit THEN late \cup {forked + 1} ELSE late
  /\ monitor' = "store"
  /\ UNCHANGED <<halted, block, exitInfo, timer, timerPid, main, tracer, reports>>

\* traced_pid takes what Spawn has returned.
StorePid ==
  /\ monitor = "store"
  /\ tracedPid' = forked
  /\ monitor' = "wait"
  /\ UNCHANGED <<os, block, exitInfo, timer, timerPid, main, shouldRun, shuttingDown, history>>

\* Faulty: does not wait, and takes a child at work for one that has ended.
WaitNoHang ==
  /\ monitor = "wait"
  /\ exitInfo' = proc[tracedPid]
  /\ proc' = [proc EXCEPT ![tracedPid] = IF @ \in Ends THEN "gone" ELSE @]
  /\ monitor' = "classify"
  /\ UNCHANGED <<halted, forked, block, timer, timerPid, main, tracer, history>>

\* waitpid reaps a dead child, and reports a stopped one that stays.
WaitForExit ==
  /\ monitor = "wait"
  /\ \/ /\ proc[tracedPid] \in Ends
        /\ exitInfo' = proc[tracedPid]
        /\ Becomes(tracedPid, "gone")
     \/ /\ proc[tracedPid] \in Working
        /\ halted[tracedPid] # "no"
        /\ exitInfo' = halted[tracedPid]
        /\ UNCHANGED proc
  /\ monitor' = "classify"
  /\ UNCHANGED <<halted, forked, block, timer, timerPid, main, tracer, history>>

\* should_run again, and the switch over the exit reason.
Classify ==
  /\ monitor = "classify"
  /\ monitor' = IF ~shouldRun THEN "done" ELSE IF exitInfo \in Crashes THEN "crash" ELSE "loop"
  /\ UNCHANGED <<os, block, exitInfo, timer, timerPid, main, tracer, history>>

\* Faulty: takes a child that is stopped for one that is dead.
HandleCrashOnly ==
  /\ monitor = "crash"
  /\ asan # 0 \/ proc[tracedPid] \in Working
  /\ \/ shuttingDown /\ UNCHANGED <<reports, shuttingDown>>
     \/ /\ ~shuttingDown
        /\ reports' = reports \cup {[pid |-> tracedPid, asan |-> asan]}
        /\ shuttingDown' \in BOOLEAN
  /\ monitor' = "loop"
  /\ UNCHANGED <<os, block, exitInfo, timer, timerPid, main, shouldRun, tracedPid, late>>

\* ProcessCrash has the ASAN report, or CalcHashes reads the stopped process;
\* exception_cb reports the crash, the last one allowed or not.
HandleCrash ==
  /\ monitor = "crash"
  /\ asan # 0 \/ proc[tracedPid] \in Working
  /\ \/ shuttingDown /\ UNCHANGED <<reports, shuttingDown>>
     \/ /\ ~shuttingDown
        /\ reports' = reports \cup {[pid |-> tracedPid, asan |-> asan]}
        /\ shuttingDown' \in BOOLEAN
  /\ monitor' = IF exitInfo \in Stops THEN "reap" ELSE "loop"
  /\ UNCHANGED <<os, block, exitInfo, timer, timerPid, main, shouldRun, tracedPid, late>>

\* CalcHashes of a process that is dead throws, and nothing catches it.
CalcHashesThrows ==
  /\ monitor = "crash"
  /\ asan = 0 /\ proc[tracedPid] \notin Working
  /\ monitor' = "done" /\ timer' = "done" /\ main' = "aborted"
  /\ UNCHANGED <<os, block, exitInfo, timerPid, tracer, history>>

\* The end of a child that was stopped: kill and waitpid.
Reap ==
  /\ monitor = "reap"
  /\ Becomes(tracedPid, "gone")
  /\ monitor' = "loop"
  /\ UNCHANGED <<halted, forked, block, exitInfo, timer, timerPid, main, tracer, history>>

-----------------------------------------------------------------------------
(* The timeout thread: MonitorTraceeTimeout.  Only this thread takes       *)
(* trace_lock, so the lock orders nothing and is left out.                 *)

\* The head of the loop: should_run, then traced_pid.
TimerLoop ==
  /\ timer = "loop"
  /\ \/ shouldRun /\ timerPid' = tracedPid /\ timer' = "check"
     \/ ~shouldRun /\ timer' = "done" /\ UNCHANGED timerPid
  /\ UNCHANGED <<os, block, monitor, exitInfo, main, tracer, history>>

\* The first look at iter_start.
TimerCheck ==
  /\ timer = "check"
  /\ timer' = IF iterAge = Unset THEN "loop" ELSE "measure"
  /\ UNCHANGED <<os, block, monitor, exitInfo, timerPid, main, tracer, history>>

\* The second one.
TimerMeasure ==
  /\ timer = "measure"
  /\ timer' = IF iterAge >= IterLimit \/ lifeAge = LifeLimit THEN "kill" ELSE "loop"
  /\ UNCHANGED <<os, block, monitor, exitInfo, timerPid, main, tracer, history>>

\* Faulty: reads traced_pid when it kills.
TimerKillTraced ==
  /\ timer = "kill"
  /\ proc' = KilledBy(tracedPid)
  /\ timer' = "done"
  /\ UNCHANGED <<halted, forked, block, monitor, exitInfo, timerPid, main, tracer, history>>

\* The kill, after which the thread ends.
TimerKill ==
  /\ timer = "kill"
  /\ proc' = KilledBy(timerPid)
  /\ timer' = "done"
  /\ UNCHANGED <<halted, forked, block, monitor, exitInfo, timerPid, main, tracer, history>>

-----------------------------------------------------------------------------
(* The main thread.                                                        *)

\* sigint_handler.
Interrupt ==
  /\ main = "run" /\ ~shuttingDown
  /\ shuttingDown' = TRUE
  /\ UNCHANGED <<os, block, threads, shouldRun, tracedPid, history>>

\* Faulty: stops the tracer without telling the children to come.
ShutDownQuietly(limit) ==
  /\ main = "run" /\ (shuttingDown \/ limit)
  /\ shouldRun' = FALSE
  /\ main' = "stop"
  /\ UNCHANGED <<os, block, monitor, exitInfo, timer, timerPid, tracedPid, shuttingDown, history>>

\* A limit is reached or SHUTTING_DOWN seen; Stop as far as should_run.
ShutDown(limit) ==
  /\ main = "run" /\ (shuttingDown \/ limit)
  /\ shuttingDown' = TRUE
  /\ shouldRun' = FALSE
  /\ main' = "stop"
  /\ UNCHANGED <<os, block, monitor, exitInfo, timer, timerPid, tracedPid, history>>

\* The rest of Stop: nothing is killed before the first pid is stored.
StopKill ==
  /\ main = "stop"
  /\ proc' = IF tracedPid # 0 THEN KilledBy(tracedPid) ELSE proc
  /\ main' = "join"
  /\ UNCHANGED <<halted, forked, block, monitor, exitInfo, timer, timerPid, tracer, history>>

Join ==
  /\ main = "join"
  /\ monitor = "done" /\ timer = "done"
  /\ main' = "joined"
  /\ UNCHANGED <<os, block, monitor, exitInfo, timer, timerPid, tracer, history>>

-----------------------------------------------------------------------------
ChildStep(n) ==
  IterStart(n) \/ Hang(n) \/ SaveAsanInfo(n) \/ Die(n) \/ Finish(n) \/ Leave(n) \/ Halt(n)

MonitorStep ==
  \/ Spawn \/ Fork \/ StorePid \/ WaitForExit \/ Classify
  \/ HandleCrash \/ CalcHashesThrows \/ Reap

TimerStep == TimerLoop \/ TimerCheck \/ TimerMeasure \/ TimerKill

MainStep == (\E limit \in BOOLEAN : ShutDown(limit)) \/ StopKill \/ Join

Next ==
  \/ \E n \in Children : ChildStep(n)
  \/ Tick
  \/ MonitorStep \/ TimerStep
  \/ Interrupt \/ MainStep

Spec == Init /\ [][Next]_vars

\* The threads of the main process and the clock go on, and so does a child
\* that only has to leave.  Limits, signals, hangs and crashes need not happen.
Fairness ==
  /\ WF_vars(MonitorStep)
  /\ WF_vars(TimerStep)
  /\ WF_vars(ShutDown(FALSE) \/ StopKill \/ Join)
  /\ WF_vars(Tick)
  /\ \A n \in Children : WF_vars(Leave(n))

FairSpec == Spec /\ Fairness

-----------------------------------------------------------------------------
(* Properties.                                                             *)

\* The variables keep their types; the monitor and the timeout thread hold
\* pids of children that have been forked.
TypeOK ==
  /\ proc \in [Children -> {"none", "gone"} \cup Working \cup Ends]
  /\ halted \in [Children -> {"no"} \cup Signals]
  /\ forked \in 0..MaxSpawns
  /\ iterAge \in 0..Unset /\ lifeAge \in 0..LifeLimit
  /\ asan \in 0..forked /\ tracedPid \in 0..forked /\ timerPid \in 0..tracedPid
  /\ shouldRun \in BOOLEAN /\ shuttingDown \in BOOLEAN
  /\ monitor \in {"loop", "fork", "store", "wait", "classify", "crash", "reap", "done"}
  /\ exitInfo \in {"none"} \cup Ends \cup Stops
  /\ timer \in {"loop", "check", "measure", "kill", "done"}
  /\ main \in {"run", "stop", "join", "joined", "aborted"}
  /\ reports \subseteq [pid : 1..forked, asan : 0..forked]
  /\ late \subseteq 1..forked

\* Every child but the newest has ended and has been reaped: the tracer
\* never has two of them at work, whatever the timeout thread, a fatal signal
\* or the main thread did meanwhile (tracer.cpp:172-209).
SingleTracee == \A n \in 1..(forked - 1) : proc[n] = "gone"

\* A crash is reported with the ASAN report of the child that crashed, never
\* with one that an earlier child left in the shared block
\* (tracer.cpp:141-147, tracee.cpp:182).
ReportIsOfCrashed == \A r \in reports : r.asan \in {0, r.pid}

\* The timeout thread reads the pid and the times at different moments; all
\* the same, once it has a pid, it kills no child that has not been overdue
\* (tracer.cpp:92-105).
KillsOnlyLate ==
  [][TimerKill /\ timerPid # 0
       => \A n \in Children : proc'[n] # proc[n] => n \in late]_vars

\* If Stop leaves no child at work, Join returns: what is forked after that
\* sees SHUTTING_DOWN and leaves.  It may hang on the way, and the process
\* may abort (main.cpp:743-753, tracer.cpp:52-67).
JoinReturns ==
  (main = "join" /\ \A n \in Children : proc[n] \notin Working \ {"leaving"})
    ~> (main \in {"joined", "aborted"} \/ \E n \in Children : proc[n] = "hung")

\* While the campaign goes on, the child that the tracer waits for does not
\* stay in an iteration longer than the timeout (the comment at tracer.cpp:79-85).
HungIsKilled ==
  \A n \in Children :
    (proc[n] = "hung" /\ tracedPid = n /\ iterAge = IterLimit)
      ~> (proc[n] # "hung" \/ shuttingDown)
=============================================================================
