---------------------------- MODULE TracerProofs ----------------------------
(***************************************************************************)
(* Theorems about Tracer, for every number of children, every timeout and  *)
(* every interleaving of the monitor, the timeout thread, the main thread  *)
(* and the child.                                                          *)
(***************************************************************************)
EXTENDS Tracer, TLAPS

USE DEF Children, Unset

\* The places at which the monitor has a child whose pid it has stored.
Minding == {"wait", "classify", "crash", "reap"}

\* Types, and what they rest on: how far the forks have come at each place of
\* the monitor, and that no child beyond them exists.
TypeInv ==
  /\ TypeOK
  /\ \A n \in Children : n > forked => proc[n] = "none"
  /\ monitor = "fork" => forked < MaxSpawns
  /\ monitor = "store" => forked > 0
  /\ monitor \in Minding => tracedPid = forked /\ forked > 0

LEMMA InitTypes == Init => TypeInv
<1> SUFFICES ASSUME Init PROVE TypeInv
  OBVIOUS
<1> USE TracerAssumption DEF Init
<1>1. proc \in [Children -> {"none", "gone"} \cup Working \cup Ends]
  BY Zenon
<1>2. halted \in [Children -> {"no"} \cup Signals]
  BY Zenon
<1>3. iterAge \in 0..Unset /\ lifeAge \in 0..LifeLimit /\ forked \in 0..MaxSpawns
  OBVIOUS
<1>4. \A n \in Children : proc[n] = "none"
  BY Zenon
<1>5. reports \subseteq [pid : 1..forked, asan : 0..forked] /\ late \subseteq 1..forked
  BY Zenon
<1>6. asan \in 0..forked /\ tracedPid \in 0..forked /\ timerPid \in 0..tracedPid
  OBVIOUS
<1>7. TypeOK
  BY <1>1, <1>2, <1>3, <1>5, <1>6 DEF TypeOK
<1> QED BY <1>4, <1>7 DEF TypeInv, Minding

\* A child that does something has been forked.
LEMMA ChildTypes ==
  ASSUME TypeInv, NEW n \in Children, ChildStep(n)
  PROVE  TypeInv'
<1> USE TracerAssumption DEF TypeInv, TypeOK, Minding, os, block, threads, tracer, history
<1>0. n <= forked /\ n \in 1..forked
  <2>1. proc[n] # "none"
    BY DEF ChildStep, IterStart, Hang, SaveAsanInfo, Die, Finish, Leave, Halt, Working
  <2> QED BY <2>1
<1>1. CASE IterStart(n) BY <1>0, <1>1 DEF IterStart, Becomes, Working
<1>2. CASE Hang(n)      BY <1>0, <1>2 DEF Hang, Becomes, Working
<1>3. CASE SaveAsanInfo(n) BY <1>0, <1>3 DEF SaveAsanInfo, Becomes, Working
<1>4. CASE Die(n)       BY <1>0, <1>4 DEF Die, Becomes, Ends
<1>5. CASE Finish(n)    BY <1>0, <1>5 DEF Finish, Becomes, Ends
<1>6. CASE Leave(n)     BY <1>0, <1>6 DEF Leave, Becomes, Ends
<1>7. CASE Halt(n)      BY <1>0, <1>7 DEF Halt
<1> QED BY <1>1, <1>2, <1>3, <1>4, <1>5, <1>6, <1>7 DEF ChildStep

LEMMA MonitorTypes ==
  ASSUME TypeInv, MonitorStep
  PROVE  TypeInv'
<1> USE TracerAssumption DEF TypeInv, TypeOK, Minding, os, block, threads, tracer, history
<1>1. CASE Spawn       BY <1>1 DEF Spawn
<1>2. CASE Fork        BY <1>2 DEF Fork, Becomes, Working
<1>3. CASE StorePid    BY <1>3 DEF StorePid
<1>4. CASE WaitForExit
  <2>1. tracedPid \in Children /\ monitor = "wait"
    BY <1>4 DEF WaitForExit
  <2>2. proc' \in [Children -> {"none", "gone"} \cup Working \cup Ends]
    BY <1>4 DEF WaitForExit, Becomes
  <2>3. \A n \in Children : n > forked => proc'[n] = "none"
    BY <1>4, <2>1 DEF WaitForExit, Becomes
  <2>4. exitInfo' \in {"none"} \cup Ends \cup Stops
    BY <1>4, <2>1 DEF WaitForExit
  <2> QED BY <1>4, <2>1, <2>2, <2>3, <2>4 DEF WaitForExit
<1>5. CASE Classify    BY <1>5 DEF Classify
<1>6. CASE HandleCrash BY <1>6 DEF HandleCrash
<1>7. CASE CalcHashesThrows BY <1>7 DEF CalcHashesThrows
<1>8. CASE Reap        BY <1>8 DEF Reap, Becomes
<1> QED BY <1>1, <1>2, <1>3, <1>4, <1>5, <1>6, <1>7, <1>8 DEF MonitorStep

\* A SIGKILL changes no child that has not been forked.
LEMMA KilledTypes ==
  ASSUME TypeInv, NEW pid, proc' = KilledBy(pid)
  PROVE  /\ proc' \in [Children -> {"none", "gone"} \cup Working \cup Ends]
         /\ \A n \in Children : n > forked => proc'[n] = "none"
  BY DEF TypeInv, TypeOK, KilledBy, Working, Ends

LEMMA OtherTypes ==
  ASSUME TypeInv, Tick \/ TimerStep \/ Interrupt \/ MainStep
  PROVE  TypeInv'
<1> USE TracerAssumption DEF TypeInv, TypeOK, Minding, os, block, threads, tracer, history
<1>1. CASE Tick
  <2>1. {n \in Children : proc[n] \in Working} \subseteq 1..forked
    BY DEF Working
  <2>2. late' \subseteq 1..forked
    BY <1>1, <2>1 DEF Tick
  <2>3. iterAge' \in 0..Unset /\ lifeAge' \in 0..LifeLimit
    BY <1>1 DEF Tick
  <2> QED BY <1>1, <2>2, <2>3 DEF Tick
<1>2. CASE TimerLoop    BY <1>2 DEF TimerLoop
<1>3. CASE TimerCheck   BY <1>3 DEF TimerCheck
<1>4. CASE TimerMeasure BY <1>4 DEF TimerMeasure
<1>5. CASE TimerKill    BY <1>5, KilledTypes DEF TimerKill
<1>6. CASE Interrupt    BY <1>6 DEF Interrupt
<1>7. CASE \E limit \in BOOLEAN : ShutDown(limit) BY <1>7 DEF ShutDown
<1>8. CASE StopKill     BY <1>8, KilledTypes DEF StopKill
<1>9. CASE Join         BY <1>9 DEF Join
<1> QED
  BY <1>1, <1>2, <1>3, <1>4, <1>5, <1>6, <1>7, <1>8, <1>9 DEF TimerStep, MainStep

LEMMA NextTypes == TypeInv /\ [Next]_vars => TypeInv'
<1> SUFFICES ASSUME TypeInv, [Next]_vars PROVE TypeInv'
  OBVIOUS
<1>1. CASE Next BY <1>1, ChildTypes, MonitorTypes, OtherTypes DEF Next
<1>2. CASE UNCHANGED vars
  BY <1>2 DEF vars, os, block, threads, tracer, history, TypeInv, TypeOK, Minding
<1> QED BY <1>1, <1>2

LEMMA TypesHold == Spec => []TypeInv
  BY InitTypes, NextTypes, PTL DEF Spec

\* The variables of a tracer keep their types; its threads hold pids of
\* children that exist (tracer.cpp:92, 121, 174).
THEOREM TypesOfTracer == Spec => []TypeOK
<1>1. TypeInv => TypeOK BY DEF TypeInv
<1> QED BY <1>1, TypesHold, PTL

-----------------------------------------------------------------------------
(* One child at a time.  A child that a signal of another kind has stopped *)
(* is left behind, so the theorems assume that no such signal is sent.     *)

\* The monitor moves on only when the newest child is gone: waitpid has reaped
\* it, or it is stopped and HandleCrash sends the monitor to reap it.
OrderInv ==
  /\ SingleTracee
  /\ monitor \in {"loop", "fork"} => \A n \in 1..forked : proc[n] = "gone"
  /\ monitor \in {"classify", "crash"}
       => exitInfo = "fatal" \/ (exitInfo \in Ends /\ proc[forked] = "gone")

\* What nobody but the monitor does: make a child gone, or one that is gone
\* anything else.
GoneStays == \A n \in Children : proc[n] = "gone" => proc'[n] = "gone"

LEMMA OrderOfOthers ==
  ASSUME TypeInv, OrderInv,
         GoneStays, forked' = forked, exitInfo' = exitInfo,
         monitor' = monitor \/ monitor' = "done"
  PROVE  OrderInv'
  BY TracerAssumption DEF OrderInv, SingleTracee, GoneStays, TypeInv, TypeOK, Minding

LEMMA OthersKeepGone ==
  ASSUME TypeInv,
         (\E n \in Children : ChildStep(n)) \/ Tick \/ TimerStep \/ Interrupt \/ MainStep
  PROVE  GoneStays /\ forked' = forked /\ exitInfo' = exitInfo /\ monitor' = monitor
<1> USE DEF TypeInv, TypeOK, GoneStays, os, block, threads, tracer, history
<1>1. ASSUME NEW n \in Children, ChildStep(n)
      PROVE  GoneStays /\ forked' = forked /\ exitInfo' = exitInfo /\ monitor' = monitor
  BY <1>1 DEF ChildStep, IterStart, Hang, SaveAsanInfo, Die, Finish, Leave, Halt, Becomes,
              Working
<1>2. CASE Tick BY <1>2 DEF Tick
<1>3. CASE TimerStep
  BY <1>3 DEF TimerStep, TimerLoop, TimerCheck, TimerMeasure, TimerKill, KilledBy, Working
<1>4. CASE Interrupt BY <1>4 DEF Interrupt
<1>5. CASE MainStep BY <1>5 DEF MainStep, ShutDown, StopKill, Join, KilledBy, Working
<1> QED BY <1>1, <1>2, <1>3, <1>4, <1>5

LEMMA OrderOfMonitor ==
  ASSUME "other" \notin Signals, TypeInv, OrderInv, MonitorStep
  PROVE  OrderInv'
<1> USE TracerAssumption
    DEF TypeInv, TypeOK, Minding, OrderInv, SingleTracee, os, block, threads, tracer, history
<1>1. CASE Spawn    BY <1>1 DEF Spawn
<1>2. CASE Fork     BY <1>2 DEF Fork, Becomes
<1>3. CASE StorePid BY <1>3 DEF StorePid
<1>4. CASE WaitForExit
  <2>1. tracedPid = forked /\ forked \in Children /\ forked' = forked
    BY <1>4 DEF WaitForExit
  <2>2. CASE proc[tracedPid] \in Ends /\ exitInfo' = proc[tracedPid] /\ Becomes(tracedPid, "gone")
    BY <1>4, <2>1, <2>2 DEF WaitForExit, Becomes
  <2>3. CASE halted[tracedPid] # "no" /\ exitInfo' = halted[tracedPid] /\ UNCHANGED proc
    <3>1. exitInfo' = "fatal"
      BY <2>1, <2>3 DEF Stops
    <3> QED BY <1>4, <2>1, <2>3, <3>1 DEF WaitForExit
  <2> QED BY <1>4, <2>2, <2>3 DEF WaitForExit
<1>5. CASE Classify BY <1>5 DEF Classify, Crashes, Ends
<1>6. CASE HandleCrash BY <1>6 DEF HandleCrash, Stops
<1>7. CASE CalcHashesThrows BY <1>7 DEF CalcHashesThrows
<1>8. CASE Reap BY <1>8 DEF Reap, Becomes
<1> QED BY <1>1, <1>2, <1>3, <1>4, <1>5, <1>6, <1>7, <1>8 DEF MonitorStep

LEMMA NextOrder ==
  ASSUME "other" \notin Signals, TypeInv, OrderInv, [Next]_vars
  PROVE  OrderInv'
<1>1. CASE MonitorStep BY <1>1, OrderOfMonitor
<1>2. CASE (\E n \in Children : ChildStep(n)) \/ Tick \/ TimerStep \/ Interrupt \/ MainStep
  BY <1>2, OthersKeepGone, OrderOfOthers
<1>3. CASE UNCHANGED vars
  BY <1>3 DEF vars, os, block, threads, tracer, history, OrderInv, SingleTracee
<1> QED BY <1>1, <1>2, <1>3 DEF Next

LEMMA OrderHolds ==
  ASSUME "other" \notin Signals
  PROVE  Spec => [](TypeInv /\ OrderInv)
<1>1. Init => OrderInv
  <2> SUFFICES ASSUME Init PROVE OrderInv
    OBVIOUS
  <2>1. forked = 0 /\ monitor = "loop"
    BY DEF Init
  <2> QED BY <2>1 DEF OrderInv, SingleTracee
<1>2. TypeInv /\ OrderInv /\ [Next]_vars => OrderInv'
  BY NextOrder
<1> QED BY <1>1, <1>2, TypesHold, PTL DEF Spec

\* The tracer has never more than one child that has not been reaped, as long
\* as nobody sends a child a signal that is no crash (tracer.cpp:172-209).
THEOREM OneTracee ==
  ASSUME "other" \notin Signals
  PROVE  Spec => []SingleTracee
<1>1. TypeInv /\ OrderInv => SingleTracee BY DEF OrderInv
<1> QED BY <1>1, OrderHolds, PTL

-----------------------------------------------------------------------------
(* Reports.                                                                *)

\* Between two forks, an ASAN report is that of the newest child.
ReportInv ==
  /\ ReportIsOfCrashed
  /\ asan \in {0, forked}
  /\ monitor = "fork" => asan = 0

LEMMA NextReport ==
  ASSUME TypeInv, OrderInv, ReportInv, [Next]_vars
  PROVE  ReportInv'
<1> USE DEF ReportInv, ReportIsOfCrashed, TypeInv, TypeOK, Minding,
            os, block, threads, tracer, history
<1>1. ASSUME NEW n \in Children, SaveAsanInfo(n) PROVE ReportInv'
  <2>1. n = forked /\ monitor # "fork"
    BY <1>1 DEF SaveAsanInfo, OrderInv, SingleTracee
  <2> QED BY <1>1, <2>1 DEF SaveAsanInfo
<1>2. CASE HandleCrash BY <1>2 DEF HandleCrash
<1>3. CASE Spawn BY <1>3 DEF Spawn
<1>4. CASE Fork BY <1>4 DEF Fork
<1>5. ASSUME asan' = asan, forked' = forked, reports' = reports,
             monitor' # "fork" \/ monitor' = monitor
      PROVE  ReportInv'
  BY <1>5
<1>6. ASSUME NEW n \in Children, ChildStep(n) PROVE ReportInv'
  BY <1>1, <1>5, <1>6 DEF ChildStep, IterStart, Hang, Die, Finish, Leave, Halt
<1>7. CASE MonitorStep
  BY <1>2, <1>3, <1>4, <1>5, <1>7
     DEF MonitorStep, StorePid, WaitForExit, Classify, CalcHashesThrows, Reap
<1>8. CASE Tick \/ TimerStep \/ Interrupt \/ MainStep
  BY <1>5, <1>8 DEF Tick, TimerStep, TimerLoop, TimerCheck, TimerMeasure, TimerKill, Interrupt,
                    MainStep, ShutDown, StopKill, Join
<1>9. CASE UNCHANGED vars BY <1>5, <1>9 DEF vars
<1> QED BY <1>6, <1>7, <1>8, <1>9 DEF Next

\* Whatever is reported of a crash comes from the child that crashed
\* (tracer.cpp:141-147, tracee.cpp:182).
THEOREM ReportsAreOfCrashed ==
  ASSUME "other" \notin Signals
  PROVE  Spec => []ReportIsOfCrashed
<1>1. Init => ReportInv
  BY DEF Init, ReportInv, ReportIsOfCrashed
<1>2. TypeInv /\ OrderInv /\ ReportInv /\ [Next]_vars => ReportInv'
  BY NextReport
<1>3. ReportInv => ReportIsOfCrashed BY DEF ReportInv
<1> QED BY <1>1, <1>2, <1>3, OrderHolds, PTL DEF Spec

-----------------------------------------------------------------------------
(* Timeouts.                                                               *)

\* A child at work in an overdue block is overdue; the timeout thread has
\* measured the block of the child whose pid it holds, if that one is at work.
TimerInv ==
  /\ \A n \in Children :
       proc[n] \in Working /\ (iterAge = IterLimit \/ lifeAge = LifeLimit) => n \in late
  /\ monitor = "fork" => iterAge = Unset
  /\ timerPid # 0 /\ proc[timerPid] \in Working
       => /\ timer = "measure" => iterAge # Unset
          /\ timer = "kill" => timerPid \in late

LEMMA NextTimer ==
  ASSUME TypeInv, OrderInv, TimerInv, [Next]_vars
  PROVE  TimerInv'
<1> USE TracerAssumption DEF TimerInv, TypeInv, TypeOK, Minding, os, block, threads, tracer, history
<1> DEFINE Fewer == \A n \in Children : proc'[n] \in Working => proc[n] \in Working
<1>1. ASSUME Fewer, UNCHANGED <<forked, block, timer, timerPid, late>>,
             monitor' # "fork" \/ monitor' = monitor
      PROVE  TimerInv'
  BY <1>1
<1>2. ASSUME NEW n \in Children, ChildStep(n) PROVE TimerInv'
  <2>1. Fewer
    BY <1>2 DEF ChildStep, IterStart, Hang, SaveAsanInfo, Die, Finish, Leave, Halt, Becomes,
                Working, Ends
  <2>2. CASE IterStart(n)
    <3>1. monitor # "fork"
      BY <2>2 DEF IterStart, OrderInv
    <3>2. IterLimit # 0 /\ LifeLimit # 0
      OBVIOUS
    <3> QED BY <2>1, <2>2, <3>1, <3>2 DEF IterStart
  <2>3. CASE SaveAsanInfo(n) BY <2>1, <2>3 DEF SaveAsanInfo
  <2> QED BY <1>1, <1>2, <2>1, <2>2, <2>3 DEF ChildStep, Hang, Die, Finish, Leave, Halt
<1>3. CASE Tick
  BY <1>3 DEF Tick
<1>4. CASE Spawn
  <2>1. \A n \in Children : proc'[n] \notin Working
    BY <1>4 DEF Spawn, OrderInv, Working
  <2> QED BY <1>4, <2>1 DEF Spawn
<1>5. CASE Fork
  <2>1. \A n \in Children : n # forked + 1 => proc'[n] = proc[n] /\ proc[n] \notin Working
    BY <1>5 DEF Fork, Becomes, OrderInv, Working
  <2>2. timerPid' = timerPid /\ timerPid # forked + 1 /\ iterAge' = Unset /\ Unset # IterLimit
    BY <1>5 DEF Fork
  <2> QED BY <1>5, <2>1, <2>2 DEF Fork
<1>6. CASE MonitorStep
  <2>1. Fewer \/ Fork
    BY <1>6 DEF MonitorStep, Spawn, StorePid, WaitForExit, Classify, HandleCrash,
                CalcHashesThrows, Reap, Becomes, Working
  <2>2. CASE CalcHashesThrows BY <2>1, <2>2 DEF CalcHashesThrows
  <2> QED BY <1>1, <1>4, <1>5, <1>6, <2>1, <2>2
          DEF MonitorStep, StorePid, WaitForExit, Classify, HandleCrash, Reap
<1>7. CASE TimerStep
  <2>1. CASE TimerLoop BY <2>1 DEF TimerLoop
  <2>2. CASE TimerCheck BY <2>2 DEF TimerCheck
  <2>3. CASE TimerMeasure BY <2>3 DEF TimerMeasure
  <2>4. CASE TimerKill BY <2>4 DEF TimerKill, KilledBy, Working
  <2> QED BY <1>7, <2>1, <2>2, <2>3, <2>4 DEF TimerStep
<1>8. CASE Interrupt \/ MainStep
  <2>1. Fewer
    BY <1>8 DEF Interrupt, MainStep, ShutDown, StopKill, Join, KilledBy, Working
  <2> QED BY <1>1, <1>8, <2>1 DEF Interrupt, MainStep, ShutDown, StopKill, Join
<1>9. CASE UNCHANGED vars BY <1>1, <1>9 DEF vars
<1> QED BY <1>2, <1>3, <1>6, <1>7, <1>8, <1>9 DEF Next

\* Once the timeout thread has a pid, it kills only a child that has been
\* overdue, however its readings interleave with the monitor
\* (tracer.cpp:92-105).
THEOREM TimerKillsOnlyLate ==
  ASSUME "other" \notin Signals
  PROVE  Spec => KillsOnlyLate
<1>1. Init => TimerInv
  BY TracerAssumption DEF Init, TimerInv, Working
<1>2. TypeInv /\ OrderInv /\ TimerInv /\ [Next]_vars => TimerInv'
  BY NextTimer
<1>3. TypeInv /\ TimerInv /\ [Next]_vars
        => [TimerKill /\ timerPid # 0
              => \A n \in Children : proc'[n] # proc[n] => n \in late]_vars
  BY DEF TimerKill, KilledBy, TimerInv, TypeInv, TypeOK
<1> QED BY <1>1, <1>2, <1>3, OrderHolds, PTL DEF Spec, KillsOnlyLate
=============================================================================
