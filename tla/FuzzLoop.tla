------------------------------ MODULE FuzzLoop ------------------------------
(***************************************************************************)
(* The fuzzing processes of a campaign as far as coverage and corpus meet: *)
(* FuzzLoop of libresmack_fuzz_main/src/main.cpp and DirectTarget::Launch, *)
(* over the shared coverage and the corpus as FeedbackCorpus specifies it  *)
(* while it is not spoiled (MmapCorpus implements that specification).     *)
(***************************************************************************)
EXTENDS Coverage, Sequences

CONSTANTS
  MaxLaunches,   \* bound: runs of the target
  MaxInvalid,    \* bound: runs that the target calls invalid
  MaxCrashes,    \* bound: runs that end in a fatal signal
  MaxKills       \* bound: processes that get a SIGKILL

ASSUME FuzzLoopAssumption ==
  {MaxLaunches, MaxInvalid, MaxCrashes, MaxKills} \subseteq Nat

VARIABLES
  at,        \* the place of a process in FuzzLoop
  report,    \* its feedback_stats.key and stats.valid
  corpus,    \* feedback keys of the shared corpus
  nLaunches, nInvalid, nCrashes, nKills

loopVars == <<at, report, corpus>>
counts   == <<nLaunches, nInvalid, nCrashes, nKills>>
vars     == <<covVars, loopVars, counts>>

Known == INSTANCE FeedbackCorpus WITH Keys <- SUBSET Edges, spoiled <- FALSE

NoReport == [key |-> {}, valid |-> FALSE]

Init ==
  /\ CovInit
  /\ at = [p \in Procs |-> "dead"]
  /\ report = [p \in Procs |-> NoReport]
  /\ corpus = <<>>
  /\ nLaunches = 0 /\ nInvalid = 0 /\ nCrashes = 0 /\ nKills = 0

\* A process goes on when its call of Sync has returned.
Returned(p) == sync[p].at = "out"

-----------------------------------------------------------------------------

\* A monitor forks a fuzzing process, which begins with feedback->Sync.
Fork(p) ==
  /\ at[p] = "dead"
  /\ CovFork(p)
  /\ at' = [at EXCEPT ![p] = "top"]
  /\ UNCHANGED <<report, corpus, counts>>

\* An iteration up to the end of LLVMFuzzerTestOneInput.
Launch(p, E, v) ==
  /\ at[p] = "top" /\ Returned(p) /\ nLaunches < MaxLaunches
  /\ v \/ nInvalid < MaxInvalid
  /\ nLaunches' = nLaunches + 1
  /\ nInvalid' = IF v THEN nInvalid ELSE nInvalid + 1
  /\ Trace(p, E)
  /\ at' = [at EXCEPT ![p] = "target"]
  /\ report' = [report EXCEPT ![p].valid = v]
  /\ UNCHANGED <<corpus, nCrashes, nKills>>

\* The end of DirectTarget::Launch.
Stop(p) ==
  /\ at[p] = "target"
  /\ FPOStop(p)
  /\ at' = [at EXCEPT ![p] = "launched"]
  /\ UNCHANGED <<report, corpus, counts>>

\* GetStats; with new coverage a second Sync follows.
TakeStats(p) ==
  /\ at[p] = "launched" /\ Returned(p)
  /\ report' = [report EXCEPT ![p].key = fpo[p].hash]
  /\ IF fpo[p].sawNew
     THEN SyncCall(p) /\ at' = [at EXCEPT ![p] = "report"]
     ELSE UNCHANGED sync /\ at' = [at EXCEPT ![p] = "top"]
  /\ UNCHANGED <<shared, syncLock, fpo, corpus, counts>>

\* AddRandSnapshotIfNotSeen, for valid runs.
Report(p) ==
  /\ at[p] = "report" /\ Returned(p)
  /\ corpus' = IF report[p].valid /\ report[p].key \notin Known!KnownKeys
               THEN Append(corpus, report[p].key)
               ELSE corpus
  /\ at' = [at EXCEPT ![p] = "top"]
  /\ UNCHANGED <<covVars, report, counts>>

\* PrintStatus of the main process begins with feedback->Sync.
PrintStatus ==
  /\ Returned(Main)
  /\ SyncCall(Main)
  /\ UNCHANGED <<shared, syncLock, fpo, loopVars, counts>>

Gone(p) ==
  /\ CovGone(p)
  /\ at' = [at EXCEPT ![p] = "dead"]
  /\ report' = [report EXCEPT ![p] = NoReport]
  /\ UNCHANGED <<corpus, nLaunches, nInvalid>>

\* The target crashes: what it has hit was private and is gone.
Crash(p) ==
  /\ at[p] = "target" /\ nCrashes < MaxCrashes
  /\ nCrashes' = nCrashes + 1
  /\ Gone(p)
  /\ UNCHANGED nKills

Kill(p) ==
  /\ at[p] # "dead" /\ nKills < MaxKills
  /\ nKills' = nKills + 1
  /\ Gone(p)
  /\ UNCHANGED nCrashes

-----------------------------------------------------------------------------

ProcStep(p) ==
  \/ Fork(p) \/ Stop(p) \/ TakeStats(p) \/ Report(p)
  \/ \E E \in SUBSET Edges, v \in BOOLEAN : Launch(p, E, v)

InSync(p) == SyncStep(p) /\ UNCHANGED <<loopVars, counts>>

Next ==
  \/ \E p \in Procs : ProcStep(p) \/ Crash(p) \/ Kill(p)
  \/ \E p \in All : InSync(p)
  \/ PrintStatus

Spec == Init /\ [][Next]_vars

\* Processes that can run are scheduled; sem_wait does not pass over the same
\* waiter for ever.  Nothing makes the timer fire, a run crash or
\* the status line come.
Fairness ==
  /\ \A p \in Procs : WF_vars(ProcStep(p))
  /\ \A p \in All : WF_vars(InSync(p)) /\ SF_vars(SyncLock(p) /\ UNCHANGED <<loopVars, counts>>)

FairSpec == Spec /\ Fairness

-----------------------------------------------------------------------------
(* Properties.                                                             *)

TypeOK ==
  /\ CovTypeOK
  /\ at \in [Procs -> {"dead", "top", "target", "launched", "report"}]
  /\ report \in [Procs -> [key: SUBSET Edges, valid: BOOLEAN]]
  /\ corpus \in Seq(SUBSET Edges)

\* When a process takes the statistics of a run, every edge of the run is shared
\* (FPOStop before GetStats): nobody reports coverage that can still get lost.
ReportedIsShared ==
  \A p \in Procs :
    (at[p] = "launched" /\ Returned(p)) \/ at[p] = "report" => fpo[p].flags \subseteq shared.flags

\* As long as all runs have been valid and nothing was killed: when no process is between
\* a run and its report, the keys in the corpus speak of every shared edge, although
\* processes that meet the same edge at the same time report each other's coverage.
CorpusSpeaksOfAll ==
  (nKills = 0 /\ nInvalid = 0 /\ \A p \in Procs : at[p] \in {"dead", "top"})
  => UNION Known!KnownKeys = shared.flags

\* Without kills, an edge that a run hit gets shared, unless the run crashes:
\* no process waits for ever on the semaphore of Sync.
HitsAreShared ==
  \A p \in Procs, e \in Edges :
    (at[p] = "target" /\ e \in fpo[p].flags)
      ~> (e \in shared.flags \/ at[p] = "dead" \/ nKills > 0)
=============================================================================
