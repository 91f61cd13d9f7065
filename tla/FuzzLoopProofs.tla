--------------------------- MODULE FuzzLoopProofs ---------------------------
(***************************************************************************)
(* What holds of the shared coverage for any number of processes and       *)
(* edges, and any number of crashes and kills.                             *)
(***************************************************************************)
EXTENDS FuzzLoop, TLAPS

Merging(p) == sync[p].at = "merge"

\* The semaphore, and what a merge in progress has established: the flags before
\* the cursor agree, and the shared hash is only behind by flags of its own.
SyncInv ==
  /\ CovTypeOK
  /\ \A p \in All : Merging(p) => syncLock = 0 /\ \A q \in All : Merging(q) => q = p
  /\ SharedHashMatches
  /\ \A p \in All : Merging(p) =>
       /\ ~sync[p].we => shared.hash = shared.flags
       /\ \A e \in Edges : e < sync[p].next => (e \in fpo[p].flags <=> e \in shared.flags)

AtType == at \in [Procs -> {"dead", "top", "target", "launched", "report"}]

\* Which private flags are known to be shared: all of them, except between a run
\* that saw a new edge and the end of the Sync that follows it.
SharedInv ==
  /\ AtType
  /\ HashIsKnown
  /\ fpo[Main].flags \subseteq shared.flags
  /\ \A p \in Procs :
       /\ at[p] \in {"dead", "top", "report"} => fpo[p].flags \subseteq shared.flags
       /\ at[p] = "target" => Returned(p) /\ (~fpo[p].sawNew => fpo[p].flags \subseteq shared.flags)
       /\ at[p] = "launched" /\ Returned(p) => fpo[p].flags \subseteq shared.flags

Inv == SyncInv /\ SharedInv

LEMMA InvInit == Init => Inv
<1> SUFFICES ASSUME Init PROVE Inv
  OBVIOUS
<1> USE CoverageAssumption
<1>1. 1 \in 1..(NumFlags + 1)
  OBVIOUS
<1>2. SyncInv
  BY <1>1 DEF Init, CovInit, SyncInv, CovTypeOK, Merging, SharedHashMatches, Hash, Outside, Place
<1>3. SharedInv
  BY DEF Init, CovInit, SharedInv, AtType, HashIsKnown, Outside, Place, Returned, All
<1>4. QED
  BY <1>2, <1>3 DEF Inv

-----------------------------------------------------------------------------
(* The steps of Sync.                                                      *)

LEMMA LockKeeps ==
  ASSUME Inv, NEW p \in All, SyncLock(p), UNCHANGED <<loopVars, counts>>
  PROVE  Inv'
<1> USE CoverageAssumption DEF All
<1>1. /\ sync' = [sync EXCEPT ![p] = [at |-> "merge", next |-> 1, we |-> FALSE, they |-> FALSE]]
      /\ syncLock = 1 /\ syncLock' = 0 /\ UNCHANGED <<shared, fpo, at>> /\ ~Returned(p)
  <2>1. syncLock \in {0, 1}
    BY DEF Inv, SyncInv, CovTypeOK
  <2>2. QED
    BY <2>1 DEF SyncLock, Place, loopVars, Returned
<1>2. SyncInv'
  <2>1. CovTypeOK'
    BY <1>1 DEF Inv, SyncInv, CovTypeOK
  <2>2. \A q \in All : Merging(q)' => q = p
    BY <1>1 DEF Inv, SyncInv, CovTypeOK, Merging
  <2>3. \A e \in Edges : ~(e < 1)
    BY DEF Edges
  <2>4. QED
    BY <1>1, <2>1, <2>2, <2>3 DEF Inv, SyncInv, CovTypeOK, Merging, SharedHashMatches, Hash
<1>3. \A q \in All : Returned(q)' => Returned(q)
  BY <1>1 DEF Inv, SyncInv, CovTypeOK, Returned
<1>4. \A q \in Procs : Returned(q) => Returned(q)'
  BY <1>1 DEF Inv, SyncInv, CovTypeOK, Returned
<1>5. SharedInv'
  BY <1>1, <1>3, <1>4 DEF Inv, SharedInv, AtType, HashIsKnown
<1>6. QED
  BY <1>2, <1>5 DEF Inv

LEMMA MergeKeeps ==
  ASSUME Inv, NEW p \in All, MergeFlag(p), UNCHANGED <<loopVars, counts>>
  PROVE  Inv'
<1> USE CoverageAssumption
<1> DEFINE e == sync[p].next  ours == e \in fpo[p].flags  theirs == e \in shared.flags
<1>1. /\ Merging(p) /\ e \in Edges /\ e \in Nat /\ UNCHANGED <<at, syncLock>>
      /\ fpo[p].flags \subseteq Edges /\ shared.flags \subseteq Edges
      /\ Main \in All /\ Procs \subseteq All
  BY DEF MergeFlag, Merging, Edges, Inv, SyncInv, CovTypeOK, loopVars, All
<1>2. /\ fpo' = [fpo EXCEPT ![p].flags = IF theirs THEN @ \cup {e} ELSE @]
      /\ shared' = [shared EXCEPT !.flags = IF ours THEN @ \cup {e} ELSE @]
      /\ sync' = [sync EXCEPT ![p].next = e + 1,
                              ![p].we = @ \/ (ours /\ ~theirs),
                              ![p].they = @ \/ (theirs /\ ~ours)]
  BY DEF MergeFlag
<1> HIDE DEF ours, theirs, e
<1>3. /\ CovTypeOK /\ ours \in BOOLEAN /\ theirs \in BOOLEAN
  BY DEF Inv, SyncInv, ours, theirs
<1>4. /\ fpo'[p].flags = (IF theirs THEN fpo[p].flags \cup {e} ELSE fpo[p].flags)
      /\ fpo'[p].hash = fpo[p].hash /\ fpo'[p].sawNew = fpo[p].sawNew
      /\ \A q \in All : q # p => fpo'[q] = fpo[q]
  BY <1>2, <1>3 DEF CovTypeOK
<1>5. /\ shared'.flags = (IF ours THEN shared.flags \cup {e} ELSE shared.flags)
      /\ shared'.hash = shared.hash
  BY <1>2, <1>3 DEF CovTypeOK
<1>6. /\ sync'[p].at = "merge" /\ sync'[p].next = e + 1
      /\ sync'[p].we = (sync[p].we \/ (ours /\ ~theirs))
      /\ \A q \in All : q # p => sync'[q] = sync[q]
  BY <1>1, <1>2, <1>3 DEF CovTypeOK, Merging
<1>7. CovTypeOK'
  <2>1. shared' \in [flags: SUBSET Edges, hash: SUBSET Edges]
    BY <1>1, <1>2, <1>3, <1>5 DEF CovTypeOK
  <2>2. fpo' \in [All -> [flags: SUBSET Edges, hash: SUBSET Edges, sawNew: BOOLEAN]]
    BY <1>1, <1>2, <1>3 DEF CovTypeOK
  <2>3. e + 1 \in 1..(NumFlags + 1)
    BY <1>1 DEF Edges
  <2>4. sync' \in [All -> [at: {"out", "wait", "merge"}, next: 1..(NumFlags + 1),
                           we: BOOLEAN, they: BOOLEAN]]
    <3> DEFINE w == sync[p].we \/ (ours /\ ~theirs)  t == sync[p].they \/ (theirs /\ ~ours)
    <3>1. w \in BOOLEAN /\ t \in BOOLEAN
      BY <1>3 DEF CovTypeOK
    <3>2. sync' = [sync EXCEPT ![p].next = e + 1, ![p].we = w, ![p].they = t]
      BY <1>2
    <3> HIDE DEF w, t
    <3> DEFINE T == [All -> [at: {"out", "wait", "merge"}, next: 1..(NumFlags + 1),
                             we: BOOLEAN, they: BOOLEAN]]
               moved == [sync EXCEPT ![p].next = e + 1]
               ahead == [moved EXCEPT ![p].we = w]
    <3>3. moved \in T
      BY <1>3, <2>3 DEF CovTypeOK
    <3>4. ahead \in T
      <4> HIDE DEF moved
      <4> QED
        BY <3>1, <3>3
    <3>5. sync' = [ahead EXCEPT ![p].they = t]
      BY <3>2
    <3> HIDE DEF ahead
    <3>6. QED
      BY <3>1, <3>4, <3>5
  <2>5. QED
    BY <1>1, <1>3, <2>1, <2>2, <2>4 DEF CovTypeOK
<1>8. \A q \in All : Merging(q) <=> Merging(q)'
  BY <1>1, <1>6 DEF Merging
<1>9. syncLock = 0 /\ \A q \in All : Merging(q) => q = p
  BY <1>1 DEF Inv, SyncInv
<1>10. ASSUME ~sync'[p].we PROVE shared'.hash = shared'.flags
  <2>1. ~sync[p].we /\ (ours => theirs)
    BY <1>3, <1>6, <1>10
  <2>2. shared.hash = shared.flags
    BY <1>1, <2>1 DEF Inv, SyncInv
  <2>3. QED
    BY <1>5, <2>1, <2>2 DEF theirs
<1>11. ASSUME NEW f \in Edges, f < e + 1 PROVE f \in fpo'[p].flags <=> f \in shared'.flags
  <2>1. f = e \/ f < e
    BY <1>1, <1>11 DEF Edges
  <2>2. CASE f = e
    BY <1>4, <1>5, <2>2 DEF ours, theirs
  <2>3. CASE f < e /\ f # e
    <3>1. f \in fpo[p].flags <=> f \in shared.flags
      BY <1>1, <2>3 DEF Inv, SyncInv, e
    <3>2. QED
      BY <1>4, <1>5, <2>3, <3>1
  <2>4. QED
    BY <1>1, <2>1, <2>2, <2>3 DEF Edges
<1>12. SyncInv'
  <2>1. ASSUME NEW q \in All, Merging(q)'
        PROVE  /\ syncLock' = 0 /\ \A r \in All : Merging(r)' => r = q
               /\ ~sync'[q].we => shared'.hash = shared'.flags
               /\ \A f \in Edges : f < sync'[q].next => (f \in fpo'[q].flags <=> f \in shared'.flags)
    <3>1. q = p /\ \A r \in All : Merging(r)' => r = p
      BY <1>8, <1>9, <2>1
    <3>2. syncLock' = 0
      BY <1>1, <1>9
    <3>3. QED
      BY <1>6, <1>10, <1>11, <3>1, <3>2
  <2>2. SharedHashMatches'
    BY <1>1, <1>9 DEF SharedHashMatches
  <2>3. QED
    BY <1>7, <2>1, <2>2 DEF SyncInv
<1>13. /\ shared.flags \subseteq shared'.flags
       /\ \A q \in All : fpo[q].flags \subseteq shared.flags => fpo'[q].flags \subseteq shared'.flags
  BY <1>4, <1>5 DEF theirs
<1>14. \A q \in All : Returned(q)' <=> Returned(q)
  BY <1>1, <1>6 DEF Returned, Merging
<1>15. HashIsKnown'
  BY <1>4 DEF Inv, SharedInv, HashIsKnown
<1>16. \A q \in Procs : at'[q] = "target" => q # p
  BY <1>1 DEF Inv, SharedInv, Returned, Merging
<1>17. \A q \in Procs :
         at'[q] = "target" => Returned(q)' /\ (~fpo'[q].sawNew => fpo'[q].flags \subseteq shared'.flags)
  BY <1>1, <1>4, <1>13, <1>14, <1>16 DEF Inv, SharedInv
<1>18. SharedInv'
  BY <1>1, <1>13, <1>14, <1>15, <1>17 DEF Inv, SharedInv, AtType
<1>19. QED
  BY <1>12, <1>18 DEF Inv

LEMMA EndKeeps ==
  ASSUME Inv, NEW p \in All, SyncEnd(p), UNCHANGED <<loopVars, counts>>
  PROVE  Inv'
<1> USE CoverageAssumption
<1>1. /\ Merging(p) /\ syncLock = 0 /\ UNCHANGED at /\ CovTypeOK
      /\ \A q \in All : Merging(q) => q = p
      /\ Main \in All /\ Procs \subseteq All
  BY DEF SyncEnd, Merging, Inv, SyncInv, loopVars, All
<1>2. fpo[p].flags = shared.flags
  <2>1. \A e \in Edges : e < sync[p].next
    BY <1>1 DEF SyncEnd, Edges, CovTypeOK
  <2>2. QED
    BY <1>1, <2>1 DEF Inv, SyncInv, CovTypeOK
<1>3. /\ syncLock' = 1
      /\ sync'[p] = [at |-> "out", next |-> 1, we |-> FALSE, they |-> FALSE]
      /\ \A q \in All : q # p => sync'[q] = sync[q]
  BY <1>1 DEF SyncEnd, Outside, Place, CovTypeOK
<1>4. /\ shared'.flags = shared.flags /\ shared'.hash = shared.flags
      /\ \A q \in All : fpo'[q].flags = fpo[q].flags /\ fpo'[q].sawNew = fpo[q].sawNew
      /\ \A q \in All : fpo'[q].hash = fpo[q].hash \/ fpo'[q].hash = fpo[q].flags
  <2>1. CASE sync[p].we \/ sync[p].they
    BY <1>1, <1>2, <2>1 DEF SyncEnd, Hash, CovTypeOK
  <2>2. CASE ~(sync[p].we \/ sync[p].they)
    <3>1. shared.hash = shared.flags
      BY <1>1, <2>2 DEF Inv, SyncInv
    <3>2. QED
      BY <2>2, <3>1 DEF SyncEnd
  <2>3. QED
    BY <2>1, <2>2
<1>5. CovTypeOK'
  <2>1. 1 \in 1..(NumFlags + 1)
    OBVIOUS
  <2>2. sync' \in [All -> [at: {"out", "wait", "merge"}, next: 1..(NumFlags + 1),
                           we: BOOLEAN, they: BOOLEAN]]
    BY <1>1, <2>1 DEF SyncEnd, Outside, Place, CovTypeOK
  <2>3. shared' \in [flags: SUBSET Edges, hash: SUBSET Edges]
    BY <1>1 DEF SyncEnd, Hash, CovTypeOK
  <2>4. fpo' \in [All -> [flags: SUBSET Edges, hash: SUBSET Edges, sawNew: BOOLEAN]]
    <3>1. CASE fpo' = fpo
      BY <1>1, <3>1 DEF CovTypeOK
    <3>2. CASE fpo' = [fpo EXCEPT ![p].hash = fpo[p].flags]
      BY <1>1, <3>2 DEF CovTypeOK
    <3>3. QED
      BY <3>1, <3>2 DEF SyncEnd, Hash
  <2>5. QED
    BY <1>3, <2>2, <2>3, <2>4 DEF CovTypeOK
<1>6. \A q \in All : ~Merging(q)'
  BY <1>1, <1>3 DEF Merging
<1>7. SyncInv'
  BY <1>4, <1>5, <1>6 DEF SyncInv, SharedHashMatches, Hash
<1>8. HashIsKnown'
  BY <1>4 DEF Inv, SharedInv, HashIsKnown
<1>9. \A q \in All : Returned(q) => Returned(q)'
  BY <1>3 DEF Returned
<1>10. \A q \in All : Returned(q)' => Returned(q) \/ q = p
  BY <1>3 DEF Returned
<1>11. \A q \in Procs : at[q] = "target" => Returned(q)'
  BY <1>1, <1>9 DEF Inv, SharedInv
<1>12. SharedInv'
  BY <1>1, <1>2, <1>4, <1>8, <1>10, <1>11 DEF Inv, SharedInv, AtType
<1>13. QED
  BY <1>7, <1>12 DEF Inv

-----------------------------------------------------------------------------
(* The steps of FuzzLoop.                                                  *)

\* A step that leaves the shared data alone and enters no merge.
LEMMA PrivateKeeps ==
  ASSUME Inv, CovTypeOK', UNCHANGED <<shared, syncLock>>,
         \A q \in All : Merging(q)' => Merging(q) /\ sync'[q] = sync[q] /\ fpo'[q] = fpo[q]
  PROVE  SyncInv'
BY DEF Inv, SyncInv, Merging, SharedHashMatches

LEMMA ProcKeeps ==
  ASSUME Inv, NEW p \in Procs, ProcStep(p) \/ Crash(p) \/ Kill(p)
  PROVE  Inv'
<1> USE CoverageAssumption
<1>0. /\ CovTypeOK /\ AtType /\ p \in All /\ p # Main /\ Main \in All /\ Procs \subseteq All
      /\ 1 \in 1..(NumFlags + 1)
  BY DEF Inv, SyncInv, SharedInv, All
<1>1. CASE Fork(p)
  <2>1. /\ fpo' = [fpo EXCEPT ![p] = fpo[Main]] /\ sync' = [sync EXCEPT ![p].at = "wait"]
        /\ at' = [at EXCEPT ![p] = "top"] /\ UNCHANGED <<shared, syncLock>>
    BY <1>1 DEF Fork, CovFork, SyncCall
  <2>2. CovTypeOK'
    BY <1>0, <2>1 DEF CovTypeOK
  <2>3. SyncInv'
    BY <1>0, <2>1, <2>2, PrivateKeeps DEF CovTypeOK, Merging
  <2>4. SharedInv'
    BY <1>0, <2>1 DEF Inv, SharedInv, AtType, HashIsKnown, CovTypeOK, Returned
  <2>5. QED
    BY <2>3, <2>4 DEF Inv
<1>2. ASSUME NEW E \in SUBSET Edges, NEW v \in BOOLEAN, Launch(p, E, v) PROVE Inv'
  <2>1. /\ fpo' = [fpo EXCEPT ![p].flags = @ \cup E,
                              ![p].sawNew = \E e \in E : e \notin fpo[p].flags]
        /\ at' = [at EXCEPT ![p] = "target"] /\ UNCHANGED <<shared, syncLock, sync>>
        /\ at[p] = "top" /\ Returned(p)
    BY <1>2 DEF Launch, Trace
  <2> DEFINE new == \E e \in E : e \notin fpo[p].flags
  <2>2. /\ fpo'[p].flags = fpo[p].flags \cup E /\ fpo'[p].hash = fpo[p].hash
        /\ fpo'[p].sawNew = new
        /\ \A q \in All : q # p => fpo'[q] = fpo[q]
    BY <1>0, <2>1 DEF CovTypeOK
  <2>3. fpo' \in [All -> [flags: SUBSET Edges, hash: SUBSET Edges, sawNew: BOOLEAN]]
    <3>1. new \in BOOLEAN
      OBVIOUS
    <3>2. fpo' = [fpo EXCEPT ![p].flags = @ \cup E, ![p].sawNew = new]
      BY <2>1
    <3> HIDE DEF new
    <3> DEFINE traced == [fpo EXCEPT ![p].flags = @ \cup E]
    <3>3. traced \in [All -> [flags: SUBSET Edges, hash: SUBSET Edges, sawNew: BOOLEAN]]
      BY <1>0, <1>2 DEF CovTypeOK
    <3>4. fpo' = [traced EXCEPT ![p].sawNew = new]
      BY <3>2
    <3> HIDE DEF traced
    <3>5. QED
      BY <1>0, <3>1, <3>3, <3>4
  <2>4. SyncInv'
    <3>1. CovTypeOK'
      BY <1>0, <2>1, <2>3 DEF CovTypeOK
    <3>2. ~Merging(p)
      BY <2>1 DEF Returned, Merging
    <3>3. QED
      BY <2>1, <2>2, <3>1, <3>2, PrivateKeeps DEF Merging
  <2>5. HashIsKnown'
    BY <1>0, <2>2 DEF Inv, SharedInv, HashIsKnown
  <2>6. \A q \in All : Returned(q)' <=> Returned(q)
    BY <2>1 DEF Returned
  <2>7. fpo[p].flags \subseteq shared.flags
    BY <1>0, <2>1 DEF Inv, SharedInv
  <2>8. ~fpo'[p].sawNew => fpo'[p].flags \subseteq shared'.flags
    BY <2>1, <2>2, <2>7
  <2>9. SharedInv'
    BY <1>0, <2>1, <2>2, <2>5, <2>6, <2>8 DEF Inv, SharedInv, AtType
  <2>10. QED
    BY <2>4, <2>9 DEF Inv
<1>3. CASE Stop(p)
  <2>1. /\ at[p] = "target" /\ at' = [at EXCEPT ![p] = "launched"]
        /\ UNCHANGED <<shared, syncLock, fpo>>
        /\ \/ sync' = [sync EXCEPT ![p].at = "wait"]
           \/ sync' = sync /\ ~fpo[p].sawNew
    BY <1>3 DEF Stop, FPOStop, SyncCall
  <2>2. CovTypeOK'
    BY <1>0, <2>1 DEF CovTypeOK
  <2>3. SyncInv'
    BY <1>0, <2>1, <2>2, PrivateKeeps DEF CovTypeOK, Merging
  <2>4. SharedInv'
    BY <1>0, <2>1 DEF Inv, SharedInv, AtType, HashIsKnown, CovTypeOK, Returned
  <2>5. QED
    BY <2>3, <2>4 DEF Inv
<1>4. CASE TakeStats(p)
  <2>1. /\ at[p] = "launched" /\ Returned(p) /\ UNCHANGED <<shared, syncLock, fpo>>
        /\ \/ sync' = [sync EXCEPT ![p].at = "wait"] /\ at' = [at EXCEPT ![p] = "report"]
           \/ sync' = sync /\ at' = [at EXCEPT ![p] = "top"]
    BY <1>4 DEF TakeStats, SyncCall
  <2>2. CovTypeOK'
    BY <1>0, <2>1 DEF CovTypeOK
  <2>3. SyncInv'
    BY <1>0, <2>1, <2>2, PrivateKeeps DEF CovTypeOK, Merging
  <2>4. SharedInv'
    BY <1>0, <2>1 DEF Inv, SharedInv, AtType, HashIsKnown, CovTypeOK, Returned
  <2>5. QED
    BY <2>3, <2>4 DEF Inv
<1>5. CASE Report(p)
  <2>1. /\ at[p] = "report" /\ at' = [at EXCEPT ![p] = "top"] /\ UNCHANGED covVars
    BY <1>5 DEF Report
  <2>2. SyncInv'
    BY <1>0, <2>1, PrivateKeeps DEF covVars, CovTypeOK, Merging
  <2>3. SharedInv'
    BY <1>0, <2>1 DEF covVars, Inv, SharedInv, AtType, HashIsKnown, Returned
  <2>4. QED
    BY <2>2, <2>3 DEF Inv
<1>6. CASE Crash(p) \/ Kill(p)
  <2>1. /\ fpo' = [fpo EXCEPT ![p] = [flags |-> {}, hash |-> {}, sawNew |-> FALSE]]
        /\ sync' = [sync EXCEPT ![p] = [at |-> "out", next |-> 1, we |-> FALSE, they |-> FALSE]]
        /\ at' = [at EXCEPT ![p] = "dead"] /\ UNCHANGED <<shared, syncLock>>
    BY <1>6 DEF Crash, Kill, Gone, CovGone, Outside, Place
  <2>2. CovTypeOK'
    BY <1>0, <2>1 DEF CovTypeOK
  <2>3. SyncInv'
    BY <1>0, <2>1, <2>2, PrivateKeeps DEF CovTypeOK, Merging
  <2>4. SharedInv'
    BY <1>0, <2>1 DEF Inv, SharedInv, AtType, HashIsKnown, CovTypeOK, Returned
  <2>5. QED
    BY <2>3, <2>4 DEF Inv
<1>7. QED
  BY <1>1, <1>2, <1>3, <1>4, <1>5, <1>6 DEF ProcStep

LEMMA PrintKeeps ==
  ASSUME Inv, PrintStatus
  PROVE  Inv'
<1>1. /\ sync' = [sync EXCEPT ![Main].at = "wait"] /\ UNCHANGED <<shared, syncLock, fpo, at>>
      /\ CovTypeOK /\ Main \in All /\ Main \notin Procs /\ Procs \subseteq All
  BY CoverageAssumption DEF PrintStatus, SyncCall, loopVars, Inv, SyncInv, All
<1>2. CovTypeOK'
  BY <1>1 DEF CovTypeOK
<1>3. SyncInv'
  BY <1>1, <1>2, PrivateKeeps DEF CovTypeOK, Merging
<1>4. SharedInv'
  BY <1>1 DEF Inv, SharedInv, AtType, HashIsKnown, CovTypeOK, Returned
<1>5. QED
  BY <1>3, <1>4 DEF Inv

LEMMA InvStep == Inv /\ [Next]_vars => Inv'
<1> SUFFICES ASSUME Inv, [Next]_vars PROVE Inv'
  OBVIOUS
<1>1. ASSUME NEW p \in All, InSync(p) PROVE Inv'
  BY <1>1, LockKeeps, MergeKeeps, EndKeeps DEF InSync, SyncStep
<1>2. CASE UNCHANGED vars
  BY <1>2 DEF vars, covVars, loopVars, Inv, SyncInv, CovTypeOK, Merging, SharedHashMatches,
              SharedInv, AtType, HashIsKnown, Returned
<1>3. QED
  BY <1>1, <1>2, ProcKeeps, PrintKeeps DEF Next

LEMMA InvImplies == Inv => SharedHashMatches /\ HashIsKnown /\ StaleIsNoticed /\ ReportedIsShared
BY DEF Inv, SyncInv, SharedInv, SharedHashMatches, HashIsKnown, Hash, StaleIsNoticed, ReportedIsShared

-----------------------------------------------------------------------------
(* The variables that only FuzzLoop has.                                   *)

LoopTypes ==
  /\ report \in [Procs -> [key: SUBSET Edges, valid: BOOLEAN]]
  /\ corpus \in Seq(SUBSET Edges)

LEMMA LoopTypesInit == Init => LoopTypes
BY DEF Init, LoopTypes, NoReport

LEMMA LoopTypesStep == Inv /\ LoopTypes /\ [Next]_vars => LoopTypes'
<1> SUFFICES ASSUME Inv, LoopTypes, [Next]_vars PROVE LoopTypes'
  OBVIOUS
<1>1. ASSUME NEW p \in Procs, \E E \in SUBSET Edges, v \in BOOLEAN : Launch(p, E, v)
      PROVE  LoopTypes'
  <2>1. PICK v \in BOOLEAN : report' = [report EXCEPT ![p].valid = v] /\ UNCHANGED corpus
    BY <1>1 DEF Launch
  <2>2. QED
    BY <2>1 DEF LoopTypes
<1>2. ASSUME NEW p \in Procs, TakeStats(p) PROVE LoopTypes'
  <2>1. fpo[p].hash \in SUBSET Edges
    BY DEF Inv, SyncInv, CovTypeOK, All
  <2>2. report' = [report EXCEPT ![p].key = fpo[p].hash] /\ UNCHANGED corpus
    BY <1>2 DEF TakeStats
  <2>3. QED
    BY <2>1, <2>2 DEF LoopTypes
<1>3. ASSUME NEW p \in Procs, Report(p) PROVE LoopTypes'
  <2>1. report[p].key \in SUBSET Edges
    BY DEF LoopTypes
  <2>2. UNCHANGED report /\ (corpus' = corpus \/ corpus' = Append(corpus, report[p].key))
    BY <1>3 DEF Report
  <2>3. corpus' \in Seq(SUBSET Edges)
    <3> DEFINE S == SUBSET Edges
    <3>1. corpus \in Seq(S) /\ report[p].key \in S
      BY <2>1 DEF LoopTypes
    <3> HIDE DEF S
    <3>2. corpus' \in Seq(S)
      BY <2>2, <3>1
    <3>3. QED
      BY <3>2 DEF S
  <2>4. QED
    BY <2>2, <2>3 DEF LoopTypes
<1>4. ASSUME NEW p \in Procs, Crash(p) \/ Kill(p) PROVE LoopTypes'
  <2>1. report' = [report EXCEPT ![p] = [key |-> {}, valid |-> FALSE]] /\ UNCHANGED corpus
    BY <1>4 DEF Crash, Kill, Gone, NoReport
  <2>2. {} \in SUBSET Edges
    OBVIOUS
  <2>3. QED
    BY <2>1, <2>2 DEF LoopTypes
<1>5. CASE UNCHANGED <<report, corpus>>
  BY <1>5 DEF LoopTypes
<1>6. ASSUME NEW p \in Procs, Fork(p) \/ Stop(p) PROVE LoopTypes'
  BY <1>5, <1>6 DEF Fork, Stop
<1>7. CASE PrintStatus \/ (\E p \in All : InSync(p)) \/ UNCHANGED vars
  BY <1>5, <1>7 DEF PrintStatus, InSync, loopVars, vars
<1>8. QED
  BY <1>1, <1>2, <1>3, <1>4, <1>6, <1>7 DEF Next, ProcStep

LEMMA TypeImplied == Inv /\ LoopTypes => TypeOK
BY DEF Inv, SyncInv, SharedInv, AtType, LoopTypes, TypeOK

-----------------------------------------------------------------------------
(* What the corpus says of the shared coverage.                            *)

Calm   == nKills = 0 /\ nInvalid = 0
Spoken == UNION Known!KnownKeys

\* Process p has made edge e shared, or knows from its hash that it is, and is
\* going to report it.
Owes(p, e) ==
  \/ /\ at[p] = "launched" /\ fpo[p].sawNew
     /\ \/ Merging(p) /\ sync[p].we /\ e \in fpo[p].flags
        \/ Returned(p) /\ e \in fpo[p].hash
  \/ at[p] = "report" /\ e \in report[p].key

\* Nothing is spoken of that is not shared; and while all is calm, of every
\* shared edge the corpus speaks, or a process is going to.
SpeaksInv ==
  /\ nKills \in Nat /\ nInvalid \in Nat
  /\ \A p \in Procs :
       /\ at[p] = "launched" /\ ~fpo[p].sawNew => fpo[p].flags \subseteq shared.flags
       /\ at[p] = "report" => report[p].key \subseteq shared.flags
       /\ Calm /\ at[p] \in {"target", "launched", "report"} => report[p].valid
  /\ Spoken \subseteq shared.flags
  /\ Calm => \A e \in shared.flags : e \in Spoken \/ \E p \in Procs : Owes(p, e)

LEMMA SpeaksInit == Init => SpeaksInv
<1> SUFFICES ASSUME Init PROVE SpeaksInv
  OBVIOUS
<1>1. shared.flags = {} /\ \A p \in Procs : at[p] = "dead"
  BY DEF Init, CovInit
<1>2. Spoken = {}
  BY DEF Init, Spoken, Known!KnownKeys
<1>3. QED
  BY <1>1, <1>2 DEF Init, SpeaksInv

\* A discovery adds its key to what the corpus speaks of.
LEMMA SpokenAppend ==
  ASSUME LoopTypes, NEW k \in SUBSET Edges, corpus' = Append(corpus, k)
  PROVE  Spoken' = Spoken \cup k
<1>1. Len(corpus) \in Nat /\ Len(corpus') = Len(corpus) + 1 /\ corpus'[Len(corpus) + 1] = k
      /\ \A i \in 1..Len(corpus) : corpus'[i] = corpus[i]
  <2> DEFINE S == SUBSET Edges
  <2>1. corpus \in Seq(S) /\ k \in S
    BY DEF LoopTypes
  <2> HIDE DEF S
  <2>2. QED
    BY <2>1
<1>2. Known!KnownKeys' = Known!KnownKeys \cup {k}
  <2>1. 1..Len(corpus') = 1..Len(corpus) \cup {Len(corpus) + 1}
    BY <1>1
  <2>2. QED
    BY <1>1, <2>1 DEF Known!KnownKeys
<1>3. QED
  BY <1>2 DEF Spoken

\* The steps of Sync.
LEMMA SyncSpeaks ==
  ASSUME Inv, Inv', SpeaksInv, NEW p \in All, InSync(p)
  PROVE  SpeaksInv'
<1>1. /\ UNCHANGED <<at, report, corpus, nKills, nInvalid>>
      /\ CovTypeOK /\ Main \in All /\ Procs \subseteq All
  BY DEF InSync, loopVars, counts, Inv, SyncInv, All
<1>2. Spoken' = Spoken /\ (Calm' <=> Calm)
  BY <1>1 DEF Spoken, Known!KnownKeys, Calm
<1>3. CASE SyncLock(p)
  <2>1. /\ sync' = [sync EXCEPT ![p] = [at |-> "merge", next |-> 1, we |-> FALSE, they |-> FALSE]]
        /\ UNCHANGED <<shared, fpo>> /\ sync[p].at = "wait"
    BY <1>3 DEF SyncLock, Place
  <2>2. ASSUME NEW q \in Procs, NEW e, Owes(q, e) PROVE Owes(q, e)'
    <3>1. at[q] = "launched" => q # p
      BY <2>1, <2>2 DEF Owes, Merging, Returned
    <3>2. q # p => sync'[q] = sync[q]
      BY <1>1, <2>1 DEF CovTypeOK
    <3>3. QED
      BY <1>1, <2>1, <2>2, <3>1, <3>2 DEF Owes, Merging, Returned
  <2>3. QED
    BY <1>1, <1>2, <2>1, <2>2 DEF SpeaksInv
<1>4. CASE MergeFlag(p)
  <2> DEFINE e == sync[p].next  ours == e \in fpo[p].flags  theirs == e \in shared.flags
  <2>1. /\ fpo' = [fpo EXCEPT ![p].flags = IF theirs THEN @ \cup {e} ELSE @]
        /\ shared' = [shared EXCEPT !.flags = IF ours THEN @ \cup {e} ELSE @]
        /\ sync' = [sync EXCEPT ![p].next = e + 1,
                                ![p].we = @ \/ (ours /\ ~theirs),
                                ![p].they = @ \/ (theirs /\ ~ours)]
        /\ Merging(p)
    BY <1>4 DEF MergeFlag, Merging
  <2> HIDE DEF ours, theirs, e
  <2>2. ours \in BOOLEAN /\ theirs \in BOOLEAN
    BY DEF ours, theirs
  <2>3. /\ fpo'[p].flags = (IF theirs THEN fpo[p].flags \cup {e} ELSE fpo[p].flags)
        /\ fpo'[p].hash = fpo[p].hash /\ fpo'[p].sawNew = fpo[p].sawNew
        /\ \A q \in All : q # p => fpo'[q] = fpo[q]
    BY <1>1, <2>1 DEF CovTypeOK
  <2>4. shared'.flags = (IF ours THEN shared.flags \cup {e} ELSE shared.flags)
    BY <1>1, <2>1 DEF CovTypeOK
  <2>5. /\ sync'[p].at = "merge" /\ sync'[p].we = (sync[p].we \/ (ours /\ ~theirs))
        /\ \A q \in All : q # p => sync'[q] = sync[q]
    BY <1>1, <2>1, <2>2 DEF CovTypeOK, Merging
  <2>14. (sync[p].we => sync'[p].we) /\ (ours /\ ~theirs => sync'[p].we)
         /\ fpo[p].flags \subseteq fpo'[p].flags
    BY <2>3, <2>5
  <2>6. ASSUME NEW q \in Procs, NEW f, Owes(q, f) PROVE Owes(q, f)'
    <3>1. CASE q = p
      <4>1. CASE at[p] = "report" /\ f \in report[p].key
        BY <1>1, <3>1, <4>1 DEF Owes
      <4>2. CASE at[p] = "launched" /\ fpo[p].sawNew /\ sync[p].we /\ f \in fpo[p].flags
        <5>1. Merging(p)' /\ fpo'[p].sawNew /\ f \in fpo'[p].flags
          BY <2>3, <2>5, <2>14, <4>2 DEF Merging
        <5>2. QED
          BY <1>1, <2>14, <3>1, <4>2, <5>1 DEF Owes
      <4>3. ~Returned(p)
        BY <2>1 DEF Merging, Returned
      <4>4. QED
        BY <2>6, <3>1, <4>1, <4>2, <4>3 DEF Owes
    <3>2. CASE q # p
      BY <1>1, <2>3, <2>5, <2>6, <3>2 DEF Owes, Merging, Returned
    <3>3. QED
      BY <3>1, <3>2
  <2>7. shared.flags \subseteq shared'.flags
        /\ \A q \in Procs : fpo[q].flags \subseteq shared.flags => fpo'[q].flags \subseteq shared'.flags
    BY <1>1, <2>3, <2>4 DEF theirs
  <2>8. ASSUME ours, ~theirs, NEW f, f = e PROVE p \in Procs /\ Owes(p, f)'
    <3>1. ~(fpo[p].flags \subseteq shared.flags)
      BY <2>8 DEF ours, theirs
    <3>2. p \in Procs /\ at[p] = "launched"
      BY <2>1, <3>1 DEF Inv, SharedInv, AtType, All, Returned, Merging
    <3>3. fpo[p].sawNew
      BY <3>1, <3>2 DEF SpeaksInv
    <3>4. f \in fpo'[p].flags
      BY <2>3, <2>8 DEF ours
    <3>5. Merging(p)' /\ sync'[p].we /\ fpo'[p].sawNew
      BY <2>3, <2>5, <2>14, <2>8, <3>3 DEF Merging
    <3>6. QED
      BY <1>1, <3>2, <3>4, <3>5 DEF Owes
  <2>9. ASSUME Calm', NEW f \in shared'.flags PROVE f \in Spoken' \/ \E q \in Procs : Owes(q, f)'
    <3>1. CASE f \in shared.flags
      BY <1>2, <2>6, <2>9, <3>1 DEF SpeaksInv
    <3>2. CASE f \notin shared.flags
      <4>1. ours /\ f = e /\ ~theirs
        BY <2>4, <2>9, <3>2 DEF theirs
      <4>2. QED
        BY <2>8, <4>1
    <3>3. QED
      BY <3>1, <3>2
  <2>10. \A q \in Procs : fpo'[q].sawNew <=> fpo[q].sawNew
    BY <1>1, <2>3
  <2>11. Spoken' \subseteq shared'.flags
    BY <1>2, <2>7 DEF SpeaksInv
  <2>12. \A q \in Procs :
           /\ at'[q] = "launched" /\ ~fpo'[q].sawNew => fpo'[q].flags \subseteq shared'.flags
           /\ at'[q] = "report" => report'[q].key \subseteq shared'.flags
           /\ Calm' /\ at'[q] \in {"target", "launched", "report"} => report'[q].valid
    BY <1>1, <1>2, <2>7, <2>10 DEF SpeaksInv
  <2>13. QED
    BY <1>1, <2>9, <2>11, <2>12 DEF SpeaksInv
<1>5. CASE SyncEnd(p)
  <2>1. /\ Merging(p) /\ shared'.flags = shared.flags
        /\ \A q \in All : fpo'[q].flags = fpo[q].flags /\ fpo'[q].sawNew = fpo[q].sawNew
        /\ \A q \in All : q # p => fpo'[q] = fpo[q] /\ sync'[q] = sync[q]
        /\ sync[p].we => fpo'[p].hash = fpo[p].flags
        /\ sync'[p].at = "out"
    <3>1. Merging(p) /\ sync'[p].at = "out" /\ \A q \in All : q # p => sync'[q] = sync[q]
      BY <1>1, <1>5 DEF SyncEnd, Merging, Outside, Place, CovTypeOK
    <3>2. CASE sync[p].we \/ sync[p].they
      BY <1>1, <1>5, <3>1, <3>2 DEF SyncEnd, Hash, CovTypeOK
    <3>3. CASE ~(sync[p].we \/ sync[p].they)
      BY <1>5, <3>1, <3>3 DEF SyncEnd
    <3>4. QED
      BY <3>2, <3>3
  <2>2. ASSUME NEW q \in Procs, NEW e, Owes(q, e) PROVE Owes(q, e)'
    <3>1. CASE q = p
      BY <1>1, <2>1, <2>2, <3>1 DEF Owes, Merging, Returned
    <3>2. CASE q # p
      BY <1>1, <2>1, <2>2, <3>2 DEF Owes, Merging, Returned
    <3>3. QED
      BY <3>1, <3>2
  <2>3. QED
    BY <1>1, <1>2, <2>1, <2>2 DEF SpeaksInv
<1>6. QED
  BY <1>3, <1>4, <1>5 DEF InSync, SyncStep

\* A step of process p that leaves the shared flags, the corpus and the other
\* processes alone, and takes no debt of p with it.
LEMMA OthersSpeak ==
  ASSUME Inv, SpeaksInv, NEW p \in Procs,
         UNCHANGED <<shared, corpus>>, nKills' \in Nat, nInvalid' \in Nat, Calm' => Calm,
         \A q \in Procs : q # p => /\ at'[q] = at[q] /\ fpo'[q] = fpo[q]
                                   /\ sync'[q] = sync[q] /\ report'[q] = report[q],
         at'[p] = "launched" /\ ~fpo'[p].sawNew => fpo'[p].flags \subseteq shared.flags,
         at'[p] = "report" => report'[p].key \subseteq shared.flags,
         Calm' /\ at'[p] \in {"target", "launched", "report"} => report'[p].valid,
         Calm' => \A e \in shared.flags : Owes(p, e) => Owes(p, e)'
  PROVE  SpeaksInv'
<1>1. Spoken' = Spoken
  BY DEF Spoken, Known!KnownKeys
<1>2. ASSUME NEW q \in Procs, q # p, NEW e, Owes(q, e) PROVE Owes(q, e)'
  BY <1>2 DEF Owes, Merging, Returned
<1>3. ASSUME Calm', NEW e \in shared'.flags PROVE e \in Spoken' \/ \E q \in Procs : Owes(q, e)'
  <2>1. e \in Spoken \/ \E q \in Procs : Owes(q, e)
    BY <1>3 DEF SpeaksInv
  <2>2. \A q \in Procs : Owes(q, e) => Owes(q, e)'
    BY <1>2, <1>3
  <2>3. QED
    BY <1>1, <2>1, <2>2
<1>4. \A q \in Procs :
        /\ at'[q] = "launched" /\ ~fpo'[q].sawNew => fpo'[q].flags \subseteq shared'.flags
        /\ at'[q] = "report" => report'[q].key \subseteq shared'.flags
        /\ Calm' /\ at'[q] \in {"target", "launched", "report"} => report'[q].valid
  BY DEF SpeaksInv
<1>5. QED
  BY <1>1, <1>3, <1>4 DEF SpeaksInv

LEMMA ProcSpeaks ==
  ASSUME Inv, Inv', LoopTypes, SpeaksInv, NEW p \in Procs, ProcStep(p) \/ Crash(p) \/ Kill(p)
  PROVE  SpeaksInv'
<1>0. /\ CovTypeOK /\ AtType /\ p \in All /\ p # Main /\ Procs \subseteq All
      /\ nKills \in Nat /\ nInvalid \in Nat
  BY CoverageAssumption DEF Inv, SyncInv, SharedInv, SpeaksInv, All
<1>1. CASE Fork(p)
  <2>1. /\ UNCHANGED <<shared, corpus, report, nKills, nInvalid>>
        /\ at[p] = "dead" /\ at'[p] = "top"
        /\ \A q \in Procs : q # p => at'[q] = at[q] /\ fpo'[q] = fpo[q] /\ sync'[q] = sync[q]
    BY <1>0, <1>1 DEF Fork, CovFork, SyncCall, counts, CovTypeOK, AtType
  <2>2. QED
    BY <1>0, <2>1, OthersSpeak DEF Calm, Owes
<1>2. ASSUME NEW E \in SUBSET Edges, NEW v \in BOOLEAN, Launch(p, E, v) PROVE SpeaksInv'
  <2>1. /\ UNCHANGED <<shared, corpus, nKills, sync>>
        /\ nInvalid' = IF v THEN nInvalid ELSE nInvalid + 1
        /\ at[p] = "top" /\ at'[p] = "target" /\ report'[p].valid = v
        /\ \A q \in Procs : q # p => at'[q] = at[q] /\ fpo'[q] = fpo[q] /\ report'[q] = report[q]
    BY <1>0, <1>2 DEF Launch, Trace, LoopTypes, CovTypeOK, AtType
  <2>2. Calm' => Calm /\ v
    BY <1>0, <2>1 DEF Calm
  <2>3. nKills' \in Nat /\ nInvalid' \in Nat
    BY <1>0, <2>1
  <2>4. QED
    BY <2>1, <2>2, <2>3, OthersSpeak DEF Owes
<1>3. CASE Stop(p)
  <2>1. /\ UNCHANGED <<shared, corpus, report, nKills, nInvalid, fpo>>
        /\ at[p] = "target" /\ at'[p] = "launched"
        /\ \A q \in Procs : q # p => at'[q] = at[q] /\ sync'[q] = sync[q]
    BY <1>0, <1>3 DEF Stop, FPOStop, SyncCall, counts, CovTypeOK, AtType
  <2>2. ~fpo'[p].sawNew => fpo'[p].flags \subseteq shared.flags
    BY <2>1 DEF Inv, SharedInv
  <2>3. Calm' => report'[p].valid
    BY <2>1 DEF SpeaksInv, Calm
  <2>4. QED
    BY <1>0, <2>1, <2>2, <2>3, OthersSpeak DEF Calm, Owes
<1>4. CASE TakeStats(p)
  <2>1. /\ UNCHANGED <<shared, corpus, nKills, nInvalid, fpo>>
        /\ at[p] = "launched" /\ Returned(p)
        /\ at'[p] = IF fpo[p].sawNew THEN "report" ELSE "top"
        /\ report'[p].key = fpo[p].hash /\ report'[p].valid = report[p].valid
        /\ \A q \in Procs : q # p => at'[q] = at[q] /\ sync'[q] = sync[q] /\ report'[q] = report[q]
    <3>1. CASE fpo[p].sawNew
      BY <1>0, <1>4, <3>1 DEF TakeStats, SyncCall, counts, LoopTypes, CovTypeOK, AtType
    <3>2. CASE ~fpo[p].sawNew
      BY <1>0, <1>4, <3>2 DEF TakeStats, counts, LoopTypes, CovTypeOK, AtType
    <3>3. QED
      BY <3>1, <3>2
  <2>2. report'[p].key \subseteq shared.flags
    BY <1>0, <2>1 DEF Inv, SharedInv, HashIsKnown
  <2>3. Calm' => Calm /\ report'[p].valid
    BY <2>1 DEF SpeaksInv, Calm
  <2>4. \A e \in shared.flags : Owes(p, e) => Owes(p, e)'
    BY <2>1 DEF Owes, Merging, Returned
  <2>5. at'[p] # "launched"
    BY <2>1
  <2>6. QED
    BY <1>0, <2>1, <2>2, <2>3, <2>4, <2>5, OthersSpeak
<1>5. CASE Report(p)
  <2> DEFINE k == report[p].key
  <2>1. /\ UNCHANGED <<shared, fpo, sync, report, nKills, nInvalid>>
        /\ at[p] = "report" /\ at'[p] = "top"
        /\ \A q \in Procs : q # p => at'[q] = at[q]
    BY <1>0, <1>5 DEF Report, covVars, counts, AtType
  <2>2. k \in SUBSET Edges /\ k \subseteq shared.flags
    BY <2>1 DEF SpeaksInv, LoopTypes
  <2>3. \/ Spoken' = Spoken \cup k
        \/ Spoken' = Spoken /\ (report[p].valid => k \subseteq Spoken)
    <3>1. CASE report[p].valid /\ k \notin Known!KnownKeys
      <4>1. corpus' = Append(corpus, k)
        BY <1>5, <3>1 DEF Report
      <4>2. QED
        BY <2>2, <4>1, SpokenAppend
    <3>2. CASE ~(report[p].valid /\ k \notin Known!KnownKeys)
      <4>1. corpus' = corpus
        BY <1>5, <3>2 DEF Report
      <4>2. Spoken' = Spoken
        BY <4>1 DEF Spoken, Known!KnownKeys
      <4>3. report[p].valid => k \subseteq Spoken
        BY <3>2 DEF Spoken
      <4>4. QED
        BY <4>2, <4>3
    <3>3. QED
      BY <3>1, <3>2
  <2>4. Calm' <=> Calm
    BY <2>1 DEF Calm
  <2>5. Calm => report[p].valid
    BY <2>1 DEF SpeaksInv
  <2>6. ASSUME NEW q \in Procs, q # p, NEW e, Owes(q, e) PROVE Owes(q, e)'
    BY <2>1, <2>6 DEF Owes, Merging, Returned
  <2>7. \A e : Owes(p, e) => e \in k
    BY <2>1 DEF Owes
  <2> HIDE DEF k
  <2>8. ASSUME Calm', NEW e \in shared'.flags PROVE e \in Spoken' \/ \E q \in Procs : Owes(q, e)'
    <3>1. e \in Spoken \/ \E q \in Procs : Owes(q, e)
      BY <2>1, <2>4, <2>8 DEF SpeaksInv
    <3>2. e \in Spoken \cup k => e \in Spoken'
      BY <2>3, <2>4, <2>5, <2>8
    <3>3. QED
      BY <2>6, <2>7, <3>1, <3>2
  <2>9. Spoken' \subseteq shared'.flags
    BY <2>1, <2>2, <2>3 DEF SpeaksInv
  <2>10. \A q \in Procs :
           /\ at'[q] = "launched" /\ ~fpo'[q].sawNew => fpo'[q].flags \subseteq shared'.flags
           /\ at'[q] = "report" => report'[q].key \subseteq shared'.flags
           /\ Calm' /\ at'[q] \in {"target", "launched", "report"} => report'[q].valid
    BY <2>1, <2>4 DEF SpeaksInv
  <2>11. QED
    BY <1>0, <2>1, <2>8, <2>9, <2>10 DEF SpeaksInv
<1>6. CASE Crash(p) \/ Kill(p)
  <2>1. /\ UNCHANGED <<shared, corpus, nInvalid>> /\ at'[p] = "dead"
        /\ \A q \in Procs : q # p => /\ at'[q] = at[q] /\ fpo'[q] = fpo[q]
                                     /\ sync'[q] = sync[q] /\ report'[q] = report[q]
    BY <1>0, <1>6 DEF Crash, Kill, Gone, CovGone, LoopTypes, CovTypeOK, AtType
  <2>2. nKills' \in Nat /\ (Calm' => Calm /\ at[p] = "target")
    BY <1>0, <1>6, <2>1 DEF Crash, Kill, Calm
  <2>3. Calm' => \A e \in shared.flags : ~Owes(p, e)
    BY <2>2 DEF Owes
  <2>4. at'[p] \notin {"target", "launched", "report"}
    BY <2>1
  <2>5. QED
    BY <1>0, <2>1, <2>2, <2>3, <2>4, OthersSpeak
<1>7. QED
  BY <1>1, <1>2, <1>3, <1>4, <1>5, <1>6 DEF ProcStep

LEMMA SpeaksStep == Inv /\ Inv' /\ LoopTypes /\ SpeaksInv /\ [Next]_vars => SpeaksInv'
<1> SUFFICES ASSUME Inv, Inv', LoopTypes, SpeaksInv, [Next]_vars PROVE SpeaksInv'
  OBVIOUS
<1>1. CASE PrintStatus
  <2>1. /\ sync' = [sync EXCEPT ![Main].at = "wait"]
        /\ UNCHANGED <<shared, fpo, at, report, corpus, nKills, nInvalid>>
    BY <1>1 DEF PrintStatus, SyncCall, loopVars, counts
  <2>2. \A q \in Procs : sync'[q] = sync[q]
    BY <2>1, CoverageAssumption DEF Inv, SyncInv, CovTypeOK, All
  <2>3. \A q \in Procs, e \in shared.flags : Owes(q, e) => Owes(q, e)'
    BY <2>1, <2>2 DEF Owes, Merging, Returned
  <2>4. Spoken' = Spoken /\ (Calm' <=> Calm)
    BY <2>1 DEF Spoken, Known!KnownKeys, Calm
  <2>5. QED
    BY <2>1, <2>3, <2>4 DEF SpeaksInv
<1>2. CASE UNCHANGED vars
  <2>1. UNCHANGED <<shared, fpo, sync, at, report, corpus, nKills, nInvalid>>
    BY <1>2 DEF vars, covVars, loopVars, counts
  <2>2. \A q \in Procs, e \in shared.flags : Owes(q, e) => Owes(q, e)'
    BY <2>1 DEF Owes, Merging, Returned
  <2>3. Spoken' = Spoken /\ (Calm' <=> Calm)
    BY <2>1 DEF Spoken, Known!KnownKeys, Calm
  <2>4. QED
    BY <2>1, <2>2, <2>3 DEF SpeaksInv
<1>3. QED
  BY <1>1, <1>2, SyncSpeaks, ProcSpeaks DEF Next

LEMMA SpeaksImplies == SpeaksInv => CorpusSpeaksOfAll
<1> SUFFICES ASSUME SpeaksInv, nKills = 0, nInvalid = 0,
                    \A p \in Procs : at[p] \in {"dead", "top"}
             PROVE  UNION Known!KnownKeys = shared.flags
  BY DEF CorpusSpeaksOfAll
<1>1. \A p \in Procs : at[p] # "launched" /\ at[p] # "report"
  OBVIOUS
<1>2. \A p \in Procs, e \in shared.flags : ~Owes(p, e)
  BY <1>1 DEF Owes
<1>3. QED
  BY <1>2 DEF SpeaksInv, Calm, Spoken

-----------------------------------------------------------------------------

\* The variables of the shared coverage and of FuzzLoop keep their types.
THEOREM CoverageTypes == Spec => []TypeOK
BY InvInit, InvStep, LoopTypesInit, LoopTypesStep, TypeImplied, PTL DEF Spec

\* Whenever nobody is inside Sync the shared hash is that of the shared flags,
\* for any number of processes and edges, crashes and kills included.
THEOREM HashMatches == Spec => []SharedHashMatches
BY InvInit, InvStep, InvImplies, PTL DEF Spec

\* The feedback key a process reports never covers edges it does not know.
THEOREM KeysAreKnown == Spec => []HashIsKnown
BY InvInit, InvStep, InvImplies, PTL DEF Spec

\* While nobody is inside Sync, a process that has missed an edge has another hash than
\* the shared one, for any number of processes and edges, crashes and kills included: a
\* hash is never ahead of what the process knows, and the shared one is never behind.
THEOREM MissedEdgesAreNoticed == Spec => []StaleIsNoticed
BY InvInit, InvStep, InvImplies, PTL DEF Spec

\* Every edge of a run is in the shared flags before the run is reported.
THEOREM ReportsAreShared == Spec => []ReportedIsShared
BY InvInit, InvStep, InvImplies, PTL DEF Spec

\* As long as all runs were valid and nobody was killed, the corpus speaks of every
\* shared edge when no process is between a run and its report: whoever makes an edge
\* shared owes it to the corpus until it has reported a key that covers it.
THEOREM DiscoveriesAreReported == Spec => []CorpusSpeaksOfAll
BY InvInit, InvStep, LoopTypesInit, LoopTypesStep, SpeaksInit, SpeaksStep, SpeaksImplies, PTL DEF Spec
=============================================================================
