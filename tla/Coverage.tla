------------------------------ MODULE Coverage ------------------------------
(***************************************************************************)
(* Edge coverage as the processes of a campaign share it                   *)
(* (libresmack_fuzz/src/feedbacks/coverage.cpp).                           *)
(*                                                                         *)
(* Every process records the edges it hits in private memory, fpo_data_,   *)
(* and merges them with a shared anonymous map under a process-shared      *)
(* semaphore.  A hash of the flags stands for them: it decides whether a   *)
(* process synchronises, and it is the feedback key of the corpus.         *)
(*                                                                         *)
(* Flag arrays are sets of edges.  XXH3 is taken to have no collisions, so *)
(* a hash is the set it was computed from; {} is the zero the constructor  *)
(* leaves.                                                                 *)
(***************************************************************************)
EXTENDS Naturals

CONSTANTS
  Main,       \* the main process; its status thread calls Sync
  Procs,      \* process slots for fuzzing processes
  NumFlags    \* NUM_COV_FLAGS, the number of instrumented edges

ASSUME CoverageAssumption == Main \notin Procs /\ NumFlags \in Nat

Edges == 1..NumFlags
All   == {Main} \cup Procs

VARIABLES
  shared,     \* shared_data_: flags and hash
  syncLock,   \* value of the semaphore
  fpo,        \* fpo_data_ of every process: flags, hash and fpo_saw_new
  sync        \* where a process is in Sync, and Sync's local variables

covVars == <<shared, syncLock, fpo, sync>>

Hash(flags) == flags

Place(where) == [at |-> where, next |-> 1, we |-> FALSE, they |-> FALSE]
Outside == Place("out")

CovInit ==
  /\ shared = [flags |-> {}, hash |-> {}]
  /\ syncLock = 1
  /\ fpo = [p \in All |-> [flags |-> {}, hash |-> {}, sawNew |-> FALSE]]
  /\ sync = [p \in All |-> Outside]

-----------------------------------------------------------------------------
(* The target runs: private memory only.                                   *)

\* FPOStart and the guards of the edges E that the target goes through.
Trace(p, E) ==
  /\ fpo' = [fpo EXCEPT ![p].flags = @ \cup E,
                        ![p].sawNew = \E e \in E : e \notin fpo[p].flags]
  /\ UNCHANGED <<shared, syncLock, sync>>

-----------------------------------------------------------------------------
(* Sync.                                                                   *)

SyncCall(p) == sync' = [sync EXCEPT ![p].at = "wait"]

\* Faulty: Sync without the scoped_lock.
SyncNoLock(p) ==
  /\ sync[p].at = "wait"
  /\ sync' = [sync EXCEPT ![p] = Place("merge")]
  /\ UNCHANGED <<shared, syncLock, fpo>>

\* scoped_lock on sync_lock_.
SyncLock(p) ==
  /\ sync[p].at = "wait" /\ syncLock > 0
  /\ syncLock' = syncLock - 1
  /\ sync' = [sync EXCEPT ![p] = Place("merge")]
  /\ UNCHANGED <<shared, fpo>>

\* Faulty: the merged flag is not written back to the shared data.
MergeOneWay(p) ==
  LET e == sync[p].next  ours == e \in fpo[p].flags  theirs == e \in shared.flags IN
  /\ sync[p].at = "merge" /\ e <= NumFlags
  /\ fpo' = [fpo EXCEPT ![p].flags = IF theirs THEN @ \cup {e} ELSE @]
  /\ sync' = [sync EXCEPT ![p].next = e + 1,
                          ![p].we = @ \/ (ours /\ ~theirs),
                          ![p].they = @ \/ (theirs /\ ~ours)]
  /\ UNCHANGED <<shared, syncLock>>

\* One round of the merge loop.
MergeFlag(p) ==
  LET e == sync[p].next  ours == e \in fpo[p].flags  theirs == e \in shared.flags IN
  /\ sync[p].at = "merge" /\ e <= NumFlags
  /\ fpo' = [fpo EXCEPT ![p].flags = IF theirs THEN @ \cup {e} ELSE @]
  /\ shared' = [shared EXCEPT !.flags = IF ours THEN @ \cup {e} ELSE @]
  /\ sync' = [sync EXCEPT ![p].next = e + 1,
                          ![p].we = @ \/ (ours /\ ~theirs),
                          ![p].they = @ \/ (theirs /\ ~ours)]
  /\ UNCHANGED syncLock

\* Faulty: only what the others had new leads to new hashes.
SyncEndTheirs(p) ==
  /\ sync[p].at = "merge" /\ sync[p].next > NumFlags
  /\ IF sync[p].they
     THEN /\ fpo' = [fpo EXCEPT ![p].hash = Hash(fpo[p].flags)]
          /\ shared' = [shared EXCEPT !.hash = Hash(fpo[p].flags)]
     ELSE UNCHANGED <<fpo, shared>>
  /\ syncLock' = syncLock + 1
  /\ sync' = [sync EXCEPT ![p] = Outside]

\* The hashes, only if the merge found a difference, and the release.
SyncEnd(p) ==
  /\ sync[p].at = "merge" /\ sync[p].next > NumFlags
  /\ IF sync[p].we \/ sync[p].they
     THEN /\ fpo' = [fpo EXCEPT ![p].hash = Hash(fpo[p].flags)]
          /\ shared' = [shared EXCEPT !.hash = Hash(fpo[p].flags)]
     ELSE UNCHANGED <<fpo, shared>>
  /\ syncLock' = syncLock + 1
  /\ sync' = [sync EXCEPT ![p] = Outside]

SyncStep(p) == SyncLock(p) \/ MergeFlag(p) \/ SyncEnd(p)

\* Faulty: synchronises only when the hashes differ.
FPOStopOnHash(p) ==
  /\ IF shared.hash # fpo[p].hash THEN SyncCall(p) ELSE UNCHANGED sync
  /\ UNCHANGED <<shared, syncLock, fpo>>

\* Faulty: remembers the shared hash before it has the flags.
FPOStopTakesHash(p) ==
  /\ IF fpo[p].sawNew \/ shared.hash # fpo[p].hash THEN SyncCall(p) ELSE UNCHANGED sync
  /\ fpo' = [fpo EXCEPT ![p].hash = shared.hash]
  /\ UNCHANGED <<shared, syncLock>>

\* FPOStop: the shared hash is read without the lock.
FPOStop(p) ==
  /\ IF fpo[p].sawNew \/ shared.hash # fpo[p].hash THEN SyncCall(p) ELSE UNCHANGED sync
  /\ UNCHANGED <<shared, syncLock, fpo>>

-----------------------------------------------------------------------------
(* Processes come and go.                                                  *)

\* fork: the child owns a copy of the private data of the main process.
CovFork(p) ==
  /\ fpo' = [fpo EXCEPT ![p] = fpo[Main]]
  /\ SyncCall(p)
  /\ UNCHANGED <<shared, syncLock>>

\* The process is gone; if it was inside Sync the semaphore stays taken.
CovGone(p) ==
  /\ fpo' = [fpo EXCEPT ![p] = [flags |-> {}, hash |-> {}, sawNew |-> FALSE]]
  /\ sync' = [sync EXCEPT ![p] = Outside]
  /\ UNCHANGED <<shared, syncLock>>

CovTypeOK ==
  /\ shared \in [flags: SUBSET Edges, hash: SUBSET Edges]
  /\ syncLock \in {0, 1}
  /\ fpo \in [All -> [flags: SUBSET Edges, hash: SUBSET Edges, sawNew: BOOLEAN]]
  /\ sync \in [All -> [at: {"out", "wait", "merge"}, next: 1..(NumFlags + 1),
                       we: BOOLEAN, they: BOOLEAN]]

-----------------------------------------------------------------------------
(* Properties.                                                             *)

\* Whenever the semaphore is free the shared hash is the hash of the shared
\* flags, although every process writes its own hash there (Sync).
SharedHashMatches == syncLock = 1 => shared.hash = Hash(shared.flags)

\* A process's hash never speaks of edges that the process does not know, also
\* when it was forked in the middle of a merge: its corpus key is about its past.
HashIsKnown == \A p \in All : fpo[p].hash \subseteq fpo[p].flags

\* While nobody is inside Sync, a process that lacks an edge somebody else has synced
\* can tell by its hash, so FPOStop's unlocked comparison skips a Sync only when there
\* is nothing to learn (coverage.cpp:102-103, "shared_data_->hash won't equal
\* fpo_data_->hash when new coverage was synced by someone else to shared_data_").
StaleIsNoticed ==
  syncLock = 1 =>
    \A p \in All : ~(shared.flags \subseteq fpo[p].flags) => fpo[p].hash # shared.hash
=============================================================================
