---------------------------- MODULE MCMmapCorpus ----------------------------
(***************************************************************************)
(* Instances of MmapCorpus for TLC, and what a campaign must achieve.      *)
(***************************************************************************)
EXTENDS MmapCorpus, TLC

Symmetry == Permutations(Monitors) \cup Permutations(Tracees) \cup Permutations(Keys)

-----------------------------------------------------------------------------
(* Progress.                                                               *)

\* A process that has found coverage which nobody has published yet either gets it
\* published, or somebody else publishes the same key: the lock is never kept
\* (unless a tracee forked between the stores that end SyncInner spoils the map).
CoverageIsPublished ==
  \A c \in Tracees, k \in Keys :
    (pc[c] = "wait" /\ call[c] = "Add" /\ key[c] = k)
      ~> split \/ \E i \in 1..numEntries : items[i].key = k
=============================================================================
