--------------------------- MODULE FeedbackCorpus ---------------------------
(***************************************************************************)
(* What the shared corpus promises to the processes of a campaign: a list  *)
(* of discoveries, one per feedback key, that only ever grows, one item at *)
(* a time.  The promise has an end: a process that starts from a half      *)
(* copied object spoils the corpus, and nothing is said of it from then on.*)
(***************************************************************************)
EXTENDS Naturals, Sequences

CONSTANT Keys

VARIABLES
  corpus,    \* sequence of feedback keys, in the order of discovery
  spoiled    \* the promise has ended

KnownKeys == {corpus[i] : i \in 1..Len(corpus)}

Init == corpus = <<>> /\ ~spoiled

Discover(k) ==
  /\ k \notin KnownKeys
  /\ corpus' = Append(corpus, k)
  /\ ~spoiled /\ ~spoiled'

Spoil == spoiled'

Next == (\E k \in Keys : Discover(k)) \/ Spoil

Spec == Init /\ [][Next]_<<corpus, spoiled>>
=============================================================================
