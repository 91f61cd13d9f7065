# A TLA+ verification of resmack

resmack is a grammar-based, coverage-guided fuzzer.  A *campaign* is one main
process and a number of fuzzing processes that it forks, traces, restarts when
they crash or hang, and that share what they learn through memory maps and
semaphores: C++ on x86-64 Linux, no message passing, everything
through shared memory, `fork`, `ptrace` and signals.  Each process makes inputs
from a grammar, and an input is remembered only as the random states it was made
from, so that replaying those has to make it again.  The sharing and
the replay are where the program is hard to test, and they are what these modules
model.

Paths below are relative to the repository; `ws/` is where its packages are.

## 1. Inventory

| component | source | state | operations | interacts with |
|---|---|---|---|---|
| shared corpus | `libresmack_fuzz/src/corpora/mmap.cpp` | in the map: metadata (`updated_seq`, `num_entries`) and an append-only list of headers; per process: mirror (`snapshots`, `seen_keys`), `next_item_index`, `next_item`, `first_item`, `last_updated_seq`, last picked item | `Init`, `Sync`, `SyncCounters`, `AddRandSnapshotIfNotSeen`, `GetItem`, `IncUnwanted`, `GetDecayPercent` | locks; called by FuzzLoop, HandleException, the status thread |
| locks | `lock.cpp` | a POSIX semaphore, named or anonymous | `lock`, `unlock`, construction (unlink, create, post if 0) | corpus, state, coverage, tracer |
| coverage feedback | `feedbacks/coverage.cpp` | shared flags and hash; private flags, hash, `fpo_saw_new` | guards, `FPOStart`, `FPOStop`, `Sync`, `GetStats` | target run, FuzzLoop, status thread |
| fuzzing loop | `libresmack_fuzz_main/src/main.cpp` 374-493 | loop locals | one iteration: flush, choose input, build, run, report | everything |
| crash/timeout handling | `tracer.cpp`, `tracee.cpp`, `process_utils.cpp`, main.cpp 495-602 | `should_run`, `traced_pid`, a shared block per tracee (iteration start, last corpus index, last replay, ASAN report) | two threads per tracer: launch/wait/handle, and the timeout; `Stop`, `Join` | launcher, corpus, state |
| launcher | `process_launchers/fork.cpp` | none | fork, SIGSTOP handshake, run FuzzLoop | tracer |
| campaign state | `states/mmap.cpp` | the file map: iteration and crash counters, durations | construct, `SyncStats`, `IncNum...`, `IncNumCrashesIfTrue` | corpus, locks |
| replay mutation | `mutate.cpp` | none (pure) | `MutateRandSnapshot`, `CascadeMutatedState` | FuzzLoop |
| rules, rule manager | `libresmack/src/rules.cpp`, `rule_man.cpp` | names and their indices, one rule per name and scope | `AddRule`, `Ensure`, `ClearRuleValues`, `NewChild`, `Finalize`, `Build` | items, calculators |
| grammar analysis | `calc/reach.cpp`, `calc/ref_depth.cpp`, in the items `CalcReachability` and `CalcRefDepth` | `choice_indices_`, `shortest_indices_`, `rule_idx_`, `depths_`, what was pruned | one call per rule, rounds until nothing changes | rules, items |
| items | `items/*` | `rule_idx_` | `Build` | build context, rules |
| build context, randomness | `build_context.cpp`, `rand.cpp` | depth, limit, output pointers, pending items, captures, replay and its position; random state, recorded states | `MaybeDoRandReplay`, `MaybeUndoRandReplay`, `FlushPrePost`, `SnapshotState` | items, FuzzLoop |
| not part of the core | `noop.cpp`, `asan_util.cpp`, `external_weak.cpp`, `san_and_cov.cpp`, `ws/resmack`, `ws/resmack_perf`, examples, scripts | | | |

What makes each component correct:

* **Corpus.**  No discovery is published twice or lost, the list only grows,
  each process's mirror is a prefix of it, "same sequence number" means "same
  contents", the lineage counters are what the parents imply, picks are
  conserved, and all of it through a crash, a SIGKILL or a restart.
* **Coverage.**  The shared hash is the hash of the shared flags; a process
  reports only keys of edges it knows; an edge a run hit is shared before the run
  is reported; the corpus ends up speaking of all shared coverage; nobody waits for ever.
* **Tracer.**  At most one child is being fuzzed per tracer, a hung child
  is killed, each crash is handled once with the data of the child that crashed,
  stopping ends everything.
* **Grammar.**  Pruning keeps exactly the rules that can be built, the choices called shortest
  lead to the least nesting, and so a build at the depth limit ends.
* **Build and replay.**  A build leaves its context as it found it and never touches
  an output string that is gone; a recording is well formed through any number of mutations; each
  recorded state is used for the rule it was taken of; a replay makes the same text.
* **Mutation.**  It changes a few rules, drops exactly what was nested in them
  and keeps the rest.

The list of hazards, each at its line, is in `PROJECT.json`.

## 2. Modules

| module | what it is |
|---|---|
| `FeedbackCorpus` | abstract specification: a growing list of distinct feedback keys |
| `MmapCorpus` | the shared corpus and every thread that uses it; refines `FeedbackCorpus` |
| `MCMmapCorpus` | TLC instance: symmetry and the liveness property |
| `MmapCorpusProofs` | theorems about `MmapCorpus`: the semaphore, the map, the keys, the refinement, then the private mirrors, sequence numbers, picks and lineage counters |
| `Coverage` | the coverage feedback: guards, `FPOStop`, `Sync` |
| `FuzzLoop` | fuzzing processes and status thread over `Coverage`, reporting to the corpus, which is here as `FeedbackCorpus` promises it |
| `MCFuzzLoop` | TLC instance |
| `FuzzLoopProofs` | theorems about `FuzzLoop` |
| `Tracer` | one tracer: monitor thread, timeout thread, the children, `Stop` and `Join` |
| `TracerProofs` | theorems about `Tracer` |
| `Grammar` | rules, rule manager and `Finalize` with its two calculators |
| `Generator` | the build of an input: items, build context, recorded randomness; extends `Grammar` |
| `Replay` | the life of an input: made, mutated, run, recorded, rebuilt after a crash, dumped; extends `Generator` |
| `MCReplay` | twenty-one small grammars for TLC |
| `ReplayProofs` | theorems about recordings in `Replay` and about `MutateRandSnapshot` |
| `GrammarProofs` | lemmas about `Grammar`: which rules there are at each place of `Finalize`, what the calculators leave of them, what each item has been through when a turn changes nothing |
| `PruningProofs` | the theorems that `Finalize` keeps what can be built and finds the shortest alternatives; extends `ContextProofs` |
| `ContextProofs` | theorems about the builds of `Replay`: types, strings, scopes, the context between builds, where behaviour is undefined |
| `ChoiceProofs` | the theorem that a build always has something to choose from; extends `ContextProofs` |

Operators whose comment begins with *Faulty* are deliberate mistakes of the kind
the code could have contained.  Substituted for the operator they precede, they make the properties
fail, which shows that the properties notice; no specification uses them.

### MmapCorpus

*Threads and address spaces.*  `Monitors` (the tracers' monitor threads) and
`Printers` (the status thread) run in the main process and use one `MmapCorpus`
object; a tracee owns the copy that `fork` gave it.  `mem[s]` is the object of
address space `s`; `Space(t)` is where thread `t` runs.

*Control.*  `pc[t]` is a place in the code, `call[t]` the corpus call in
progress.  The code's calls all have the same skeleton, an unlocked check, the
semaphore, SyncInner, something under the lock, the post, and the model has it once:

| place | code |
|---|---|
| `enter` | about to read `updated_seq` without the lock (`SyncCheck`, mmap.cpp:159) |
| `wait` | in `sem_wait` (`Acquire`; goes on to 178, or to SyncInner's loop) |
| `attach` | an object without a mirror has got its `next_item`, not yet its `first_item` (`Attach`, 179) |
| `sync` | in SyncInner's loop (`SyncItem` per item; `SyncIndex` ends it and moves `next_item_index`, 233) |
| `pointer` | `next_item_index` has moved, `next_item` not yet (`SyncEnd`, 234, with the counters) |
| `held` | the body under the lock (`AddSeen`, `AddWrite`, `CountersHeld`, `UnwantedHeld`) |
| `publish` | header written, counters not yet moved (`AddPublish`, 150-154) |
| `unlock` | before `sem_post` (`Release`) |
| `loop`, `target`, `pick` | a tracee in FuzzLoop, in the target, in GetItem after its Sync |
| `spawn`, `watch`, `idle`, `print` | a monitor and the status thread |
| `dead`, `crashed`, `segv` | no process; stopped by a fatal signal; the main process died |

*Faults.*  `Crash` (a fatal signal in the target), `Kill` (SIGKILL
anywhere, the semaphore included), `Restart` (the whole campaign is killed and started
on the same file).  `UninitSeq` stands for what the constructor leaves in
`last_updated_seq`, which `Init` compares before anything has set it
(mmap.cpp:21-29, 49, 159).

*What is abstracted.*  An item is its key, parent and counters; rand states,
sizes and iteration numbers are left out.  `GetItem` may return any local entry:
strategies, sorted lists and decay only choose among them.  The second parent is
always 0 in the code (mmap.cpp:416), so it is left out.  `nextItem` is `next_item` as the number of headers before it.
Free space behind the last item reads as zeros.  Sequence numbers do not wrap.

*Which stores are one step.*  Private objects are seen by others only through `fork`, which copies the main process's
object at any moment; shared memory is seen at once.  So every store to the object between `sem_wait` and the loop of SyncInner
and behind it that a copy can tell from its neighbours is a step of its own, in the order of the source, which the
build is taken to keep.  These stay together: one round of SyncInner's loop (a copy from within has the key without
its entry, or a half-filled entry, which is not told from a whole one: it mirrors the item again either way);
`last_updated_seq` with the start of the loop; `next_item` with the flush of the counters (a copy from in between has
picks in both places, but the main process never picks); 150-154, which are a tracee's own object, and of which
unlocked readers see only "changed" or "not yet".  A container that `fork` copies in the middle of one of its own
operations is undefined behaviour that the model leaves out; it has the well-defined half of that race.

*After a fork between 233 and 234* (`split`) headers of different lengths may overlap, while in the model an item laid
over another replaces just that one.  So whatever the properties say of the contents of the map or of mirrors, they say it
until then; the lock, the types and `SyncedMeansComplete` are claimed beyond.  Once the main process has
died of a NULL walk (`segv`), its threads stay where they are; fuzzing processes go on.

### Coverage and FuzzLoop

`fpo[p]` is `fpo_data_` of process `p`, `shared` is `shared_data_`, `syncLock` the
semaphore, `sync[p]` the place inside `Sync` with its locals: `SyncLock`, one
`MergeFlag` per flag, `SyncEnd`.  Flags are sets of edges, a hash is the set it
was computed from (no collisions).  `FuzzLoop` adds the iteration: `Launch` (with
any set of edges, valid or not), `Stop` (FPOStop), `TakeStats` (GetStats and, with new
coverage, the second Sync), `Report` (AddRandSnapshotIfNotSeen).  `PrintStatus` is the main process's
Sync, `Crash` and `Kill` discard the private data, `Fork` copies that of the main process.
`hit_flags` is a display counter and left out.

The corpus appears in `FuzzLoop` as the list of keys that `FeedbackCorpus`
specifies; `MmapCorpus` is shown to implement that until such a fork, and `FuzzLoop` assumes that there is none.

### Tracer

`monitor`, `timer` and `main` are the places of the three threads of the main
process; `proc[n]` is the state of child `n`, whose number stands for its pid.

| thread | actions, in the order of the code |
|---|---|
| monitor | `Spawn` (loop head, `Tracee::Reset`), `Fork`, `StorePid`, `WaitForExit`, `Classify`, `HandleCrash` or `CalcHashesThrows`, `Reap` |
| timeout | `TimerLoop` (reads `traced_pid`), `TimerCheck`, `TimerMeasure` (read `iter_start` again), `TimerKill` |
| main | `Interrupt`, `ShutDown` (SHUTTING_DOWN, then `should_run`), `StopKill`, `Join` |
| child | `IterStart`, `Hang`, `SaveAsanInfo`, `Die`, `Finish`, `Leave`; `Halt` is a signal from outside |

A child asks to be traced in its main thread and fuzzes in a second one, which
`ptrace` does not follow (fork.cpp:55, 66; no `PTRACE_O_TRACECLONE`).  So a fatal
signal of the target ends the child, and a signal sent to the process stops only its main thread (`halted`):
`waitpid` reports it while the fuzzing goes on.  `Signals` says which kinds are sent.

Time is counted in ticks up to the limits.  `late` and `reports` are history
variables.  Each tracer has its own block, threads and children, so one tracer
is modelled.  What HandleException does beyond being given a crash is in `MmapCorpus`.

### Grammar

A grammar is a table of items (`Item`: kind, items, name of a rule) and a sequence of
`AddRule` calls.  `names` is the pair of maps between names and indices, `scopes` the rule managers from the root
to the innermost, `inline` what the calculators leave in an Or that is no rule, `index` the `rule_idx_` of the
items that name one (-1: never set).  `fin` is `ResmackGrammarInit` and then the loop of `Finalize`, `visits` the
`CalcReachability` calls in progress, each with its place in its items and those found reachable so far:

| action | code |
|---|---|
| `AddRule` | one `AddRule` call of the grammar, with the `Ensure` it makes |
| `ReachRule` | a turn of `Reach::Calc`'s loop begins, or passes over a rule that is not there |
| `ReachItem` | the next item's `CalcReachability` is called; Id and the stores first `Ensure` their rule |
| `ReachReturn` | the call returns its `Verdict`: an Or keeps its reachable items, a Ref its index |
| `ReachRuleEnd` | the turn ends: the rule's choices, and whether it is to be pruned |
| `ReachEnd` | pruning, and the start of `RefDepth::Calc` |
| `DepthRule` | one rule of a round: `CalcRefDepth`, `shortest_indices_` of what it visits, `depths_` |
| `DepthEnd` | the next round, or pruning and the next turn of `Finalize` or its end |

A rule that the pass adds is seen by the same loop.  And's loop ends at the first unreachable item (`Stops`).
`CalcRefDepth` is a recursive function on the table.  `Height` says that an item is made of items that were there
before it, as C++ constructors do: no table of items goes in circles.
`Within` is the reference definition: what can be built with fewer than d nested references, from the meaning of the
items alone.

### Generator

The C++ calls of a build are a stack of frames `work`: an item to build, or the rest of a call
that waits for one (`and`, `leave`, `end_pre`, `end_flushed`, ...).  Every frame is one action, named after the method
it is part of.  `ctx` is the `BuildContext`; `pre_output` and `output` are positions in
`bufs`, the strings that exist, or `Null`, or `Dangling` when the string was a local that has gone.
`rng` is the random state, a seed and the number of calls since it was set; `tape` holds what
`Next` has returned, so that equal states return equal values while unknown ones are free.
`fault` names the undefined behaviour that has been reached (a NULL or gone `pre_output`, a choice of nothing, a
`rule_idx_` of -1, a scope or capture that is not there, `post_items` that grow while they are iterated over); nothing is
modelled behind it.

### Replay

`at` is the place in the program and `who` the function: `FuzzLoop` (`Create`, or
`PickInput`, `KeepSnapshot`, `MutateSnapshot`, `BuildMutated`; then `Build` until the stack is empty;
then `RunQuietly`, `RunWithNews` or `RunAndCrash`), `HandleException` (`Build`, `Relaunch`) and
`DumpCorpus` (`StartDump`, `DumpEntry`, `Build`).  The fuzzing process and the main process
have rules of their own: a fork copies `mainRoot`, which every rebuild
after a crash adds to, and a dump starts from `origRoot`.

History variables and fields, which no guard reads: `crash` (the input that crashed), the
`text` and `pristine` of corpus entries, `pristine` (this build began with the rules as finalized), `plan.from` and
`plan.new` (where each mutated snapshot comes from), `rule` in snapshots, `depth` in `leave` frames.  `gone`, the
calls of `Scope::Build` whose scope a SCOPE_POP has deleted, is read only to tell that `delete` meets a scope for the second
time (scope.cpp:26), although a SCOPE_PUSH may have put another in its place.

*What is abstracted.*  The bytes of an item are one token; those of Int, Str and Id are the item and the random state they
were drawn from.  Strategies, `mutate` percentages and weights only choose among the options that the actions
leave open.  The Gaussian choice of how far to change a limit may give anything in its range.

## 3. Runs

| run | constants | checks | shows |
|---|---|---|---|
| `corpus_campaign` | 2 monitors, 2 tracees, 3 keys, 3 picks, no faults | `TypeOK`, `LocalMirror`, `SyncedMeansComplete`, `LineageCounts`, `PicksConserved` | mirrors agree with the map; chains of two parents; two processes flush picks of the same item, up to the counter's limit |
| `corpus_faults` | 2 keys, 1 pick, 1 crash, 1 kill, 1 restart, `UninitSeq` = 0 | `MutualExclusion`, `UniqueFeedbackKeys`, `PublishedIsWritten`, `SeenIsMirrored`, `ImplementsFeedbackCorpus` | safety through every combination of the faults, with forks inside SyncInner |
| `corpus_progress` | status thread, 2 keys, fair, no faults | `LocalMirror`, `SyncedMeansComplete`, `CoverageIsPublished` | the lock is always given back; mirrors with forks at any moment of the status thread's Sync |
| `corpus_stale_sync` | 1 crash | `SyncedMeansComplete` **violated** | finding 1 |
| `corpus_fork_mid_sync` | status thread | `IndexIsPosition` **violated** | finding 2 |
| `corpus_fork_between` | status thread | `NextItemIsEmpty` **violated** | finding 3 |
| `coverage_campaign` | 2 processes, 2 edges, 3 runs of which 1 invalid, 1 crash, 1 kill | `TypeOK`, `SharedHashMatches`, `HashIsKnown`, `StaleIsNoticed`, `ReportedIsShared`, `CorpusSpeaksOfAll` | simultaneous discoveries, lost holders |
| `coverage_progress` | 2 processes, 2 edges, 2 runs, 1 crash, fair | `HitsAreShared` | no starvation in Sync |
| `tracer_campaign` | 2 children, limits of 1 and 2 ticks, fatal signals, fair | `TypeOK`, `SingleTracee`, `ReportIsOfCrashed`, `KillsOnlyLate`, `JoinReturns` | kills, crashes and shutdown in any order |
| `tracer_hung` | no signals, fair | `HungIsKilled` **violated** | finding 4 |
| `grammar_campaign` | 21 grammars, 2 random values, `MaxDepth` = 2, 1 crash, 2 entries, 1 to 3 iterations | `TypeOK`, `PruningIsExact`, `ShortestIsLeast`, `RecordedIsPreorder`, `LimitsWithinMaxDepth`, `MutationIsLocal`, `CrashFileIsInput`, `DumpIsInput`, `NestingIsBounded`, `ContextIsRestored`, `BuildsAreDefined`, `ChoicesAreDefined`, `SnapshotsMeetTheirRules` | the analysis is exact; replays of recorded and mutated inputs, after crashes and in dumps |
| `grammar_crash_file` | the same | `CrashFileIsAlwaysInput` **violated** | finding 5 |

*Bounds.*  `MaxPicks`, `MaxLaunches`, `MaxInvalid`, `MaxCrashes`, `MaxKills`,
`MaxRestarts` count the events they are named after, in guards of those
actions; the number of items is bounded by the number of keys.  Two tracees are enough for the races on
the map (the lock serialises the rest); three keys give a grandparent; `MaxCount` is
1 in `corpus_faults` and 2 in `corpus_campaign`, whose three picks go beyond it.  Tracees, monitors and keys are symmetric, and no liveness run uses
symmetry.  `corpus_progress` has no picks, so `GetItem` is not part of what it shows.
`MaxSpawns` bounds the children of a tracer: what may go wrong happens between
one child and the next, so two are enough.  One tick for an iteration and two for a lifetime let either limit be
reached without the other.


The grammars of `grammar_campaign` are mostly the tests' (`libresmack/test`), cut down to one
use of each construct: mutual recursion, references in circles and to nothing, depths that take rounds to find, PRE, POST
and FLUSHED through references, stores and scopes, captures, and each misuse that leads to a `fault`.
In `Deep` the rule that is reached at the limit still needs references, so that a build goes deeper than `MaxDepth`, by the way
to the least nesting; in `Circular` alternatives that cannot be built lie before and between the shortest;
in `Renewed` a SCOPE's item pops the scope and pushes another.  `MaxNesting` = 6
is more than `MaxDepth` and the depths of these grammars add up to, so it cuts nothing that
`NestingIsBounded` could have seen.  Two random values are enough because no choice between items of these grammars has
more than two reachable outcomes; of the values that a rule collects only the first two are then chosen.  A third iteration is needed where a mutation of a mutation
matters.

*Premises.*  Some properties about grammars hold under conditions, each for a behaviour of the code that makes them false:

* `KnownInTime`: the first pass of Reach prunes a rule whose only reference goes to a name that
  a later item introduces (reach.cpp:16-34), or that an item would introduce which no pass reaches.  A rule for values whose given
  items cannot be reached is pruned and comes back when a value for it is met; what refers to it may be lost for good in between.
* `IndexesAreSet`: And stops at its first unreachable item and Opt hides that, so an item
  behind is built with an index no pass has set.
* `OrsHaveItems`: nothing refuses an Or without items, and Build then divides by zero (or.cpp:43).  It is unreachable, but an
  item beside it may still be built where the index is set.  In `NestingIsBounded`, because `shortest_indices_` holds positions in
  `choice_indices_` and Build reads them as positions in the list of all items (or.cpp:91, 131): beside an unreachable alternative
  the wrong items are used at the limit.
* `ValuesAreFlat`: a rule for values has depth 0 whatever the grammar itself gives to it (or.cpp:113).
* `ChoosesFirst`: at the end of a replayed reference the undo restores the random state from before it
  (build_context.cpp:54-61), so what is chosen after a reference is drawn from another state than when it was recorded.
* `Repeatable`: items put off by POST are built after the undo, which is to the same effect.
* `PostsAreQuiet`: a post that refers to a rule or puts off another one adds to `post_items` while they are iterated
  over (flush.cpp:46-50); and FLUSH builds, deep inside, what was put off elsewhere.
* `SomeRuleIsEmpty`: a rule for collected values is empty until the first value comes.
* `pristine`: values that Id and Store add to the root stay for later builds of that process.

*Deadlock* is checked where nothing can end.  It is off in the runs with kills (a
semaphore whose holder was killed is never posted again: everybody waits), and in
`FuzzLoop`'s runs with bounded launches, and in the grammar runs, which end with their bounded iterations.  It is off for `Tracer`, which stops
after `Join`, and where a child hangs for ever.

*Fairness.*  Weak fairness of each thread: the operating system schedules
what can run.  Strong fairness of each thread's `Acquire` (`SyncLock`): the
semaphore is free again and again, and the futex queue does not pass over the same
waiter for ever.  No fault, timer or choice of the target is assumed to happen.  The weak
fairness of a fuzzing process includes the end of its target: a hanging target is the
timeout thread's business.  In `Tracer` the three threads of the main process and
the clock are weakly fair, and so is a child that only has to leave FuzzLoop; limits, signals,
crashes and hangs need not happen, and a child may go on with its iterations for ever.

*Findings.*

1. `IncUnwanted` (mmap.cpp:493) takes over the sequence number it has just
   produced although it has not mirrored what others published before.  The next
   `Sync`, which HandleException calls at once (main.cpp:537), says "nothing has been changed, bail", and the
   main process, and every tracee forked from it, misses those items until another one is added.
2. SyncInner moves `next_item_index` only after its loop.  A fork by a monitor
   while the status thread is in that loop copies entries that the child then
   mirrors again: positions and one-based indices (parents, IncUnwanted) no longer agree with the map.
3. SyncInner moves `next_item_index` and `next_item` in two stores (mmap.cpp:233, 234).  A tracee forked between them has
   the index without the pointer.  Its next SyncInner has nothing to mirror and keeps the pointer, so it never learns
   the keys it skipped, and its next discovery is written over a published item and counted as another.
4. `MonitorTraceeTimeout` leaves its loop after its first kill (tracer.cpp:106).
   From then on the tracer's children have no timeout; the first kill may even be of a pid that was
   reaped while the thread was measuring.
5. `SaveLastReplay` (main.cpp:467) saves `mutated_replay` for every input, but an input made from scratch leaves it
   as an earlier iteration had it (main.cpp:435-437).  When such an input crashes, HandleException rebuilds and writes
   another one (main.cpp:540).

One more of the coverage: `Sync` refreshes the private hash only when the merge found a difference.  A process that
knew all it met there keeps its older hash, synchronises after every run until a merge finds something, and reports
under the older key, which the corpus may have already.  `StaleIsNoticed` says that the opposite, a hash that hides an edge, does not
happen.

Three more behaviours of the tracer are in the model and not stated as
properties of a run.  With `Signals = {"other"}` (a terminal resize, a SIGTERM) `SingleTracee`
fails: the stopped child counts as a normal exit and fuzzes on beside its successor.  A child that dies by SIGABRT without an ASAN
report has been reaped when `CalcHashes` attaches to it; the exception ends the main process (`CalcHashesThrows`, main = "aborted").
And before the first pid is stored the timeout thread holds -1, with which its kill
reaches every process; `KillsOnlyLate` speaks of stored pids.

## 4. Proofs

`tlapm` checks all of `MmapCorpusProofs`, `FuzzLoopProofs`, `TracerProofs`, `ReplayProofs`,
`GrammarProofs`, `ContextProofs`, `PruningProofs` and `ChoiceProofs`.  The
theorems hold for every number of processes, threads, keys, edges and faults,
every grammar and every `--max-depth`, under the modules' assumptions: the sets of actors are disjoint, the bounds and
`UninitSeq` are natural numbers, a tracer's limits and `MaxDepth` are positive, and the table of items is well formed.

**MmapCorpus.**

* `LockExcludes`.  Inductive with: the semaphore is 0 or 1, somebody in the
  section means 0, and there is at most one such thread.  It holds whatever `fork` copies.  `Kill` only removes a
  thread from the section and leaves the semaphore, so exclusion survives (progress does not).
* `TypeCorrect`, `NothingHalfPublished`.  The types hold of any map, whatever was laid over what.  That a header is there for each
  counted item is not inductive: the invariant adds how the cursor, `next_item_index`, `next_item`, `num_entries` and
  the number of headers are ordered, by place, until a fork falls between 233 and 234 (`split`).  At the place `pointer`
  the pointer is behind the index; no other place lets a copy see that.
* `KeysAreUnique`, `MirrorsAreSound`.  Uniqueness rests on this chain: an adder
  in `held` has synchronised, so its cursor had reached `num_entries` while it held the
  lock; each item passed has its key in `seen_keys`, because cursor and pointer went side by side; hence "not seen" means "not
  published".  The inductive invariant states it for every place between the semaphore and the post.
* `CorpusIsImplemented`.  `AddPublish` is the one step that changes
  the published keys, and the invariant above gives the new key's freshness; `Restart` keeps the map.  The fork that
  sets `split` maps to the abstract `Spoil`, behind which the abstract corpus promises nothing.
* `MirrorsArePrefixes`.  What makes `LocalMirror` inductive is how long a mirror is at each place (`Extent`):
  as long as `next_item_index` says, except that a thread in `SyncInner`'s loop has mirrored up to its cursor and a
  tracee between `AddWrite` and `AddPublish` is ahead by its own item.  A fork may copy the object only in the first
  case without being torn, and the semaphore leaves at most one thread in the other two, so an item laid down where an
  aborted one lay is in nobody's mirror.  Crashes, kills and restarts are included.
* `SyncLosesNothing` holds of behaviours up to the first crash (`Trusted`), since finding 1 shows it false after one.  Until then
  `updated_seq` is the number of published items, and an object outside a merge has mirrored as many as its own
  number says; none of this needs the contents of the map, so it holds beyond `split`.  `Trusted` also excludes a restart with `UninitSeq` other than 0: a constructor that leaves the map's
  own number in `last_updated_seq` makes the first Sync bail out with nothing.
* `NoPickIsLost` (`PicksConserved`): no step takes away picks of an item, counted in its header and in all the mirrors, or the header's counter stands
  at its limit, where the flush saturates (mmap.cpp:261).  `ObjectInv` says who holds picks: nobody that is dead, never the main process, and
  each tracee no more than there were calls of GetItem.  A sum over processes is the cardinality of a set of
  pairs (a process and one of its picks), and a step that touches one mirror moves a known number of pairs (`Balance`).
  The hypotheses are that nobody dies (a process takes its picks with it) and that the tracees are finitely many; the property
  itself leaves out `split` and steps of a process about to pick what it holds as many picks of as a
  counter can count (`NoneAtLimit`; mmap.cpp:419 would wrap).  The corollary `FewPicksFit` shows `NoneAtLimit` where no more picks are made than a
  counter can count.
* `LineageIsExact` (`LineageCounts`).  `Lineage` says that parents precede their offspring (`Rooted`) and that each counter is
  what the parents imply (`Counted`), where an item's ancestors are the least set closed under parents.  Such sets are equal to what a walk from
  parent to parent meets (`WalkMeets`), also when the walk follows a private mirror, since that is a prefix of the map.
  It goes through crashes, kills and restarts.  The hypothesis `Undisturbed` leaves out the two ways in which it
  becomes false for good: an object that was copied inside SyncInner (findings 2 and 3), and an item
  laid down by a process that was killed before it counted it.

**FuzzLoop.**

* `CoverageTypes`, `HashMatches`, `KeysAreKnown`, `ReportsAreShared`.  The invariant says what a merge
  in progress has established: below the cursor the private and shared flags agree,
  and while no own flag was new the shared hash is still that of the shared flags.  At the end of the loop
  the two sets are equal, so writing one's own hash is right.  Private flags are known to be shared except
  between a run that saw a new edge and the end of the Sync that follows.
* `MissedEdgesAreNoticed` follows from the same two facts about hashes: one's own covers only edges that one knows,
  the shared one all that are shared.
* `DiscoveriesAreReported`.  The invariant names for each shared edge that the corpus does not speak of yet a process that
  owes it (`Owes`): it merges and was the one to write the flag, or has left the merge with the edge in its hash, or
  has the edge in the key it is about to report.  A process that only meets the edge in the shared flags owes nothing.

**Tracer.**  For every number of children and every timeout.

* `TypesOfTracer`.  The type invariant with how far the forks have come at each place of the monitor.
* `OneTracee`, `ReportsAreOfCrashed`, `TimerKillsOnlyLate`, assuming that no
  signal is sent that is no crash.  Before a fork all children are gone: `waitpid` reaped the newest, or it is stopped by a crash
  and goes through `Reap`.  So the block belongs to one child between two forks, an ASAN report in it is that child's, and what the
  timeout thread measures is about the child whose pid it holds, or that child is gone and the kill hits nobody.

**Grammar.**  For every grammar and every table of items; `KnownInTime` is a premise of both properties.

* `FinalizeKeepsTheBuildable` (`PruningIsExact`).  A reference is reachable as soon as its rule has a name, pruned or not, and
  names still come while the first pass is under way, so no single set of names is right for what the pass has found so far.
  `Exact` therefore speaks of every superset `E` of the names of which no reference comes too late (`LateFree`, the first half of
  `KnownInTime`): each call in progress has told its items apart by whether they can be built from `E`
  (`CallsFit`), every rule the pass is done with has the choices that can be (`RulesFound`), every item that counts has its own
  set (`Tours`), and what is to be pruned can not be built (`PrunesLost`).  The other direction, that nothing is
  pruned that could be built (`BuildableLive`), goes by the depth d of `Within[d]`.  When `Finalize` ends, a rule that is left
  has a finite depth, and a finite depth is a way to build it.
* `ShortestAreFound` (`ShortestIsLeast`).  `DepthInv` says that a round of `RefDepth` that has changed nothing so far would find
  the same again of every rule it has passed.  The last round changes nothing, so the depths are a fixed point; the rule of least
  depth for which it were not the least one would have an alternative, and a reference in that, of smaller depth still
  (`RuleIsShallow`, `RuleIsBuildable`).  `shortest_indices_` are positions in the reachable choices, and these are
  the alternatives that can be built, so the alternatives they stand for are compared.  Like the property, the theorem
  is about what the calculator finds: a build falls back on those only in a rule whose alternatives are all
  reachable, since or.cpp:131 takes the positions for places in the full list.  Ors inside a rule's alternatives are not
  spoken of.
* `Within`, `CalcRefDepth`, `Needs` and `Adds` are recursive functions on items or depths.  What they return is
  characterised first: two functions that obey the same equation below a height agree there (`NodeInduction`), and
  a failing depth has a least one (`Least`).

**Replay.**  For every grammar, whatever its items do.

* `RecordingsArePreorders`, `LimitsAreBounded`.  A new snapshot is at most one level below the last
  one because the calls of `Rules::Build` in progress are one for each depth from 0 to `ctx.depth`, from the inmost
  out (`Nesting`): a call that returns uncovers one that is exactly one level up.  `TakenInv`
  ties the depth to the last snapshot, `PlanInv` says that the next snapshot a mutation copies fits behind what it has
  copied, and `Recording` is preserved by both.  All other actions of a build replace the top frame by
  frames that are neither rule calls nor returns (`PlainStep`), which one lemma covers.
* `MutationsAreLocal`.  `MutInv` says how far a mutation has come: what has been copied and from
  where (`Copied`), that exactly the positions nested in a changed one are missing (`Covered`), and that the changes
  made, still allowed and announced by the target add up to three (`Budget`).  What is nested in a snapshot is
  the interval up to the next one that is not deeper (`NestedRange`).

**Builds.**  For every grammar, any number of builds, mutations and crashes; a `fault` ends the behaviour.

* `BuildsInOrder`.  That `output` is a string that exists is not inductive, because a frame that ends puts back an
  `output` it saved long before.  `BuildInv` therefore computes for each frame in progress which string was the output and how many
  strings there were when it was on top (`Level`: only `end_pre` and `end_flushed` change the first, only those and a
  `leave` that owns its string the second).  `ChainInv` says that these levels fit: the numbers of strings only grow inwards, an
  output that was saved is below the strings made since, the strings of two levels with their own output differ, the start
  of a store lies within its output.  `Shape` says where the frames of `Rules::Build` may be,
  `Scoping` that the scopes a `SCOPE` restores are there unless a `SCOPE_POP` went below them, `FramesOK` and
  `RulesOK` that the nodes of frames and the items of rules are used by the grammar (`GrammarInv` for the rules while
  `Finalize` makes them).  Almost all actions replace the top frame by a few that are typed alike; one lemma
  (`Splice`, `SameBuildKeeps`) covers what lies below, and a short one per action the rest.
* `TypesAreRight` (`TypeOK`) and `BuildsRestoreTheContext` (`ContextIsRestored`) are read off the invariant with an
  empty stack.
* `FaultsHaveReasons` (`BuildsAreDefined`).  On top of `BuildInv`, `Steady` holds of grammars without FLUSH, the
  one item that moves what is pending elsewhere.  Its `Tame` says that `pre_output` exists until the top rule ends
  (only that rule owns it, every `flushed` restores one that existed), that a frame which will cut `post_items` back
  keeps a length that never exceeds theirs, nor that of a frame further in, and that the final flush is the
  second frame from outside.  `Calm` says that below the final flush nothing
  refers to a rule or is put off, if what the grammar puts off is quiet.  Each action replaces the top frame so that
  both survive (`Settles`); `FailuresAreExplained` then goes through the kinds of fault: a missing scope needs
  SCOPE_POP by `Scoping`, a missing captured value needs the item itself, a missing index a node no pass set one for.

* `ChoicesHaveItems` (`ChoicesAreDefined`).  It needs to know what `Finalize` leaves, which no single step establishes: the
  loop runs until a turn changes nothing, and each pass prunes and adds rules behind its own back.  `FinInv` therefore says what
  a turn that has changed nothing *so far* has been through: each item it has passed is `Ready` (every Or in it has a
  choice and every rule that takes its values is there), each rule it has passed is `Turned` (it has a
  choice, or is one for values, or is about to be pruned), a call in progress has found all items before its place reachable
  (`Passed`), and what was pruned has only come back as a rule for values (`PrunedOK`).  At the end of a turn that
  changed nothing this is true of all rules at once.  `Positions`, the places
  where a list of booleans is true, is a recursive function; what it returns is shown by taking the least
  length at which it would be wrong (`Counts`, `PositionsAre`).
  `ChoiceInv` carries this through the builds: every frame, post and rule has `Sound` items only, a rule in any scope, in `mainRoot`
  or in `origRoot` is `Fine` (it is one for values or has a choice, and its choices are among its items), no rule for
  values has gone from a root (`Collecting`), and each step leads from sound frames to sound frames (`Onward`) and
  leaves the scopes fine (`ScopesFine`).

*Only model-checked:* liveness (`CoverageIsPublished`, `HitsAreShared`, `JoinReturns`); `NestingIsBounded`, which
follows the depths of the analysis through a whole build; and what compares two builds step by step: `CrashFileIsInput`,
`DumpIsInput` and `SnapshotsMeetTheirRules`.

## 5. Not modelled, and the plan

Not modelled for good: I/O, option parsing, printing, the command line tool,
sanitizer glue, byte formatting.  Of randomness, xoshiro and the Gaussian rejection loop, with `use_last_gaussian`, which
no constructor sets (rand.cpp:92).  Two campaigns on one
state path at the same time (`lock.cpp:25` unlinks the semaphore of the first), orphaned tracees after the
main process died, and writing past the end of the map are outside the model.  So are user-defined items (TYPE_CUSTOM), the overloads of Build that make their own
context (tests and examples only), a `ref_depth` that overflows, and a replay longer than
`TRACEE_MAX_LAST_GEN_STATES` (tracee.cpp:77).  The Finalize of a child scope (rules.cpp:78) changes nothing that is read.

In order of importance, still to do:

1. `CampaignState`: `IncNumCrashesIfTrue` and the crash files of several monitors, `SyncStats` under its own lock.
2. `Priority`: decay in small words (the unsigned subtraction at mmap.cpp:269 and 421), private resets, the sorted lists
   (mmap.cpp:275-425, 505-573).
3. Proofs: `SnapshotsMeetTheirRules`, which needs an invariant about a build and the recorded one it follows.
   `NestingIsBounded`, whose invariant would say that every item still to be built under the depth limit fits in what the
   analysis computed for the rule it belongs to.
