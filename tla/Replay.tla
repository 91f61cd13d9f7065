------------------------------- MODULE Replay -------------------------------
(***************************************************************************)
(* The life of an input in one fuzzing process and its monitor: made from  *)
(* scratch or from a mutated recording, run, recorded in the corpus,       *)
(* rebuilt by HandleException after a crash and by DumpCorpus later.       *)
(* libresmack_fuzz_main/src/main.cpp, libresmack_fuzz/src/mutate.cpp.      *)
(***************************************************************************)
EXTENDS Generator

CONSTANTS
  MaxDepth,      \* OPTS.max_depth
  MaxIters,      \* bound: iterations of FuzzLoop, by grammar
  MaxCrashes,    \* bound: crashes
  MaxEntries     \* bound: corpus entries

ASSUME ReplayAssumption ==
  /\ MaxDepth \in Nat \ {0}
  /\ MaxIters \in [Grammars -> Nat] /\ {MaxCrashes, MaxEntries} \subseteq Nat

VARIABLES
  at,        \* the place in the program
  who,       \* FuzzLoop, HandleException or DumpCorpus
  corpus,    \* the entries' snapshots; history: their texts and whether made with pristine rules
  mutated,   \* mutated_replay of FuzzLoop
  plan,      \* locals of MutateRandSnapshot; history: where mutated comes from
  saved,     \* last_gen_state of the tracee, in shared memory
  mainRoot,  \* the rules of the main process, which forks inherit
  origRoot,  \* the rules as ResmackGrammarInit and Finalize leave them
  crash,     \* history: the input that crashed and how it was made
  pristine,  \* history: the build in progress began with origRoot and no other scope
  seeds, iters, crashes, dumped

loopVars == <<corpus, mutated, plan, saved, mainRoot, origRoot, crash>>
counts   == <<seeds, iters, crashes, dumped>>
vars     == <<gramVars, genVars, at, who, loopVars, pristine, counts>>

Seed(k) == [seed |-> k, pos |-> 0]
Fresh == Seed(seeds + 1)
UsesSeed == seeds' = seeds + 1

NoPlan == [orig |-> <<>>, cur |-> 1, target |-> 0, left |-> 0, from |-> <<>>, new |-> {}]
NoCrash == [input |-> <<>>, replayed |-> FALSE, pristine |-> FALSE]

Init ==
  /\ GrammarInit
  /\ GenInit(0)
  /\ at = "finalize" /\ who = "loop"
  /\ corpus = <<>> /\ mutated = <<>> /\ plan = NoPlan /\ saved = <<>>
  /\ mainRoot = <<>> /\ origRoot = <<>> /\ crash = NoCrash /\ pristine = FALSE
  /\ seeds = 0 /\ iters = 0 /\ crashes = 0 /\ dumped = 0

-----------------------------------------------------------------------------

FinalizeStep ==
  /\ at = "finalize" /\ Finalize
  /\ UNCHANGED <<genVars, at, who, loopVars, pristine, counts>>

\* A fuzzing process begins FuzzLoop with the rules of the main process.
Forked(rules) ==
  /\ at' = "top" /\ who' = "loop"
  /\ scopes' = <<rules>>
  /\ ctx' = NewContext(MaxDepth, <<>>)
  /\ rng' = Fresh /\ UsesSeed
  /\ recording' = TRUE
  /\ mutated' = <<>>

\* main has finalized the rules and launches its tracers.
LaunchCampaign ==
  /\ at = "finalize" /\ fin.pass = "done"
  /\ Forked(Root)
  /\ fin' = [fin EXCEPT !.pass = "over"]
  /\ mainRoot' = Root /\ origRoot' = Root
  /\ UNCHANGED <<grammar, names, inline, index, visits, work, bufs, tape, taken, fault, gone,
                 corpus, plan, saved, crash, pristine, iters, crashes, dumped>>

\* Faulty: SnapshotClear() is forgotten.
StartBuildKeepsTaken(c) ==
  /\ at' = "build"
  /\ ctx' = c
  /\ work' = <<[op |-> "top"]>>
  /\ bufs' = << <<>> >> /\ UNCHANGED taken /\ gone' = {}
  /\ pristine' = (scopes' = <<origRoot>>)

\* output.clear(), SnapshotClear() and the call of Rules::Build.
StartBuild(c) ==
  /\ at' = "build"
  /\ ctx' = c
  /\ work' = <<[op |-> "top"]>>
  /\ bufs' = << <<>> >> /\ taken' = <<>> /\ gone' = {}
  /\ pristine' = (scopes' = <<origRoot>>)

\* The loop from its top to Rules::Build, with a new input.  The mutated replay
\* of an earlier iteration stays where it is.
Create ==
  /\ at = "top" /\ iters < MaxIters[grammar]
  /\ iters' = iters + 1
  /\ UNCHANGED scopes
  /\ \E d \in 1..MaxDepth :
       StartBuild([ctx EXCEPT !.replay = <<>>, !.replayIdx = 0, !.limit = d])
  /\ UNCHANGED <<gramRest, rng, tape, recording, fault, who, loopVars, seeds, crashes, dumped>>

-----------------------------------------------------------------------------
(* Mutation of a recording.                                                *)

\* GetItem, and MutateRandSnapshot up to its loop.
PickInput ==
  /\ at = "top" /\ iters < MaxIters[grammar] /\ corpus # <<>>
  /\ iters' = iters + 1
  /\ mutated' = <<>>
  /\ at' = "mutate"
  /\ \E e \in ToSet(corpus) :
       LET size == Len(e.snaps) IN
       IF size <= 1 THEN plan' = NoPlan
       ELSE \E k \in 1..(size - 1) :
              plan' = [NoPlan EXCEPT !.orig = e.snaps, !.target = k + 1,
                                     !.left = IF k > 3 THEN 2 ELSE k - 1]
  /\ UNCHANGED <<gramVars, genVars, who, corpus, saved, mainRoot, origRoot, crash, pristine,
                 seeds, crashes, dumped>>

Mutating == at = "mutate" /\ plan.cur <= Len(plan.orig)
Current == plan.orig[plan.cur]

\* Faulty: nothing is dropped.
AfterNestedNext(snaps, i) == i + 1

\* Faulty: what follows at the same depth is dropped too.
AfterNestedLevel(snaps, i) ==
  MinIn({Len(snaps) + 1} \cup {j \in (i + 1)..Len(snaps) : snaps[j].depth < snaps[i].depth})

\* The position after the snapshots that were taken inside the one at i.
AfterNested(snaps, i) ==
  MinIn({Len(snaps) + 1} \cup {j \in (i + 1)..Len(snaps) : snaps[j].depth <= snaps[i].depth})

KeepSnapshot ==
  /\ Mutating /\ plan.cur # plan.target
  /\ mutated' = Append(mutated, Current)
  /\ plan' = [plan EXCEPT !.cur = @ + 1, !.from = Append(@, plan.cur)]
  /\ UNCHANGED <<gramVars, genVars, at, who, corpus, saved, mainRoot, origRoot, crash, pristine,
                 counts>>

\* Faulty: the new limit counts from the old one.
NewLimitsAbove(limit) == {limit + d : d \in 0..(MaxDepth - 1)}

\* What the limit of a snapshot may be changed to.
NewLimits(limit) ==
  (IF limit < MaxDepth THEN limit..(MaxDepth - 1) ELSE {}) \cup
  (IF limit > 0 THEN 0..(limit - 1) ELSE {})

\* CascadeMutatedState: a new state or limit, and nothing that was nested in it.
MutateSnapshot ==
  /\ Mutating /\ plan.cur = plan.target
  /\ \E limit \in {Current.limit} \cup NewLimits(Current.limit), fresh \in BOOLEAN :
       /\ fresh \/ limit \in NewLimits(Current.limit)
       /\ IF fresh THEN UsesSeed ELSE UNCHANGED seeds
       /\ mutated' = Append(mutated, [depth |-> Current.depth, limit |-> limit, rule |-> Current.rule,
                                      state |-> IF fresh THEN Fresh ELSE Current.state])
  /\ \E target \in IF plan.left > 0 /\ plan.cur # Len(plan.orig)
                   THEN (plan.cur + 1)..Len(plan.orig) ELSE {plan.target} :
       plan' = [plan EXCEPT !.cur = AfterNested(plan.orig, plan.cur), !.target = target,
                            !.left = IF @ > 0 /\ plan.cur # Len(plan.orig) THEN @ - 1 ELSE @,
                            !.from = Append(@, plan.cur), !.new = @ \cup {plan.cur}]
  /\ UNCHANGED <<gramVars, genVars, at, who, corpus, saved, mainRoot, origRoot, crash, pristine,
                 iters, crashes, dumped>>

\* SetReplay and Rules::Build.  ctx.max_depth stays what the last build left.
BuildMutated ==
  /\ at = "mutate" /\ plan.cur > Len(plan.orig)
  /\ UNCHANGED scopes
  /\ StartBuild([ctx EXCEPT !.replay = mutated, !.replayIdx = 0])
  /\ plan' = NoPlan
  /\ UNCHANGED <<gramRest, rng, tape, recording, fault, who, corpus, mutated, saved, mainRoot,
                 origRoot, crash, counts>>

-----------------------------------------------------------------------------
(* The build and what follows it.                                          *)

Build ==
  /\ at = "build" /\ BuildStep
  /\ UNCHANGED <<at, who, loopVars, pristine, counts>>

Built(w) == at = "build" /\ work = <<>> /\ who = w

\* SaveLastReplay, and a run of the target that brings nothing new.
RunQuietly ==
  /\ Built("loop")
  /\ saved' = mutated
  /\ at' = "top"
  /\ UNCHANGED <<gramVars, genVars, who, corpus, mutated, plan, mainRoot, origRoot, crash, pristine,
                 counts>>

\* New coverage: AddRandSnapshotIfNotSeen.
RunWithNews ==
  /\ Built("loop") /\ Len(corpus) < MaxEntries
  /\ saved' = mutated
  /\ corpus' = Append(corpus, [snaps |-> taken, text |-> bufs[1], pristine |-> pristine])
  /\ at' = "top"
  /\ UNCHANGED <<gramVars, genVars, who, mutated, plan, mainRoot, origRoot, crash, pristine, counts>>

\* The target crashes: HandleException rebuilds the input in the main process,
\* with a context, a Rand and rules of its own.
RunAndCrash ==
  /\ Built("loop") /\ crashes < MaxCrashes
  /\ saved' = mutated
  /\ crash' = [input |-> bufs[1], replayed |-> ctx.replay # <<>>, pristine |-> pristine]
  /\ who' = "handler"
  /\ scopes' = <<mainRoot>>
  /\ StartBuild(NewContext(MaxDepth, mutated))
  /\ rng' = Fresh /\ UsesSeed
  /\ recording' = FALSE
  /\ crashes' = crashes + 1
  /\ UNCHANGED <<gramRest, tape, fault, corpus, mutated, plan, mainRoot, origRoot, iters, dumped>>

\* The crash file is written and the tracer forks the next process.
Relaunch ==
  /\ Built("handler")
  /\ mainRoot' = Root
  /\ Forked(Root)
  /\ crash' = NoCrash
  /\ UNCHANGED <<gramRest, work, bufs, tape, taken, fault, gone, corpus, plan, saved, origRoot,
                 pristine, iters, crashes, dumped>>

\* A later run of the program that only dumps the corpus.
StartDump ==
  /\ at = "top" /\ corpus # <<>>
  /\ at' = "dump" /\ who' = "dump"
  /\ scopes' = <<origRoot>>
  /\ ctx' = NewContext(MaxDepth, <<>>)
  /\ rng' = Fresh /\ UsesSeed
  /\ recording' = FALSE
  /\ mutated' = <<>> /\ saved' = <<>>
  /\ UNCHANGED <<gramRest, work, bufs, tape, taken, fault, gone, corpus, plan, mainRoot, origRoot,
                 crash, pristine, iters, crashes, dumped>>

\* Faulty: replay_idx goes on from the last entry.
DumpEntryGoesOn ==
  /\ at = "dump" \/ Built("dump")
  /\ dumped < Len(corpus)
  /\ dumped' = dumped + 1
  /\ UNCHANGED scopes
  /\ StartBuild([ctx EXCEPT !.replay = corpus[dumped + 1].snaps])
  /\ UNCHANGED <<gramRest, rng, tape, recording, fault, who, loopVars, seeds, iters, crashes>>

\* The next entry; one context and one Rand serve all.
DumpEntry ==
  /\ at = "dump" \/ Built("dump")
  /\ dumped < Len(corpus)
  /\ dumped' = dumped + 1
  /\ UNCHANGED scopes
  /\ StartBuild([ctx EXCEPT !.replay = corpus[dumped + 1].snaps, !.replayIdx = 0])
  /\ UNCHANGED <<gramRest, rng, tape, recording, fault, who, loopVars, seeds, iters, crashes>>

Next ==
  \/ FinalizeStep \/ LaunchCampaign
  \/ Create \/ PickInput \/ KeepSnapshot \/ MutateSnapshot \/ BuildMutated
  \/ Build
  \/ RunQuietly \/ RunWithNews \/ RunAndCrash \/ Relaunch
  \/ StartDump \/ DumpEntry

Spec == Init /\ [][Next]_vars

-----------------------------------------------------------------------------
(* Properties.                                                             *)

Texts == Seq(Nodes \X Nat \X Nat)
States == [seed: Nat, pos: Nat]
Snapshots == [depth: Nat, limit: Nat, rule: Nat, state: States]

TypeOK ==
  /\ at \in {"finalize", "top", "mutate", "build", "dump"}
  /\ who \in {"loop", "handler", "dump"}
  /\ fault \in Faults
  /\ mutated \in Seq(Snapshots) /\ saved \in Seq(Snapshots) /\ taken \in Seq(Snapshots)
  /\ corpus \in Seq([snaps: Seq(Snapshots), text: Texts, pristine: BOOLEAN])
  /\ bufs \in Seq(Texts) /\ ctx.out \in 1..Len(bufs) /\ ctx.pre \in -1..Len(bufs)
  /\ rng \in States

Recordings ==
  {corpus[k].snaps : k \in DOMAIN corpus} \cup {taken, mutated, saved, ctx.replay, plan.orig}

\* Every recording lists the rules from the outside in: the top rule first, then
\* each at most one level deeper than the one before.  A replay is matched by
\* depth alone (build_context.cpp:41), and the nested snapshots of a mutated
\* one are recognised by depth (mutate.cpp:23).
RecordedIsPreorder ==
  \A snaps \in Recordings :
    \A k \in DOMAIN snaps :
      IF k = 1 THEN snaps[k].depth = 0 ELSE snaps[k].depth \in 1..(snaps[k - 1].depth + 1)

\* No recorded limit, and no limit a build runs with, exceeds --max-depth, through
\* any number of generations of mutation (main.cpp:437, mutate.cpp:60-69).
LimitsWithinMaxDepth ==
  /\ ctx.limit <= MaxDepth
  /\ \A snaps \in Recordings : \A k \in DOMAIN snaps : snaps[k].limit <= MaxDepth

Nested(snaps, i) ==
  {j \in DOMAIN snaps : j > i /\ \A k \in (i + 1)..j : snaps[k].depth > snaps[i].depth}

\* A mutation changes at most three rules and never the top one, drops what
\* was nested in those, whatever its targets were, and leaves the rest as and where
\* it was (mutate.cpp:30-98).
MutationIsLocal ==
  at = "mutate" /\ plan.orig # <<>> /\ plan.cur > Len(plan.orig) =>
    /\ plan.new # {} /\ 1 \notin plan.new /\ Cardinality(plan.new) <= 3
    /\ ToSet(plan.from) = DOMAIN plan.orig \ UNION {Nested(plan.orig, i) : i \in plan.new}
    /\ \A k \in DOMAIN mutated :
         LET was == plan.orig[plan.from[k]] IN
         /\ k > 1 => plan.from[k - 1] < plan.from[k]
         /\ IF plan.from[k] \in plan.new
            THEN mutated[k].depth = was.depth /\ mutated[k].rule = was.rule
            ELSE mutated[k] = was

Refers[n \in Nodes] == Item[n].kind \in RefKinds \/ \E k \in ToSet(Item[n].kids) : Refers[k]
\* A random choice, or one that depends on the limit, in the rule of n itself;
\* with scopes a reference is one too.
Chooses[n \in Nodes, scoped \in BOOLEAN] ==
  \/ Item[n].kind \in {"draw", "or", "opt", "id"}
  \/ Item[n].kind \in RefKinds /\ scoped
  \/ \E k \in ToSet(Item[n].kids) : Chooses[k, scoped]

Referring == {n \in Nodes : Refers[n]}
Choosing == [scoped \in BOOLEAN |-> {n \in Nodes : Chooses[n, scoped]}]
Chosen == Choosing[Uses({"scope", "push"})]

\* rule_idx_ is set wherever it is read.
IndexesAreSet == \A n \in Used \cap NameNodes : index[n] # -1

\* And put off items choose nothing.
Repeatable ==
  IndexesAreSet /\ \A n \in Used : Item[n].kind = "post" => n \notin Chosen \cup Referring

\* No rule chooses anything after a reference.
ChoosesFirst ==
  LET chosen == Chosen IN
  \A n \in Used : Item[n].kind \in {"and", "and_s"} =>
    \A i, j \in DOMAIN Item[n].kids :
      i < j /\ Item[n].kids[i] \in Referring => Item[n].kids[j] \notin chosen

\* The file HandleException writes is the input that crashed if this was made from
\* a mutated replay (main.cpp:540-549): a different Rand, context and process
\* make no difference.  Values that rules collect do; so do items that are put
\* off and choose.
CrashFileIsInput ==
  Built("handler") /\ crash.replayed /\ crash.pristine /\ pristine /\ Repeatable =>
    bufs[1] = crash.input

\* What the option --crashes promises and the comment on the rebuild says: the file
\* is the crashing input.  An input from scratch leaves mutated_replay as an earlier
\* iteration had it, and that is what is saved and rebuilt (main.cpp:435-437, 467).
CrashFileIsAlwaysInput ==
  Built("handler") /\ crash.pristine /\ pristine /\ Repeatable => bufs[1] = crash.input

\* What DumpCorpus writes for an entry is the input that brought the new coverage
\* (main.cpp:604-638), also if that came from a mutation or another entry was dumped
\* before.  A choice that follows a reference is not repeated: on replay it draws
\* from the state before the reference (build_context.cpp:54-61), hence ChoosesFirst.
DumpIsInput ==
  Built("dump") /\ corpus[dumped].pristine /\ pristine /\ Repeatable /\ ChoosesFirst =>
    bufs[1] = corpus[dumped].text

\* Every snapshot of a replay is used for the rule it was taken of, and none is
\* left over, although only depths are compared and mutated rules have
\* other nested rules than those recorded (build_context.cpp:34-52).
SnapshotsMeetTheirRules ==
  [][LET uses == work # <<>> /\ ctx'.replayIdx = ctx.replayIdx + 1
         ends == work # <<>> /\ work' = <<>> IN
     (uses \/ ends) /\ pristine /\ Repeatable /\ ChoosesFirst =>
       /\ uses => ctx.replay[ctx'.replayIdx].rule = Head(work').rule
       /\ ends => ctx'.replayIdx = Len(ctx.replay)]_vars

\* What the grammar itself gives to rules that collect values refers to nothing.
ValuesAreFlat ==
  \A i \in DOMAIN origRoot : origRoot[i].keep =>
    \A k \in DOMAIN origRoot[i].items : origRoot[i].items[k].node \notin Referring

\* No Or was built without items.
OrsHaveItems == \A n \in Used : Item[n].kind = "or" => Item[n].kids # <<>>

\* What an item puts off refers to nothing and puts nothing off.
PostsAreQuiet ==
  \A n \in Used : Item[n].kind = "post" =>
    \A m \in Below[Item[n].kids[1]] : Item[m].kind \notin RefKinds \cup {"post"}

\* References nest no deeper than --max-depth and then the way to the least
\* nesting (or.cpp:34, opt.cpp:19), with limits that change in the middle of
\* a replay.  Of an Or with alternatives that cannot be reached the wrong ones
\* count as shortest (or.cpp:131): with all indices set there is only the empty Or
\* to be one.  FLUSH builds, deep inside, what was put off elsewhere.
NestingIsBounded ==
  /\ ctx.depth > MaxDepth /\ IndexesAreSet /\ OrsHaveItems /\ ValuesAreFlat
  /\ Uses({"flush"}) => PostsAreQuiet
  => \E i \in DOMAIN origRoot : origRoot[i].live /\ ctx.depth <= MaxDepth + fin.depths[i]

\* FuzzLoop and DumpCorpus use one context for all builds: each build leaves it
\* as it found it, apart from limit and captures.
ContextIsRestored ==
  (\E w \in {"loop", "handler", "dump"} : Built(w)) =>
    /\ ctx.depth = 0 /\ ctx.out = 1 /\ ctx.pre = Null /\ ctx.posts = <<>> /\ Len(bufs) = 1
    /\ Uses({"push", "pop"}) \/ Len(scopes) = 1

SomeRuleIsEmpty ==
  \E i \in DOMAIN names : \/ \E s \in DOMAIN scopes : ValidRule(s, i) /\ scopes[s][i].items = <<>>
                          \/ \A s \in DOMAIN scopes : ~ValidRule(s, i)

\* Behaviour is undefined only where a grammar uses an item that cannot be used
\* everywhere (FLUSH, SCOPE_POP, CAPTURED) or posts from a post, or no pass has set
\* an index: on the way through PRE, POST, FLUSHED, references and scopes a
\* pre_output, an item or a scope that is gone is never met.
BuildsAreDefined ==
  /\ fault = "pre_output" => Uses({"flush"})
  /\ fault = "post_items" => Uses({"flush"}) \/ ~PostsAreQuiet
  /\ fault = "no_scope" => Uses({"pop"})
  /\ fault = "no_capture" => Uses({"captured"})
  /\ fault = "no_index" => ~IndexesAreSet

\* A choice has something to choose from unless the grammar has an Or without
\* items, a rule for collected values is empty or an item was never visited: what
\* Finalize leaves of a choice is what can be built (reach.cpp, or.cpp:24-46,
\* rule_man.cpp:158-174), also of a choice inside an item that is never left out.
ChoicesAreDefined ==
  fault = "no_items" => SomeRuleIsEmpty \/ ~OrsHaveItems \/ ~IndexesAreSet

=============================================================================
