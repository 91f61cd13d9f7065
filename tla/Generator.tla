------------------------------ MODULE Generator ----------------------------
(***************************************************************************)
(* Building an input: Rules::Build, the Build methods of the items, the    *)
(* BuildContext and the recorded randomness (Rand, RandSnapshot).          *)
(*                                                                         *)
(* The calls in progress are a stack of frames.  A text is a sequence of   *)
(* tokens: the item that wrote it and, for an item that draws its text,    *)
(* the random state it drew from.                                          *)
(***************************************************************************)
EXTENDS Grammar

CONSTANTS
  RandValues,   \* what Rand::Next returns, as far as choices tell it apart
  MaxNesting    \* bound: ref_depth

ASSUME GeneratorAssumption ==
  RandValues \subseteq Nat /\ RandValues # {} /\ MaxNesting \in Nat

VARIABLES
  work,       \* the frames, innermost first
  ctx,        \* BuildContext; pre and out are positions in bufs
  bufs,       \* the strings that pre_output and output point to; 1 is the result
  rng,        \* the state of ctx.rand: a seed and the number of calls since
  tape,       \* the values Rand::Next has returned, by state
  recording,  \* ShouldRecord
  taken,      \* the snapshots of ctx.rand
  fault,      \* why the behaviour of the program is undefined from here on
  gone        \* history: the calls of Scope::Build whose scope was deleted, by height

genVars == <<work, ctx, bufs, rng, tape, recording, taken, fault, gone>>

Null == 0         \* pre_output is NULL
Dangling == -1    \* pre_output points to a string that is gone

Faults == {"none", "pre_output", "no_items", "no_index", "no_scope", "no_capture", "post_items"}

\* Faulty: the first snapshot counts as used.
NewContextAfterFirst(limit, replay) ==
  [depth |-> 0, limit |-> limit, pre |-> Null, out |-> 1, posts |-> <<>>, captures |-> <<>>,
   replay |-> replay, replayIdx |-> 1]

NewContext(limit, replay) ==
  [depth |-> 0, limit |-> limit, pre |-> Null, out |-> 1, posts |-> <<>>, captures |-> <<>>,
   replay |-> replay, replayIdx |-> 0]

GenInit(seed) ==
  /\ work = <<>>
  /\ ctx = NewContext(0, <<>>)
  /\ bufs = << <<>> >>
  /\ rng = [seed |-> seed, pos |-> 0]
  /\ tape = <<>>
  /\ recording = FALSE
  /\ taken = <<>>
  /\ fault = "none"
  /\ gone = {}

-----------------------------------------------------------------------------
(* Rand::Next: equal states return equal values.                           *)

AfterNext == [rng EXCEPT !.pos = @ + 1]

\* One of n: Next() % n + 1.  The value is left open where it makes no difference.
Draws(n) ==
  IF n = 1 THEN {0} ELSE IF rng \in DOMAIN tape THEN {tape[rng]} ELSE RandValues
Drawn(n, v) == tape' = IF n = 1 THEN tape ELSE (rng :> v) @@ tape

-----------------------------------------------------------------------------
(* Frames and texts.                                                       *)

ItemFrame(n) == [op |-> "item", node |-> n]
ItemFrames(ns) == [i \in DOMAIN ns |-> ItemFrame(ns[i])]
Top == Head(work)

\* The call on top is an item of one of these kinds.
At(kinds) ==
  /\ work # <<>> /\ fault = "none" /\ Top.op = "item"
  /\ Top.node # NoNode /\ Item[Top.node].kind \in kinds
AtOp(op) == work # <<>> /\ fault = "none" /\ Top.op = op

Kids == Item[Top.node].kids
Kid == Kids[1]

\* The frame on top ends and these take its place.
Goto(frames) == work' = frames \o Tail(work)
Return == Goto(<<>>)

Fail(why) ==
  /\ fault' = why
  /\ UNCHANGED <<gramVars, work, ctx, bufs, rng, tape, recording, taken, gone>>

Token(n) == <<n, 0, 0>>
DrawnToken(n) == <<n, rng.seed, rng.pos>>
Output == bufs[ctx.out]
Emit(text) == bufs' = [bufs EXCEPT ![ctx.out] = @ \o text]
Since(start) == SubSeq(Output, start + 1, Len(Output))
WithoutLast(k) == SubSeq(bufs, 1, Len(bufs) - k)

gramRest == <<grammar, names, inline, index, visits, fin>>
randVars == <<rng, tape, recording, taken>>

\* Faulty: one level too late.
DoShortestLate == ctx.depth > ctx.limit

DoShortest == ctx.depth >= ctx.limit

-----------------------------------------------------------------------------
(* Items that write.                                                       *)

BuildRaw ==
  /\ At({"raw"})
  /\ Emit(<<Token(Top.node)>>)
  /\ Return
  /\ UNCHANGED <<gramVars, ctx, randVars, fault, gone>>

\* Int and Str: the text is a function of the random state.
BuildDraw ==
  /\ At({"draw"})
  /\ rng' = AfterNext
  /\ Emit(<<DrawnToken(Top.node)>>)
  /\ Return
  /\ UNCHANGED <<gramVars, ctx, tape, recording, taken, fault, gone>>

IntendsOutput(n) == Item[n].kind \notin {"pre", "post", "scope", "push", "pop", "flush"}

\* The calls that are left of And::Build of n from its item i on.
AndFrom(n, i) ==
  LET kids == Item[n].kids IN
  CASE i > Len(kids) -> <<>>
    [] i = Len(kids) -> <<ItemFrame(kids[i])>>
    [] OTHER         -> <<ItemFrame(kids[i]), [op |-> "and", node |-> n, next |-> i + 1]>>

\* And: a separator comes between items that intend output.
Separated(n, i) ==
  LET kids == Item[n].kids IN
  Item[n].kind = "and_s" /\ IntendsOutput(kids[i]) /\ \E j \in 1..(i - 1) : IntendsOutput(kids[j])

BuildAnd ==
  /\ At({"and", "and_s"})
  /\ Goto(AndFrom(Top.node, 1))
  /\ UNCHANGED <<gramVars, ctx, bufs, randVars, fault, gone>>

NextItem ==
  /\ AtOp("and")
  /\ IF Separated(Top.node, Top.next) THEN Emit(<<Token(Top.node)>>) ELSE UNCHANGED bufs
  /\ Goto(AndFrom(Top.node, Top.next))
  /\ UNCHANGED <<gramVars, ctx, randVars, fault, gone>>

BuildOpt ==
  /\ At({"opt"})
  /\ IF DoShortest THEN Return /\ UNCHANGED <<rng, tape>>
     ELSE \E v \in Draws(2) : /\ Drawn(2, v)
                              /\ rng' = AfterNext
                              /\ IF v % 2 = 0 THEN Return ELSE Goto(<<ItemFrame(Kid)>>)
  /\ UNCHANGED <<gramVars, ctx, bufs, recording, taken, fault, gone>>

BuildEntry(e) ==
  \/ e.node = NoNode /\ Emit(e.text) /\ Return
  \/ e.node # NoNode /\ Goto(<<ItemFrame(e.node)>>) /\ UNCHANGED bufs

\* Faulty: shortest_indices_ is taken even if it was never computed.
ChoiceListShortest(or) ==
  CASE or.keep -> [i \in DOMAIN or.items |-> i]
    [] ~or.keep /\ DoShortest -> or.shortest
    [] OTHER -> or.choice

ChoiceList(or) ==
  CASE or.keep -> [i \in DOMAIN or.items |-> i]
    [] ~or.keep /\ DoShortest /\ or.shortest # <<>> -> or.shortest
    [] OTHER -> or.choice

\* Or::Build of or, an inline item or a rule.
BuildChoice(or) ==
  LET list == ChoiceList(or) IN
  IF list = <<>> \/ \E i \in DOMAIN list : list[i] \notin DOMAIN or.items THEN Fail("no_items")
  ELSE /\ \E v \in Draws(Len(list)), i \in DOMAIN list :
            i = (v % Len(list)) + 1 /\ Drawn(Len(list), v) /\ BuildEntry(or.items[list[i]])
       /\ rng' = IF Len(list) = 1 /\ ~or.keep THEN rng ELSE AfterNext
       /\ UNCHANGED <<gramVars, ctx, recording, taken, fault, gone>>

BuildOr ==
  /\ At({"or"})
  /\ BuildChoice([keep |-> FALSE, items |-> [i \in DOMAIN Kids |-> StaticEntry(Kids[i])],
                  choice |-> inline[Top.node].choice, shortest |-> inline[Top.node].shortest])

BuildRule ==
  /\ AtOp("rule")
  /\ BuildChoice(scopes[Top.scope][Top.rule])

-----------------------------------------------------------------------------
(* Rules::Build and references.                                            *)

\* MaybeDoRandReplay, SnapshotState and the call of Or::Build, for the rule i
\* of the scope s; c and r are the context and the random state by then.  The
\* depth of the frame is history.
Enter(s, i, c, r) ==
  LET replays == c.replayIdx < Len(c.replay) /\ c.replay[c.replayIdx + 1].depth = c.depth
      snap == c.replay[c.replayIdx + 1]
      limit == IF replays THEN snap.limit ELSE c.limit
      state == IF replays THEN snap.state ELSE r
      own == c.pre = Null
  IN /\ rng' = state
     /\ ctx' = [c EXCEPT !.limit = limit, !.replayIdx = IF replays THEN @ + 1 ELSE @,
                         !.pre = IF own THEN Len(bufs) + 1 ELSE @]
     /\ bufs' = IF own THEN Append(bufs, <<>>) ELSE bufs
     /\ taken' = IF recording
                 THEN Append(taken, [depth |-> c.depth, limit |-> limit, rule |-> i, state |-> state])
                 ELSE taken
     /\ Goto(<<[op |-> "rule", scope |-> s, rule |-> i],
               [op |-> "leave", depth |-> c.depth, own |-> own, undo |-> replays, state |-> r,
                limit |-> limit]>>)
     /\ UNCHANGED <<gramVars, recording, fault, gone>>

\* The scopes that have the rule, and the place of one from the inmost one out.
Having(i) == {s \in DOMAIN scopes : ValidRule(s, i)}
Place(s, options) == Cardinality({t \in options : t > s})

\* rule_idx_ is read as whatever was in memory if no pass has set it.
RuleIdx == IF index[Top.node] = -1 THEN 0..Len(names) ELSE {index[Top.node]}

\* Ref::Build up to the Or: a plain reference in an inner scope draws one of the
\* scopes that have the rule.  Nothing is built for a rule that was pruned.
BuildRef ==
  /\ At(RefKinds) /\ ctx.depth < MaxNesting
  /\ \E i \in RuleIdx : LET options == Having(i)
                            deeper == [ctx EXCEPT !.depth = @ + 1] IN
     IF options = {}
     THEN IF Item[Top.node].kind = "scoped" \/ Len(scopes) = 1
          THEN Return /\ UNCHANGED <<gramVars, ctx, bufs, randVars, fault, gone>>
          ELSE Fail("no_items")
     ELSE \E s \in options :
            IF Item[Top.node].kind = "scoped" \/ Len(scopes) = 1
            THEN Place(s, options) = 0 /\ Enter(s, i, deeper, rng) /\ UNCHANGED tape
            ELSE \E v \in Draws(Cardinality(options)) :
                   /\ Place(s, options) = v % Cardinality(options)
                   /\ Drawn(Cardinality(options), v) /\ Enter(s, i, deeper, AfterNext)

\* MaybeUndoRandReplay and, at the top, FlushPrePost; else DecDepth of the reference.
LeaveRule ==
  /\ AtOp("leave")
  /\ rng' = IF Top.undo THEN Top.state ELSE rng
  /\ LET limit == IF Top.undo THEN Top.limit ELSE ctx.limit IN
     IF ctx.depth = 0
     THEN /\ ctx' = [ctx EXCEPT !.limit = limit]
          /\ Goto(<<[op |-> "flush"], [op |-> "end"]>>)
          /\ UNCHANGED bufs
     ELSE /\ ctx' = [ctx EXCEPT !.limit = limit, !.depth = @ - 1,
                                !.pre = IF Top.own /\ @ = Len(bufs) THEN Dangling ELSE @]
          /\ Return
          /\ bufs' = IF Top.own THEN WithoutLast(1) ELSE bufs
  /\ UNCHANGED <<gramVars, tape, recording, taken, fault, gone>>

\* FlushPrePost: the pending text goes in front, then the pending items.
FlushPrePost ==
  IF ctx.pre \in {Null, Dangling} THEN Fail("pre_output")
  ELSE /\ bufs' = [bufs EXCEPT ![ctx.out] = bufs[ctx.pre] \o @, ![ctx.pre] = <<>>]
       /\ Goto(ItemFrames(ctx.posts) \o <<[op |-> "flushed"]>>)
       /\ UNCHANGED <<gramVars, ctx, randVars, fault, gone>>

FlushTop == AtOp("flush") /\ FlushPrePost
BuildFlush == At({"flush"}) /\ FlushPrePost

\* Faulty: the pending items stay.
FlushedPreOnly ==
  /\ AtOp("flushed")
  /\ ctx' = [ctx EXCEPT !.pre = Null]
  /\ Return
  /\ UNCHANGED <<gramVars, bufs, randVars, fault, gone>>

FlushedPrePost ==
  /\ AtOp("flushed")
  /\ ctx' = [ctx EXCEPT !.posts = <<>>, !.pre = Null]
  /\ Return
  /\ UNCHANGED <<gramVars, bufs, randVars, fault, gone>>

\* Rules::Build of the top rule returns; its string for pre output goes.
EndTop ==
  /\ AtOp("end")
  /\ ctx' = [ctx EXCEPT !.pre = Null]
  /\ bufs' = <<bufs[1]>>
  /\ Return
  /\ UNCHANGED <<gramVars, randVars, fault, gone>>

-----------------------------------------------------------------------------
(* Items that redirect the output.                                         *)

\* Pre: the item writes to the pending text; what it leaves pending goes in front.
BuildPre ==
  /\ At({"pre"})
  /\ IF ctx.pre \in {Null, Dangling} THEN Fail("pre_output")
     ELSE /\ bufs' = Append(bufs, <<>>)
          /\ ctx' = [ctx EXCEPT !.out = ctx.pre, !.pre = Len(bufs) + 1]
          /\ Goto(<<ItemFrame(Kid), [op |-> "end_pre", out |-> ctx.out]>>)
          /\ UNCHANGED <<gramVars, randVars, fault, gone>>

\* Faulty: pre_output is left at the string of Pre::Build.
EndPreLeavesPre ==
  /\ AtOp("end_pre")
  /\ bufs' = [WithoutLast(1) EXCEPT ![ctx.out] = bufs[Len(bufs)] \o @]
  /\ ctx' = [ctx EXCEPT !.out = Top.out]
  /\ Return
  /\ UNCHANGED <<gramVars, randVars, fault, gone>>

EndPre ==
  /\ AtOp("end_pre")
  /\ bufs' = [WithoutLast(1) EXCEPT ![ctx.out] = bufs[Len(bufs)] \o @]
  /\ ctx' = [ctx EXCEPT !.pre = ctx.out, !.out = Top.out]
  /\ Return
  /\ UNCHANGED <<gramVars, randVars, fault, gone>>

\* Post: put off.  While FlushPrePost runs over post_items, push_back may move them.
BuildPost ==
  /\ At({"post"})
  /\ \/ /\ ctx' = [ctx EXCEPT !.posts = Append(@, Kid)]
        /\ Return
        /\ UNCHANGED <<gramVars, bufs, randVars, fault, gone>>
     \/ /\ \E i \in DOMAIN work : work[i].op = "flushed"
        /\ Fail("post_items")

\* resize of FlushPrePost's cleared post_items pads with NULL.
BuildNullItem ==
  /\ AtOp("item") /\ Top.node = NoNode
  /\ Fail("post_items")

\* Flushed: the item gets strings of its own, and its pending items follow at once.
BuildFlushed ==
  /\ At({"flushed"})
  /\ bufs' = bufs \o << <<>>, <<>> >>
  /\ ctx' = [ctx EXCEPT !.pre = Len(bufs) + 1, !.out = Len(bufs) + 2]
  /\ Goto(<<ItemFrame(Kid), [op |-> "end_flushed", out |-> ctx.out, pre |-> ctx.pre,
                             posts |-> Len(ctx.posts)]>>)
  /\ UNCHANGED <<gramVars, randVars, fault, gone>>

\* Faulty: pre_output is reset and not restored.
EndFlushedResets ==
  /\ AtOp("end_flushed")
  /\ bufs' = [WithoutLast(2) EXCEPT ![Top.out] = @ \o bufs[Len(bufs) - 1] \o bufs[Len(bufs)]]
  /\ ctx' = [ctx EXCEPT !.pre = Null, !.out = Top.out]
  /\ Goto(<<[op |-> "posts", next |-> Top.posts + 1, keep |-> Top.posts]>>)
  /\ UNCHANGED <<gramVars, randVars, fault, gone>>

EndFlushed ==
  /\ AtOp("end_flushed")
  /\ bufs' = [WithoutLast(2) EXCEPT ![Top.out] = @ \o bufs[Len(bufs) - 1] \o bufs[Len(bufs)]]
  /\ ctx' = [ctx EXCEPT !.pre = Top.pre, !.out = Top.out]
  /\ Goto(<<[op |-> "posts", next |-> Top.posts + 1, keep |-> Top.posts]>>)
  /\ UNCHANGED <<gramVars, randVars, fault, gone>>

NextPost ==
  /\ AtOp("posts")
  /\ IF Top.next <= Len(ctx.posts)
     THEN /\ Goto(<<ItemFrame(ctx.posts[Top.next]),
                    [op |-> "posts", next |-> Top.next + 1, keep |-> Top.keep]>>)
          /\ UNCHANGED ctx
     ELSE /\ ctx' = [ctx EXCEPT !.posts =
                       [i \in 1..Top.keep |-> IF i <= Len(@) THEN @[i] ELSE NoNode]]
          /\ Return
  /\ UNCHANGED <<gramVars, bufs, randVars, fault, gone>>

-----------------------------------------------------------------------------
(* Items that remember.                                                    *)

\* Captures are kept by depth of reference.
BuildCapture ==
  /\ At({"capture"})
  /\ Goto(<<ItemFrame(Kid), [op |-> "end_capture", start |-> Len(Output)]>>)
  /\ UNCHANGED <<gramVars, ctx, bufs, randVars, fault, gone>>

EndCapture ==
  /\ AtOp("end_capture")
  /\ LET d == ctx.depth + 1
         size == IF Len(ctx.captures) < d THEN d ELSE Len(ctx.captures) IN
     ctx' = [ctx EXCEPT !.captures =
               [i \in 1..size |-> IF i = d THEN Since(Top.start)
                                  ELSE IF i <= Len(@) THEN @[i] ELSE <<>>]]
  /\ Return
  /\ UNCHANGED <<gramVars, bufs, randVars, fault, gone>>

BuildCaptured ==
  /\ At({"captured"})
  /\ IF ctx.depth + 1 > Len(ctx.captures) THEN Fail("no_capture")
     ELSE /\ Emit(ctx.captures[ctx.depth + 1])
          /\ Return
          /\ UNCHANGED <<gramVars, ctx, randVars, fault, gone>>

\* Rules::AddRule by index in ctx.rules, after ClearRuleValues if clobber.
AddRawRule(i, text, clobber) ==
  LET s == Len(scopes)
      or == scopes[s][i]
      added == IF ~or.live THEN [NewOr EXCEPT !.keep = s > 1 /\ Root[i].keep]
               ELSE IF clobber THEN [or EXCEPT !.items = <<>>, !.choice = <<>>, !.shortest = <<>>]
               ELSE or
  IN scopes' = [scopes EXCEPT ![s][i] = [added EXCEPT !.items = Append(@, RawEntry(text))]]

BuildId ==
  /\ At({"id"})
  /\ \E i \in RuleIdx :
     IF i = 0 THEN Fail("no_index")
     ELSE /\ rng' = AfterNext
          /\ AddRawRule(i, <<DrawnToken(Top.node)>>, FALSE)
          /\ Emit(<<DrawnToken(Top.node)>>)
          /\ Return
          /\ UNCHANGED <<gramRest, ctx, tape, recording, taken, fault, gone>>

BuildStore ==
  /\ At(StoreKinds)
  /\ Goto(<<ItemFrame(Kid), [op |-> "end_store", node |-> Top.node, start |-> Len(Output)]>>)
  /\ UNCHANGED <<gramVars, ctx, bufs, randVars, fault, gone>>

EndStore ==
  /\ AtOp("end_store")
  /\ \E i \in RuleIdx : LET kind == Item[Top.node].kind
                            text == Since(Top.start) IN
     IF text = <<>> THEN Return /\ UNCHANGED <<gramVars, ctx, bufs, randVars, fault, gone>>
     ELSE IF i = 0 THEN Fail("no_index")
     ELSE /\ AddRawRule(i, text, kind \in {"set", "iset"})
          /\ bufs' = IF kind \in {"istore", "iset"}
                     THEN [bufs EXCEPT ![ctx.out] = SubSeq(@, 1, Top.start)] ELSE bufs
          /\ Return
          /\ UNCHANGED <<gramRest, ctx, randVars, fault, gone>>

-----------------------------------------------------------------------------
(* Scopes.                                                                 *)

\* NewChild: an empty rule manager with the names of its parent.
PushScope == scopes' = Append(scopes, [i \in DOMAIN Root |-> NoRule])

BuildScope ==
  /\ At({"scope"})
  /\ PushScope
  /\ Goto(<<ItemFrame(Kid), [op |-> "end_scope", outer |-> Len(scopes)]>>)
  /\ UNCHANGED <<gramRest, ctx, bufs, randVars, fault, gone>>

\* The calls of Scope::Build that delete the inmost scope when they return.
Deleting ==
  {Len(work) + 1 - i :
     i \in {j \in DOMAIN work : work[j].op = "end_scope" /\ work[j].outer = Len(scopes) - 1}}

\* A scope that the item has popped is deleted twice, even if it has pushed another.
EndScope ==
  /\ AtOp("end_scope")
  /\ IF Len(scopes) <= Top.outer \/ Len(work) \in gone THEN Fail("no_scope")
     ELSE /\ scopes' = SubSeq(scopes, 1, Top.outer)
          /\ Return
          /\ UNCHANGED <<gramRest, ctx, bufs, randVars, fault, gone>>

BuildScopeAction ==
  /\ At({"push", "pop"})
  /\ IF Item[Top.node].kind = "pop" /\ Len(scopes) = 1 THEN Fail("no_scope")
     ELSE /\ IF Item[Top.node].kind = "push" THEN PushScope /\ UNCHANGED gone
             ELSE scopes' = SubSeq(scopes, 1, Len(scopes) - 1) /\ gone' = gone \cup Deleting
          /\ Return
          /\ UNCHANGED <<gramRest, ctx, bufs, randVars, fault>>

-----------------------------------------------------------------------------

\* Rules::Build of the rule that ResmackGrammarInit returned, the first one.
BuildTop ==
  /\ AtOp("top")
  /\ IF ValidRule(1, 1) THEN Enter(1, 1, ctx, rng) /\ UNCHANGED tape
     ELSE Return /\ UNCHANGED <<gramVars, ctx, bufs, randVars, fault, gone>>

BuildStep ==
  \/ BuildTop \/ BuildRef \/ BuildRule \/ LeaveRule
  \/ FlushTop \/ BuildFlush \/ FlushedPrePost \/ EndTop
  \/ BuildRaw \/ BuildDraw \/ BuildAnd \/ NextItem \/ BuildOpt \/ BuildOr
  \/ BuildPre \/ EndPre \/ BuildPost \/ BuildNullItem \/ BuildFlushed \/ EndFlushed \/ NextPost
  \/ BuildCapture \/ EndCapture \/ BuildCaptured \/ BuildId \/ BuildStore \/ EndStore
  \/ BuildScope \/ EndScope \/ BuildScopeAction

=============================================================================
