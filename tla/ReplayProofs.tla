---------------------------- MODULE ReplayProofs ----------------------------
(***************************************************************************)
(* Theorems about Replay, for every grammar, every --max-depth and any     *)
(* number of iterations, crashes and entries.  What is proved concerns the *)
(* recordings and MutateRandSnapshot: it needs the frames of the calls in  *)
(* progress, but not what the items of a grammar do with the output.       *)
(***************************************************************************)
EXTENDS Replay, FiniteSetTheorems, WellFoundedInduction, TLAPS

-----------------------------------------------------------------------------
(* Sequences of anything, and least elements.                              *)

AnySeq(s) == \E S : s \in Seq(S)

LEMMA Least ==
  ASSUME NEW S \in SUBSET Nat, S # {}
  PROVE  MinIn(S) \in S /\ \A y \in S : MinIn(S) <= y
<1>1. PICK x \in S : \A y \in S : ~ (<<y, x>> \in OpToRel(<, Nat))
  BY NatLessThanWellFounded, WFMin
<1>2. \A y \in S : ~ (y < x)
  BY <1>1 DEF OpToRel
<1>3. \A y \in S : x <= y
  BY <1>2
<1> QED BY <1>3 DEF MinIn

LEMMA NoItems == AnySeq(<<>>) /\ Len(<<>>) = 0
<1>1. <<>> \in Seq(Nat) /\ Len(<<>>) = 0
  OBVIOUS
<1> QED BY <1>1 DEF AnySeq

LEMMA ShortSeq == ASSUME NEW a, NEW b PROVE AnySeq(<<a>>) /\ AnySeq(<<a, b>>)
<1>1. <<a>> \in Seq({a}) /\ <<a, b>> \in Seq({a, b})
  OBVIOUS
<1> QED BY <1>1 DEF AnySeq

LEMMA Joined ==
  ASSUME NEW f, NEW w, AnySeq(f), AnySeq(w), w # <<>>
  PROVE  /\ AnySeq(f \o Tail(w)) /\ Len(f) \in Nat /\ Len(w) \in Nat \ {0} /\ Head(w) = w[1]
         /\ Len(f \o Tail(w)) = Len(f) + Len(w) - 1
         /\ \A i \in 1..Len(f) : (f \o Tail(w))[i] = f[i]
         /\ \A i \in (Len(f) + 1)..(Len(f) + Len(w) - 1) : (f \o Tail(w))[i] = w[i - Len(f) + 1]
<1>1. PICK S : f \in Seq(S)
  BY DEF AnySeq
<1>2. PICK T : w \in Seq(T)
  BY DEF AnySeq
<1>3. f \in Seq(S \cup T) /\ w \in Seq(S \cup T)
  BY <1>1, <1>2
<1>4. f \o Tail(w) \in Seq(S \cup T)
  BY <1>3
<1>5. Len(f \o Tail(w)) = Len(f) + Len(w) - 1
  BY <1>3
<1> QED BY <1>3, <1>4, <1>5 DEF AnySeq

LEMMA Appended ==
  ASSUME NEW s, NEW x, AnySeq(s)
  PROVE  /\ AnySeq(Append(s, x)) /\ Len(s) \in Nat /\ Len(Append(s, x)) = Len(s) + 1
         /\ \A i \in 1..Len(s) : Append(s, x)[i] = s[i]
         /\ Append(s, x)[Len(s) + 1] = x
<1>1. PICK S : s \in Seq(S)
  BY DEF AnySeq
<1>2. s \in Seq(S \cup {x})
  BY <1>1
<1> QED BY <1>2 DEF AnySeq

LEMMA SeqFacts ==
  ASSUME NEW s, AnySeq(s)
  PROVE  Len(s) \in Nat /\ DOMAIN s = 1..Len(s) /\ (s = <<>> <=> Len(s) = 0)
  BY DEF AnySeq

-----------------------------------------------------------------------------
(* The invariant.                                                          *)

\* A recording that lists rules from the outside in, with limits in range.
Recording(s) ==
  /\ AnySeq(s)
  /\ \A k \in 1..Len(s) : s[k].depth \in Nat /\ s[k].limit \in 0..MaxDepth
  /\ \A k \in 1..Len(s) : IF k = 1 THEN s[k].depth = 0 ELSE s[k].depth \in 1..(s[k - 1].depth + 1)

Context(c) ==
  /\ c = [depth |-> c.depth, limit |-> c.limit, pre |-> c.pre, out |-> c.out, posts |-> c.posts,
          captures |-> c.captures, replay |-> c.replay, replayIdx |-> c.replayIdx]
  /\ c.depth \in Nat /\ c.limit \in 0..MaxDepth /\ c.replayIdx \in Nat
  /\ AnySeq(c.posts) /\ Recording(c.replay)

\* What the frames that are read later hold.
Frame(f) ==
  /\ f.op = "leave" => f.depth \in Nat /\ f.limit \in 0..MaxDepth
  /\ f.op = "end_flushed" => f.posts \in Nat
  /\ f.op = "posts" => f.keep \in Nat

\* The calls of Rules::Build in progress: one for each depth, from the inmost out.
Nesting(w, depth) ==
  /\ \A i \in 1..Len(w) : w[i].op = "leave" => w[i].depth <= depth
  /\ \A i, j \in 1..Len(w) : w[i].op = "leave" /\ w[j].op = "leave" /\ i < j => w[i].depth > w[j].depth
  /\ \A d \in 1..depth : \E i \in 1..Len(w) : w[i].op = "leave" /\ w[i].depth = d

StackInv ==
  /\ AnySeq(work) /\ \A i \in 1..Len(work) : Frame(work[i])
  /\ Nesting(work, ctx.depth)
  /\ at # "build" => work = <<>>

\* The top rule is recorded first; a rule in progress is at most as deep as the
\* one recorded last.
TakenInv ==
  /\ taken # <<>> => \A i \in 1..Len(work) : work[i].op # "top"
  /\ \A i \in 1..Len(work) : work[i].op = "top" => Len(work) = 1 /\ ctx.depth = 0
  /\ recording /\ (\E i \in 1..Len(work) : work[i].op # "top") =>
       taken # <<>> /\ ctx.depth <= taken[Len(taken)].depth

\* A mutation in progress: the next snapshot fits what is there.
PlanInv ==
  /\ plan = [orig |-> plan.orig, cur |-> plan.cur, target |-> plan.target, left |-> plan.left,
             from |-> plan.from, new |-> plan.new]
  /\ Recording(plan.orig) /\ plan.cur \in Nat \ {0}
  /\ at = "mutate" /\ plan.cur <= Len(plan.orig) =>
       IF plan.cur = 1 THEN mutated = <<>>
       ELSE mutated # <<>> /\ plan.orig[plan.cur].depth <= mutated[Len(mutated)].depth + 1

RecordingsInv ==
  /\ AnySeq(corpus) /\ \A k \in 1..Len(corpus) : Recording(corpus[k].snaps)
  /\ Recording(taken) /\ Recording(mutated) /\ Recording(saved)

IInv == Context(ctx) /\ StackInv /\ TakenInv /\ PlanInv /\ RecordingsInv

-----------------------------------------------------------------------------
(* The initial state.                                                      *)

LEMMA EmptyRecording == Recording(<<>>)
  BY NoItems DEF Recording

LEMMA InitInv == Init => IInv
<1> SUFFICES ASSUME Init PROVE IInv
  OBVIOUS
<1> USE ReplayAssumption, EmptyRecording, NoItems DEF Init, GenInit, NewContext, NoPlan
<1>1. Context(ctx)
  BY DEF Context
<1>2. StackInv /\ TakenInv
  BY DEF StackInv, TakenInv, Nesting
<1>3. PlanInv
  BY DEF PlanInv
<1>4. RecordingsInv
  BY DEF RecordingsInv
<1> QED BY <1>1, <1>2, <1>3, <1>4 DEF IInv

-----------------------------------------------------------------------------
(* Steps of a build that neither enter nor leave a rule.                   *)

Plain(f) ==
  /\ f.op \notin {"leave", "top"}
  /\ f.op = "end_flushed" => f.posts \in Nat
  /\ f.op = "posts" => f.keep \in Nat

PlainSeq(f) == AnySeq(f) /\ \A i \in 1..Len(f) : Plain(f[i])

PlainStep ==
  /\ work # <<>> /\ Top.op \notin {"leave", "top"}
  /\ \E f : PlainSeq(f) /\ work' = f \o Tail(work)
  /\ Context(ctx') /\ ctx'.depth = ctx.depth
  /\ taken' = taken /\ recording' = recording

\* All that matters here outside the build.
OuterSame == UNCHANGED <<at, corpus, mutated, plan, saved>>

LEMMA Replaced ==
  ASSUME AnySeq(work), work # <<>>, NEW f, AnySeq(f), work' = f \o Tail(work)
  PROVE  /\ AnySeq(work') /\ Len(f) \in Nat /\ Len(work) \in Nat \ {0} /\ Top = work[1]
         /\ Len(work') = Len(f) + Len(work) - 1
         /\ \A i \in 1..Len(f) : i \in 1..Len(work') /\ work'[i] = f[i]
         /\ \A j \in 2..Len(work) :
              j + Len(f) - 1 \in (Len(f) + 1)..Len(work') /\ work'[j + Len(f) - 1] = work[j]
         /\ \A i \in 1..Len(work') :
              \/ i \in 1..Len(f) /\ work'[i] = f[i]
              \/ i - Len(f) + 1 \in 2..Len(work) /\ work'[i] = work[i - Len(f) + 1]
<1>1. /\ AnySeq(work') /\ Len(f) \in Nat /\ Len(work) \in Nat \ {0} /\ Head(work) = work[1]
      /\ Len(work') = Len(f) + Len(work) - 1
      /\ \A i \in 1..Len(f) : work'[i] = f[i]
      /\ \A i \in (Len(f) + 1)..(Len(f) + Len(work) - 1) : work'[i] = work[i - Len(f) + 1]
  BY Joined
<1>2. ASSUME NEW j \in 2..Len(work)
      PROVE  j + Len(f) - 1 \in (Len(f) + 1)..Len(work') /\ work'[j + Len(f) - 1] = work[j]
  <2> DEFINE k == j + Len(f) - 1
  <2>1. k \in (Len(f) + 1)..(Len(f) + Len(work) - 1) /\ k - Len(f) + 1 = j
    BY <1>1
  <2> HIDE DEF k
  <2>2. work'[k] = work[k - Len(f) + 1]
    BY <2>1, <1>1
  <2> QED BY <2>1, <2>2, <1>1 DEF k
<1>3. \A i \in 1..Len(work') : \/ i \in 1..Len(f) /\ work'[i] = f[i]
                               \/ i - Len(f) + 1 \in 2..Len(work) /\ work'[i] = work[i - Len(f) + 1]
  BY <1>1
<1> QED BY <1>1, <1>2, <1>3 DEF Top

LEMMA PlainKeeps == ASSUME IInv, PlainStep, OuterSame PROVE IInv'
<1>1. PICK f : AnySeq(f) /\ (\A i \in 1..Len(f) : Plain(f[i])) /\ work' = f \o Tail(work)
  BY DEF PlainStep, PlainSeq
<1>2. /\ AnySeq(work) /\ Nesting(work, ctx.depth) /\ ctx.depth \in Nat
      /\ \A i \in 1..Len(work) : Frame(work[i])
      /\ work # <<>> /\ Top.op \notin {"leave", "top"} /\ recording' = recording /\ taken' = taken
      /\ Context(ctx') /\ ctx'.depth = ctx.depth
  BY DEF IInv, StackInv, Context, PlainStep
<1>r. /\ AnySeq(work') /\ Len(f) \in Nat /\ Len(work) \in Nat \ {0} /\ Top = work[1]
      /\ \A j \in 2..Len(work) :
           j + Len(f) - 1 \in (Len(f) + 1)..Len(work') /\ work'[j + Len(f) - 1] = work[j]
      /\ \A i \in 1..Len(work') :
           \/ i \in 1..Len(f) /\ work'[i] = f[i]
           \/ i - Len(f) + 1 \in 2..Len(work) /\ work'[i] = work[i - Len(f) + 1]
  <2>1. AnySeq(work) /\ work # <<>> /\ AnySeq(f) /\ work' = f \o Tail(work)
    BY <1>1, <1>2
  <2> QED BY <2>1, Replaced
<1> DEFINE Old(i) == i - Len(f) + 1
<1>3. /\ AnySeq(work') /\ Len(f) \in Nat /\ Len(work) \in Nat \ {0} /\ Top = work[1]
      /\ \A j \in 2..Len(work) :
           j + Len(f) - 1 \in 1..Len(work') /\ work'[j + Len(f) - 1] = work[j]
      /\ \A i \in 1..Len(work') : \/ i \in 1..Len(f) /\ work'[i] = f[i]
                                  \/ Old(i) \in 2..Len(work) /\ work'[i] = work[Old(i)]
  <2>1. \A j \in 2..Len(work) : j + Len(f) - 1 \in 1..Len(work')
    BY <1>r
  <2> QED BY <2>1, <1>r
<1>4. ASSUME NEW i \in 1..Len(work')
      PROVE  \/ Plain(work'[i])
             \/ Old(i) \in 2..Len(work) /\ work'[i] = work[Old(i)]
  <2>1. CASE i \in 1..Len(f) /\ work'[i] = f[i]
    BY <2>1, <1>1
  <2>2. CASE Old(i) \in 2..Len(work) /\ work'[i] = work[Old(i)]
    BY <2>2
  <2> QED BY <2>1, <2>2, <1>3
<1>5. ASSUME NEW i \in 1..Len(work')
      PROVE  Frame(work'[i])
  <2>1. CASE Plain(work'[i])
    BY <2>1 DEF Plain, Frame
  <2>2. CASE Old(i) \in 2..Len(work) /\ work'[i] = work[Old(i)]
    BY <2>2, <1>2, <1>3
  <2> QED BY <2>1, <2>2, <1>4
<1>6. \A i \in 1..Len(work') :
        work'[i].op \in {"leave", "top"} => Old(i) \in 2..Len(work) /\ work'[i] = work[Old(i)]
  BY <1>4 DEF Plain
<1>7. Nesting(work', ctx'.depth)
  <2>1. ASSUME NEW i \in 1..Len(work'), work'[i].op = "leave"
        PROVE  work'[i].depth <= ctx.depth
    <3>1. Old(i) \in 1..Len(work) /\ work'[i] = work[Old(i)]
      BY <2>1, <1>3, <1>6
    <3> HIDE DEF Old
    <3> QED BY <2>1, <3>1, <1>2 DEF Nesting
  <2>2. ASSUME NEW i \in 1..Len(work'), NEW j \in 1..Len(work'),
               work'[i].op = "leave", work'[j].op = "leave", i < j
        PROVE  work'[i].depth > work'[j].depth
    <3>1. /\ Old(i) \in 2..Len(work) /\ work'[i] = work[Old(i)]
          /\ Old(j) \in 2..Len(work) /\ work'[j] = work[Old(j)]
      BY <2>2, <1>6
    <3>2. Old(i) \in 1..Len(work) /\ Old(j) \in 1..Len(work) /\ Old(i) < Old(j)
      BY <3>1, <2>2, <1>3
    <3>3. \A k, l \in 1..Len(work) :
            work[k].op = "leave" /\ work[l].op = "leave" /\ k < l => work[k].depth > work[l].depth
      BY <1>2 DEF Nesting
    <3> HIDE DEF Old
    <3>4. work[Old(i)].depth > work[Old(j)].depth
      BY <2>2, <3>1, <3>2, <3>3
    <3> QED BY <3>1, <3>4
  <2>3. ASSUME NEW d \in 1..ctx.depth
        PROVE  \E i \in 1..Len(work') : work'[i].op = "leave" /\ work'[i].depth = d
    <3>1. PICK j \in 1..Len(work) : work[j].op = "leave" /\ work[j].depth = d
      BY <1>2 DEF Nesting
    <3>2. j \in 2..Len(work)
      BY <3>1, <1>2, <1>3
    <3> QED BY <3>1, <3>2, <1>3
  <2> QED BY <2>1, <2>2, <2>3, <1>2 DEF Nesting
<1>8. StackInv'
  BY <1>3, <1>5, <1>7 DEF StackInv, IInv, OuterSame
<1>9. TakenInv'
  <2>1. \A i \in 1..Len(work) : work[i].op # "top"
    BY <1>2, <1>3 DEF TakenInv, IInv
  <2>2. \A i \in 1..Len(work') : work'[i].op # "top"
    BY <2>1, <1>6
  <2>3. recording => taken # <<>> /\ ctx.depth <= taken[Len(taken)].depth
    BY <2>1, <1>3 DEF IInv, TakenInv
  <2> QED BY <2>2, <2>3, <1>2 DEF TakenInv
<1>10. PlanInv' /\ RecordingsInv'
  BY <1>2 DEF PlanInv, RecordingsInv, IInv, OuterSame
<1> QED BY <1>2, <1>8, <1>9, <1>10 DEF IInv

-----------------------------------------------------------------------------
(* Calls and returns of Rules::Build.                                      *)

\* The depth of the rule on top is the context's.
LEMMA TopIsInmost ==
  ASSUME IInv, work # <<>>, Top.op = "leave"
  PROVE  /\ Top.depth = ctx.depth /\ Top.limit \in 0..MaxDepth
         /\ \A j \in 2..Len(work) : work[j].op = "leave" => work[j].depth < ctx.depth
<1>1. /\ AnySeq(work) /\ Nesting(work, ctx.depth) /\ ctx.depth \in Nat
      /\ \A i \in 1..Len(work) : Frame(work[i])
  BY DEF IInv, StackInv, Context
<1>2. Len(work) \in Nat \ {0} /\ Top = work[1] /\ 1 \in 1..Len(work)
  BY <1>1, SeqFacts DEF Top
<1>3. Top.depth \in Nat /\ Top.limit \in 0..MaxDepth
  BY <1>1, <1>2 DEF Frame
<1>4. Top.depth <= ctx.depth
  BY <1>1, <1>2 DEF Nesting
<1>5. \A j \in 2..Len(work) : work[j].op = "leave" => Top.depth > work[j].depth
  BY <1>1, <1>2 DEF Nesting
<1>6. \A j \in 1..Len(work) : work[j].op = "leave" => work[j].depth \in Nat
  BY <1>1 DEF Frame
<1>7. CASE ctx.depth = 0
  BY <1>3, <1>4, <1>5, <1>7
<1>8. CASE ctx.depth > 0
  <2>1. PICK i \in 1..Len(work) : work[i].op = "leave" /\ work[i].depth = ctx.depth
    BY <1>1, <1>8 DEF Nesting
  <2>2. i = 1
    <3>1. CASE i # 1
      <4>1. i \in 2..Len(work)
        BY <3>1, <1>2
      <4>2. Top.depth > ctx.depth
        BY <4>1, <2>1, <1>5
      <4> QED BY <4>2, <1>1, <1>3, <1>4
    <3> QED BY <3>1
  <2>3. Top.depth = ctx.depth
    BY <2>1, <2>2, <1>2
  <2> QED BY <2>3, <1>3, <1>5
<1> QED BY <1>1, <1>7, <1>8

LEMMA LeaveKeeps == ASSUME IInv, LeaveRule, OuterSame PROVE IInv'
<1>1. /\ AnySeq(work) /\ Nesting(work, ctx.depth) /\ ctx.depth \in Nat /\ Context(ctx)
      /\ \A i \in 1..Len(work) : Frame(work[i])
      /\ work # <<>> /\ Top.op = "leave" /\ recording' = recording /\ taken' = taken
  BY DEF IInv, StackInv, Context, LeaveRule, AtOp
<1>2. /\ Top.depth = ctx.depth /\ Top.limit \in 0..MaxDepth
      /\ \A j \in 2..Len(work) : work[j].op = "leave" => work[j].depth < ctx.depth
  BY <1>1, TopIsInmost
<1>3. /\ Context(ctx')
      /\ ctx'.depth = IF ctx.depth = 0 THEN 0 ELSE ctx.depth - 1
  <2> DEFINE limit == IF Top.undo THEN Top.limit ELSE ctx.limit
  <2>1. limit \in 0..MaxDepth
    BY <1>1, <1>2 DEF Context
  <2>2. CASE ctx.depth = 0
    <3>1. ctx' = [ctx EXCEPT !.limit = limit]
      BY <2>2 DEF LeaveRule
    <3> HIDE DEF limit
    <3> QED BY <3>1, <2>1, <2>2, <1>1 DEF Context
  <2>3. CASE ctx.depth # 0
    <3>1. PICK pre : ctx' = [ctx EXCEPT !.limit = limit, !.depth = @ - 1, !.pre = pre]
      BY <2>3 DEF LeaveRule
    <3> HIDE DEF limit
    <3>2. ctx.depth - 1 \in Nat
      BY <2>3, <1>1
    <3>3. ctx' = [depth |-> ctx.depth - 1, limit |-> limit, pre |-> pre, out |-> ctx.out,
                  posts |-> ctx.posts, captures |-> ctx.captures, replay |-> ctx.replay,
                  replayIdx |-> ctx.replayIdx]
      BY <3>1, <1>1 DEF Context
    <3> QED BY <3>2, <3>3, <2>1, <2>3, <1>1 DEF Context
  <2> QED BY <2>2, <2>3
<1>4. PICK f : /\ AnySeq(f) /\ work' = f \o Tail(work) /\ Len(f) \in Nat
               /\ \A i \in 1..Len(f) : f[i].op \in {"flush", "end"}
  <2>1. CASE ctx.depth = 0
    <3>1. work' = <<[op |-> "flush"], [op |-> "end"]>> \o Tail(work)
      BY <2>1 DEF LeaveRule, Goto
    <3> DEFINE f == <<[op |-> "flush"], [op |-> "end"]>>
    <3>2. AnySeq(f)
      BY ShortSeq
    <3>3. Len(f) = 2 /\ \A i \in 1..2 : f[i].op \in {"flush", "end"}
      OBVIOUS
    <3> QED BY <3>1, <3>2, <3>3
  <2>2. CASE ctx.depth # 0
    <3>1. work' = <<>> \o Tail(work)
      BY <2>2 DEF LeaveRule, Goto, Return
    <3> QED BY <3>1, NoItems
  <2> QED BY <2>1, <2>2
<1> DEFINE Old(i) == i - Len(f) + 1
<1>5. /\ AnySeq(work') /\ Len(f) \in Nat /\ Len(work) \in Nat \ {0} /\ Top = work[1]
      /\ \A j \in 2..Len(work) :
           j + Len(f) - 1 \in 1..Len(work') /\ work'[j + Len(f) - 1] = work[j]
      /\ \A i \in 1..Len(work') : \/ i \in 1..Len(f) /\ work'[i] = f[i]
                                  \/ Old(i) \in 2..Len(work) /\ work'[i] = work[Old(i)]
  <2>1. AnySeq(f) /\ work' = f \o Tail(work)
    BY <1>4
  <2>2. AnySeq(work) /\ work # <<>>
    BY <1>1
  <2> HIDE DEF Old
  <2>3. /\ AnySeq(work') /\ Len(f) \in Nat /\ Len(work) \in Nat \ {0} /\ Top = work[1]
        /\ \A j \in 2..Len(work) :
             j + Len(f) - 1 \in (Len(f) + 1)..Len(work') /\ work'[j + Len(f) - 1] = work[j]
        /\ \A i \in 1..Len(work') :
             \/ i \in 1..Len(f) /\ work'[i] = f[i]
             \/ i - Len(f) + 1 \in 2..Len(work) /\ work'[i] = work[i - Len(f) + 1]
    BY <2>1, <2>2, Replaced
  <2> QED BY <2>3 DEF Old
<1>6. ASSUME NEW i \in 1..Len(work')
      PROVE  \/ work'[i].op \in {"flush", "end"}
             \/ Old(i) \in 1..Len(work) /\ Old(i) \in 2..Len(work) /\ work'[i] = work[Old(i)]
  <2>1. CASE i \in 1..Len(f) /\ work'[i] = f[i]
    BY <2>1, <1>4
  <2>2. CASE Old(i) \in 2..Len(work) /\ work'[i] = work[Old(i)]
    BY <2>2, <1>5
  <2> QED BY <2>1, <2>2, <1>5
<1> HIDE DEF Old
<1>11. \A i \in 1..Len(work') : Frame(work'[i])
  BY <1>1, <1>6 DEF Frame
<1>7. Nesting(work', ctx'.depth)
  <2>1. \A i \in 1..Len(work') : work'[i].op = "leave" => work'[i].depth <= ctx'.depth
    BY <1>1, <1>2, <1>3, <1>6 DEF Frame
  <2>2. ASSUME NEW i \in 1..Len(work'), NEW j \in 1..Len(work'),
               work'[i].op = "leave", work'[j].op = "leave", i < j
        PROVE  work'[i].depth > work'[j].depth
    <3>1. /\ Old(i) \in 1..Len(work) /\ work'[i] = work[Old(i)]
          /\ Old(j) \in 1..Len(work) /\ work'[j] = work[Old(j)]
      BY <2>2, <1>6
    <3>4. Old(i) < Old(j)
      BY <2>2, <1>5 DEF Old
    <3>2. \A k, l \in 1..Len(work) :
            work[k].op = "leave" /\ work[l].op = "leave" /\ k < l => work[k].depth > work[l].depth
      BY <1>1 DEF Nesting
    <3>3. work[Old(i)].depth > work[Old(j)].depth
      BY <2>2, <3>1, <3>2, <3>4
    <3> QED BY <3>1, <3>3
  <2>3. ASSUME NEW d \in 1..ctx'.depth
        PROVE  \E i \in 1..Len(work') : work'[i].op = "leave" /\ work'[i].depth = d
    <3>1. d \in 1..ctx.depth /\ d # ctx.depth
      BY <1>1, <1>3
    <3>2. PICK j \in 1..Len(work) : work[j].op = "leave" /\ work[j].depth = d
      BY <1>1, <3>1 DEF Nesting
    <3>3. j \in 2..Len(work)
      BY <3>1, <3>2, <1>2, <1>5
    <3> QED BY <3>2, <3>3, <1>5
  <2> QED BY <2>1, <2>2, <2>3 DEF Nesting
<1>8. StackInv'
  BY <1>5, <1>11, <1>7 DEF IInv, StackInv, OuterSame
<1>9. TakenInv'
  <2>1. \A i \in 1..Len(work) : work[i].op # "top"
    BY <1>1, <1>5 DEF IInv, TakenInv
  <2>2. \A i \in 1..Len(work') : work'[i].op # "top"
    BY <2>1, <1>6
  <2>3. recording => taken # <<>> /\ ctx.depth <= taken[Len(taken)].depth
    BY <2>1, <1>5 DEF IInv, TakenInv
  <2>4. taken # <<>> => taken[Len(taken)].depth \in Nat
    BY SeqFacts DEF IInv, RecordingsInv, Recording
  <2>5. recording => taken # <<>> /\ ctx'.depth <= taken[Len(taken)].depth
    BY <2>3, <2>4, <1>1, <1>3
  <2> QED BY <2>2, <2>5, <1>1 DEF TakenInv
<1>10. PlanInv' /\ RecordingsInv'
  BY <1>1 DEF PlanInv, RecordingsInv, IInv, OuterSame
<1> QED BY <1>3, <1>8, <1>9, <1>10 DEF IInv

\* A recording goes on with a rule that is at most one level deeper than the last.
LEMMA RecordingAppended ==
  ASSUME NEW s, NEW x, Recording(s), x.depth \in Nat, x.limit \in 0..MaxDepth,
         IF s = <<>> THEN x.depth = 0 ELSE x.depth \in 1..(s[Len(s)].depth + 1)
  PROVE  /\ Recording(Append(s, x)) /\ Append(s, x) # <<>>
         /\ Append(s, x)[Len(Append(s, x))] = x
<1> DEFINE t == Append(s, x)
<1>1. /\ AnySeq(t) /\ Len(s) \in Nat /\ Len(t) = Len(s) + 1
      /\ \A k \in 1..Len(s) : t[k] = s[k]
      /\ t[Len(s) + 1] = x
  BY Appended DEF Recording
<1> HIDE DEF t
<1>2. (s = <<>> <=> Len(s) = 0) /\ t # <<>>
  <2>1. AnySeq(s)
    BY DEF Recording
  <2>2. (s = <<>> <=> Len(s) = 0) /\ (t = <<>> <=> Len(t) = 0)
    BY <2>1, <1>1, SeqFacts
  <2> QED BY <2>2, <1>1
<1>3. \A k \in 1..Len(s) : /\ s[k].depth \in Nat /\ s[k].limit \in 0..MaxDepth
                           /\ IF k = 1 THEN s[k].depth = 0 ELSE s[k].depth \in 1..(s[k - 1].depth + 1)
  BY DEF Recording
<1>4. ASSUME NEW k \in 1..Len(t)
      PROVE  /\ t[k].depth \in Nat /\ t[k].limit \in 0..MaxDepth
             /\ IF k = 1 THEN t[k].depth = 0 ELSE t[k].depth \in 1..(t[k - 1].depth + 1)
  <2>1. CASE k = Len(s) + 1
    <3>1. CASE Len(s) = 0
      BY <2>1, <3>1, <1>1, <1>2
    <3>2. CASE Len(s) # 0
      <4>1. t[k] = x /\ t[k - 1] = s[Len(s)] /\ k # 1
        BY <2>1, <3>2, <1>1
      <4> QED BY <4>1, <3>2, <1>2
    <3> QED BY <3>1, <3>2
  <2>2. CASE k \in 1..Len(s)
    <3>1. t[k] = s[k] /\ (k # 1 => t[k - 1] = s[k - 1])
      BY <2>2, <1>1
    <3> QED BY <3>1, <2>2, <1>3
  <2> QED BY <2>1, <2>2, <1>1
<1> QED BY <1>1, <1>2, <1>4 DEF Recording, t

LEMMA EnterKeeps ==
  ASSUME IInv, OuterSame, work # <<>>, NEW s, NEW i, NEW c, NEW r, Enter(s, i, c, r), Context(c),
         \/ Top.op = "top" /\ c.depth = 0
         \/ Top.op # "top" /\ Top.op # "leave" /\ c.depth = ctx.depth + 1
  PROVE  IInv'
<1> DEFINE replays == c.replayIdx < Len(c.replay) /\ c.replay[c.replayIdx + 1].depth = c.depth
           limit == IF replays THEN c.replay[c.replayIdx + 1].limit ELSE c.limit
           state == IF replays THEN c.replay[c.replayIdx + 1].state ELSE r
           own == c.pre = Null
           snap == [depth |-> c.depth, limit |-> limit, rule |-> i, state |-> state]
           f == <<[op |-> "rule", scope |-> s, rule |-> i],
                  [op |-> "leave", depth |-> c.depth, own |-> own, undo |-> replays, state |-> r,
                   limit |-> limit]>>
<1>1. /\ work' = f \o Tail(work)
      /\ ctx' = [c EXCEPT !.limit = limit, !.replayIdx = IF replays THEN @ + 1 ELSE @,
                          !.pre = IF own THEN Len(bufs) + 1 ELSE @]
      /\ taken' = IF recording THEN Append(taken, snap) ELSE taken
      /\ recording' = recording
  BY DEF Enter, Goto
<1>2. limit \in 0..MaxDepth
  BY SeqFacts DEF Context, Recording
<1>3. AnySeq(f) /\ Len(f) = 2 /\ f[1].op = "rule" /\ f[2].op = "leave" /\ f[2].depth = c.depth
      /\ f[2].limit = limit
  BY ShortSeq
<1>4. snap.depth = c.depth /\ snap.limit = limit
  OBVIOUS
<1> HIDE DEF replays, limit, state, own, snap, f
<1>5. Context(ctx') /\ ctx'.depth = c.depth
  <2>1. PICK j \in Nat : \E pre : ctx' = [c EXCEPT !.limit = limit, !.replayIdx = j, !.pre = pre]
    <3>1. (IF replays THEN c.replayIdx + 1 ELSE c.replayIdx) \in Nat
      BY DEF Context
    <3> QED BY <3>1, <1>1
  <2>3. PICK pre : ctx' = [c EXCEPT !.limit = limit, !.replayIdx = j, !.pre = pre]
    BY <2>1
  <2>2. ctx' = [depth |-> c.depth, limit |-> limit, pre |-> pre, out |-> c.out, posts |-> c.posts,
                captures |-> c.captures, replay |-> c.replay, replayIdx |-> j]
    BY <2>3 DEF Context
  <2> QED BY <2>2, <1>2 DEF Context
<1>6. /\ AnySeq(work) /\ Nesting(work, ctx.depth) /\ ctx.depth \in Nat
      /\ \A k \in 1..Len(work) : Frame(work[k])
      /\ at' = at /\ (at # "build" => work = <<>>)
      /\ c.depth \in Nat
  BY DEF IInv, StackInv, Context, OuterSame
<1> DEFINE Old(k) == k - 2 + 1
<1>7. /\ AnySeq(work') /\ Len(work) \in Nat \ {0} /\ Top = work[1] /\ Len(work') = Len(work) + 1
      /\ \A j \in 2..Len(work) : j + 1 \in 1..Len(work') /\ work'[j + 1] = work[j]
      /\ 1 \in 1..Len(work') /\ 2 \in 1..Len(work') /\ work'[1] = f[1] /\ work'[2] = f[2]
      /\ \A k \in 1..Len(work') : \/ k = 1
                                  \/ k = 2
                                  \/ k - 1 \in 2..Len(work) /\ work'[k] = work[k - 1]
  <2>1. /\ AnySeq(work') /\ Len(work) \in Nat \ {0} /\ Top = work[1]
        /\ Len(work') = Len(f) + Len(work) - 1
        /\ \A k \in 1..Len(f) : k \in 1..Len(work') /\ work'[k] = f[k]
        /\ \A j \in 2..Len(work) :
             j + Len(f) - 1 \in (Len(f) + 1)..Len(work') /\ work'[j + Len(f) - 1] = work[j]
        /\ \A k \in 1..Len(work') :
             \/ k \in 1..Len(f) /\ work'[k] = f[k]
             \/ k - Len(f) + 1 \in 2..Len(work) /\ work'[k] = work[k - Len(f) + 1]
    BY <1>1, <1>3, <1>6, Replaced
  <2>2. \A j \in 2..Len(work) : j + 2 - 1 = j + 1
    BY <2>1
  <2>3. \A k \in 1..Len(work') : k - 2 + 1 = k - 1
    BY <2>1
  <2> QED BY <2>1, <2>2, <2>3, <1>3
<1>8. ASSUME Top.op = "top"
      PROVE  Len(work) = 1 /\ ctx.depth = 0 /\ taken = <<>> /\ c.depth = 0
  BY <1>7, <1>8 DEF IInv, TakenInv
<1>9. \A j \in 2..Len(work) :
        work[j].op # "top" /\ (work[j].op = "leave" => work[j].depth < c.depth)
  <2>1. CASE Top.op = "top"
    <3>1. Len(work) = 1
      BY <2>1, <1>8
    <3>2. 2..Len(work) = {}
      BY <3>1
    <3> QED BY <3>2
  <2>2. CASE Top.op # "top"
    BY <2>2, <1>6, <1>7 DEF IInv, TakenInv, Nesting, Frame
  <2> QED BY <2>1, <2>2
<1>10. ASSUME NEW k \in 1..Len(work')
       PROVE  Frame(work'[k]) /\ work'[k].op # "top"
  <2>1. CASE k \in {1, 2}
    BY <2>1, <1>2, <1>3, <1>6, <1>7 DEF Frame
  <2>2. CASE k - 1 \in 2..Len(work) /\ work'[k] = work[k - 1]
    BY <2>2, <1>6, <1>9, <1>7
  <2> QED BY <2>1, <2>2, <1>7
<1>11. Nesting(work', ctx'.depth)
  <2>1. ASSUME NEW k \in 1..Len(work'), work'[k].op = "leave"
        PROVE  \/ k = 2 /\ work'[k].depth = c.depth
               \/ k > 2 /\ k - 1 \in 2..Len(work) /\ work'[k] = work[k - 1] /\ work'[k].depth < c.depth
    BY <2>1, <1>3, <1>7, <1>9
  <2>2. \A k \in 1..Len(work') : work'[k].op = "leave" => work'[k].depth <= c.depth
    BY <2>1, <1>6, <1>10 DEF Frame
  <2>3. ASSUME NEW k \in 1..Len(work'), NEW l \in 1..Len(work'),
               work'[k].op = "leave", work'[l].op = "leave", k < l
        PROVE  work'[k].depth > work'[l].depth
    <3>1. l - 1 \in 2..Len(work) /\ work'[l] = work[l - 1] /\ work'[l].depth < c.depth
      BY <2>3, <2>1
    <3>2. CASE k = 2
      <4>1. work'[k].depth = c.depth
        BY <2>1, <2>3, <3>2
      <4>2. work'[k].depth \in Nat /\ work'[l].depth \in Nat
        BY <1>10, <2>3 DEF Frame
      <4> QED BY <3>1, <4>1, <4>2
    <3>3. CASE k # 2
      <4>1. k - 1 \in 2..Len(work) /\ work'[k] = work[k - 1] /\ k - 1 < l - 1
        BY <2>3, <3>3, <2>1
      <4>2. k - 1 \in 1..Len(work) /\ l - 1 \in 1..Len(work)
        BY <3>1, <4>1
      <4>3. \A a, b \in 1..Len(work) :
              work[a].op = "leave" /\ work[b].op = "leave" /\ a < b => work[a].depth > work[b].depth
        BY <1>6 DEF Nesting
      <4>4. work[k - 1].op = "leave" /\ work[l - 1].op = "leave"
        BY <4>1, <3>1, <2>3
      <4>5. work[k - 1].depth > work[l - 1].depth
        BY <4>1, <4>2, <4>3, <4>4
      <4> QED BY <4>1, <4>5, <3>1
    <3> QED BY <3>2, <3>3
  <2>4. ASSUME NEW d \in 1..c.depth
        PROVE  \E k \in 1..Len(work') : work'[k].op = "leave" /\ work'[k].depth = d
    <3>1. CASE d = c.depth
      BY <3>1, <1>3, <1>7
    <3>2. CASE d # c.depth
      <4>1. Top.op # "top" /\ Top.op # "leave" /\ d \in 1..ctx.depth
        BY <3>2, <1>6
      <4>2. PICK j \in 1..Len(work) : work[j].op = "leave" /\ work[j].depth = d
        BY <4>1, <1>6 DEF Nesting
      <4>3. j \in 2..Len(work)
        BY <4>1, <4>2, <1>7
      <4> QED BY <4>2, <4>3, <1>7
    <3> QED BY <3>1, <3>2
  <2> QED BY <2>2, <2>3, <2>4, <1>5 DEF Nesting
<1>12. StackInv'
  BY <1>6, <1>7, <1>10, <1>11 DEF StackInv
<1>13. Recording(taken') /\ (recording => taken' # <<>> /\ taken'[Len(taken')].depth = c.depth)
  <2>1. Recording(taken)
    BY DEF IInv, RecordingsInv
  <2>2. CASE recording
    <3>1. CASE Top.op = "top"
      <4>1. taken = <<>> /\ c.depth = 0
        BY <3>1, <1>8
      <4>2. /\ snap.depth \in Nat /\ snap.limit \in 0..MaxDepth
            /\ IF taken = <<>> THEN snap.depth = 0
               ELSE snap.depth \in 1..(taken[Len(taken)].depth + 1)
        BY <4>1, <1>2, <1>4, <1>6
      <4>3. taken' = Append(taken, snap)
        BY <2>2, <1>1
      <4>4. /\ Recording(Append(taken, snap)) /\ Append(taken, snap) # <<>>
            /\ Append(taken, snap)[Len(Append(taken, snap))] = snap
        BY <4>2, <2>1, RecordingAppended
      <4> QED BY <4>3, <4>4, <1>4
    <3>2. CASE Top.op # "top"
      <4>1. taken # <<>> /\ ctx.depth <= taken[Len(taken)].depth
        BY <3>2, <2>2, <1>7 DEF IInv, TakenInv
      <4>2. taken[Len(taken)].depth \in Nat
        BY <4>1, <2>1, SeqFacts DEF Recording
      <4>3. c.depth \in 1..(taken[Len(taken)].depth + 1)
        BY <3>2, <4>1, <4>2, <1>6
      <4> QED BY <4>1, <4>3, <2>1, <2>2, <1>1, <1>2, <1>4, <1>6, RecordingAppended
    <3> QED BY <3>1, <3>2
  <2>3. CASE ~ recording
    BY <2>1, <2>3, <1>1
  <2> QED BY <2>2, <2>3
<1>14. TakenInv'
  BY <1>1, <1>5, <1>6, <1>10, <1>13 DEF TakenInv
<1>15. PlanInv' /\ RecordingsInv'
  BY <1>13 DEF PlanInv, RecordingsInv, IInv, OuterSame
<1> QED BY <1>5, <1>12, <1>14, <1>15 DEF IInv

-----------------------------------------------------------------------------
(* Every step of a build.                                                  *)

LEMMA PlainSeqs ==
  /\ PlainSeq(<<>>)
  /\ \A a : Plain(a) => PlainSeq(<<a>>)
  /\ \A a, b : Plain(a) /\ Plain(b) => PlainSeq(<<a, b>>)
<1>1. PlainSeq(<<>>)
  BY NoItems DEF PlainSeq
<1>2. ASSUME NEW a, Plain(a)
      PROVE  PlainSeq(<<a>>)
  <2>1. \A i \in 1..Len(<<a>>) : <<a>>[i] = a
    OBVIOUS
  <2> QED BY <1>2, <2>1, ShortSeq DEF PlainSeq
<1>3. ASSUME NEW a, NEW b, Plain(a), Plain(b)
      PROVE  PlainSeq(<<a, b>>)
  <2>1. \A i \in 1..2 : <<a, b>>[i] \in {a, b}
    OBVIOUS
  <2> QED BY <1>3, <2>1, ShortSeq DEF PlainSeq
<1> QED BY <1>1, <1>2, <1>3

LEMMA PlainItems ==
  ASSUME NEW s, AnySeq(s), NEW x, Plain(x)
  PROVE  PlainSeq(ItemFrames(s) \o <<x>>)
<1> DEFINE t == ItemFrames(s)
           g == t \o <<x>>
<1>1. PICK S : s \in Seq(S)
  BY DEF AnySeq
<1>2. t \in Seq({ItemFrame(n) : n \in S}) /\ \A i \in 1..Len(t) : t[i] = ItemFrame(s[i])
  BY <1>1 DEF ItemFrames
<1>3. \A i \in 1..Len(t) : Plain(t[i])
  BY <1>2 DEF Plain, ItemFrame
<1>4. t \in Seq({ItemFrame(n) : n \in S} \cup {x}) /\ <<x>> \in Seq({ItemFrame(n) : n \in S} \cup {x})
  BY <1>2
<1> HIDE DEF t
<1>5. /\ AnySeq(g) /\ Len(t) \in Nat /\ Len(g) = Len(t) + 1
      /\ \A i \in 1..Len(t) : g[i] = t[i]
      /\ g[Len(t) + 1] = x
  BY <1>4 DEF AnySeq
<1> HIDE DEF g
<1>6. ASSUME NEW i \in 1..Len(g)
      PROVE  Plain(g[i])
  <2>1. CASE i = Len(t) + 1
    BY <2>1, <1>5
  <2>2. CASE i \in 1..Len(t)
    BY <2>2, <1>3, <1>5
  <2> QED BY <2>1, <2>2, <1>5
<1> QED BY <1>5, <1>6 DEF PlainSeq, g, t

LEMMA AndIsPlain == \A n, i : PlainSeq(AndFrom(n, i))
  BY PlainSeqs DEF AndFrom, ItemFrame, Plain

LEMMA SameKeeps ==
  ASSUME IInv, OuterSame, UNCHANGED <<work, ctx, taken, recording>>
  PROVE  IInv'
<1>1. Context(ctx') /\ StackInv'
  BY DEF IInv, StackInv, OuterSame
<1>2. TakenInv' /\ PlanInv' /\ RecordingsInv'
  BY DEF IInv, TakenInv, PlanInv, RecordingsInv, OuterSame
<1> QED BY <1>1, <1>2 DEF IInv

\* Steps that leave the context alone.
PlainActions ==
  \/ BuildRaw \/ BuildDraw \/ BuildAnd \/ NextItem \/ BuildOpt \/ BuildOr \/ BuildRule
  \/ FlushTop \/ BuildFlush \/ BuildCapture \/ BuildCaptured \/ BuildId \/ BuildStore \/ EndStore
  \/ BuildScope \/ EndScope \/ BuildScopeAction \/ BuildNullItem

\* Steps that change what the context says of the output.
RedirectActions ==
  \/ FlushedPrePost \/ EndTop \/ BuildPre \/ EndPre \/ BuildPost \/ BuildFlushed \/ EndFlushed
  \/ NextPost \/ EndCapture

\* An error: the build goes no further.
Stuck == UNCHANGED <<work, ctx, taken, recording>>

LEMMA PlainActionIsPlain ==
  ASSUME IInv, PlainActions
  PROVE  Stuck \/ PlainStep
<1> SUFFICES ASSUME ~ Stuck PROVE PlainStep
  OBVIOUS
<1>1. Context(ctx) /\ AnySeq(ctx.posts)
  BY DEF IInv, Context
<1>2. /\ \A n : Plain(ItemFrame(n))
      /\ \A n, k : Plain([op |-> "end_capture", start |-> k]) /\ Plain([op |-> "end_scope", outer |-> k])
                   /\ Plain([op |-> "end_store", node |-> n, start |-> k])
      /\ Plain([op |-> "flushed"])
  BY DEF Plain, ItemFrame
<1>3. \A f : PlainSeq(f) /\ work # <<>> /\ Top.op \notin {"leave", "top"} /\ work' = f \o Tail(work)
             /\ ctx' = ctx /\ taken' = taken /\ recording' = recording => PlainStep
  BY <1>1 DEF PlainStep
<1> USE DEF At, AtOp, Goto, Return, Fail, Stuck, randVars
<1>4. CASE BuildRaw \/ BuildDraw
  BY <1>3, <1>4, PlainSeqs DEF BuildRaw, BuildDraw
<1>5. CASE BuildAnd \/ NextItem
  BY <1>3, <1>5, AndIsPlain DEF BuildAnd, NextItem
<1>6. CASE BuildOpt
  BY <1>2, <1>3, <1>6, PlainSeqs DEF BuildOpt
<1>7. CASE BuildOr
  BY <1>2, <1>3, <1>7, PlainSeqs DEF BuildOr, BuildChoice, BuildEntry
<1>8. CASE BuildRule
  BY <1>2, <1>3, <1>8, PlainSeqs DEF BuildRule, BuildChoice, BuildEntry
<1>9. CASE FlushTop \/ BuildFlush
  <2>1. FlushPrePost /\ work # <<>> /\ Top.op \notin {"leave", "top"}
    BY <1>9 DEF FlushTop, BuildFlush
  <2> DEFINE f == ItemFrames(ctx.posts) \o <<[op |-> "flushed"]>>
  <2>2. PlainSeq(f)
    BY <1>1, <1>2, PlainItems
  <2>3. /\ work' = f \o Tail(work) /\ ctx' = ctx /\ taken' = taken /\ recording' = recording
    BY <2>1 DEF FlushPrePost
  <2> HIDE DEF f
  <2> QED BY <1>3, <2>1, <2>2, <2>3
<1>10. CASE BuildCapture \/ BuildCaptured
  BY <1>2, <1>3, <1>10, PlainSeqs DEF BuildCapture, BuildCaptured
<1>11. CASE BuildId \/ BuildStore
  BY <1>2, <1>3, <1>11, PlainSeqs DEF BuildId, BuildStore
<1>12. CASE EndStore
  BY <1>2, <1>3, <1>12, PlainSeqs DEF EndStore
<1>13. CASE BuildScope \/ EndScope
  BY <1>2, <1>3, <1>13, PlainSeqs DEF BuildScope, EndScope
<1>14. CASE BuildScopeAction \/ BuildNullItem
  BY <1>2, <1>3, <1>14, PlainSeqs DEF BuildScopeAction, BuildNullItem
<1> QED BY <1>4, <1>5, <1>6, <1>7, <1>8, <1>9, <1>10, <1>11, <1>12, <1>13, <1>14 DEF PlainActions

LEMMA RedirectActionIsPlain ==
  ASSUME IInv, RedirectActions
  PROVE  Stuck \/ PlainStep
<1> SUFFICES ASSUME ~ Stuck PROVE PlainStep
  OBVIOUS
<1>1. Context(ctx) /\ AnySeq(ctx.posts) /\ AnySeq(work) /\ \A i \in 1..Len(work) : Frame(work[i])
  BY DEF IInv, Context, StackInv
<1>2. work # <<>> => Frame(Top)
  <2>1. work # <<>> => 1 \in 1..Len(work) /\ Top = work[1]
    BY <1>1, SeqFacts DEF Top
  <2> QED BY <2>1, <1>1
<1>3. /\ \A n : Plain(ItemFrame(n))
      /\ \A o : Plain([op |-> "end_pre", out |-> o])
      /\ \A o, q : \A k \in Nat : Plain([op |-> "end_flushed", out |-> o, pre |-> q, posts |-> k])
      /\ \A i : \A k \in Nat : Plain([op |-> "posts", next |-> i, keep |-> k])
  BY DEF Plain, ItemFrame
<1>4. ASSUME NEW pre, NEW out, NEW posts, NEW captures, AnySeq(posts),
             ctx' = [ctx EXCEPT !.pre = pre, !.out = out, !.posts = posts, !.captures = captures]
      PROVE  Context(ctx') /\ ctx'.depth = ctx.depth
  <2>1. ctx' = [depth |-> ctx.depth, limit |-> ctx.limit, pre |-> pre, out |-> out, posts |-> posts,
                captures |-> captures, replay |-> ctx.replay, replayIdx |-> ctx.replayIdx]
    BY <1>1, <1>4 DEF Context
  <2> QED BY <1>1, <1>4, <2>1 DEF Context
<1> DEFINE Update == \E pre, out, posts, captures :
              /\ AnySeq(posts)
              /\ ctx' = [ctx EXCEPT !.pre = pre, !.out = out, !.posts = posts, !.captures = captures]
<1>5. ASSUME Update
      PROVE  Context(ctx') /\ ctx'.depth = ctx.depth
  <2>1. PICK pre, out, posts, captures :
          /\ AnySeq(posts)
          /\ ctx' = [ctx EXCEPT !.pre = pre, !.out = out, !.posts = posts, !.captures = captures]
    BY <1>5
  <2> HIDE DEF Update
  <2> QED BY <2>1, <1>4
<1>6. \A f : /\ PlainSeq(f) /\ work # <<>> /\ Top.op \notin {"leave", "top"} /\ work' = f \o Tail(work)
             /\ Update /\ taken' = taken /\ recording' = recording
             => PlainStep
  BY <1>5 DEF PlainStep
<1> HIDE DEF Update
<1>7. ASSUME NEW pre, ctx' = [ctx EXCEPT !.pre = pre]
      PROVE  Update
  <2>1. ctx' = [ctx EXCEPT !.pre = pre, !.out = ctx.out, !.posts = ctx.posts, !.captures = ctx.captures]
    BY <1>1, <1>7 DEF Context
  <2> QED BY <1>1, <2>1 DEF Update
<1>8. ASSUME NEW pre, NEW out, ctx' = [ctx EXCEPT !.pre = pre, !.out = out]
      PROVE  Update
  <2>1. ctx' = [ctx EXCEPT !.pre = pre, !.out = out, !.posts = ctx.posts, !.captures = ctx.captures]
    BY <1>1, <1>8 DEF Context
  <2> QED BY <1>1, <2>1 DEF Update
<1>9. ASSUME NEW posts, AnySeq(posts), ctx' = [ctx EXCEPT !.posts = posts]
      PROVE  Update
  <2>1. ctx' = [ctx EXCEPT !.pre = ctx.pre, !.out = ctx.out, !.posts = posts, !.captures = ctx.captures]
    BY <1>1, <1>9 DEF Context
  <2>2. AnySeq(posts)
    BY <1>9
  <2> QED BY <2>1, <2>2, Zenon DEF Update
<1>10. ASSUME NEW captures, ctx' = [ctx EXCEPT !.captures = captures]
       PROVE  Update
  <2>1. ctx' = [ctx EXCEPT !.pre = ctx.pre, !.out = ctx.out, !.posts = ctx.posts, !.captures = captures]
    BY <1>1, <1>10 DEF Context
  <2> QED BY <1>1, <2>1 DEF Update
<1>11. ASSUME ctx' = ctx
       PROVE  Update
  BY <1>1, <1>7, <1>11 DEF Context
<1> USE DEF At, AtOp, Goto, Return, Fail, Stuck, randVars
<1>12. CASE FlushedPrePost
  <2>1. ctx' = [ctx EXCEPT !.pre = Null, !.out = ctx.out, !.posts = <<>>, !.captures = ctx.captures]
    BY <1>1, <1>12 DEF FlushedPrePost, Context
  <2>2. Update
    BY <2>1, NoItems DEF Update
  <2> QED BY <1>6, <1>12, <2>2, PlainSeqs DEF FlushedPrePost
<1>13. CASE EndTop
  <2>1. Update
    BY <1>7, <1>13 DEF EndTop
  <2> QED BY <1>6, <1>13, <2>1, PlainSeqs DEF EndTop
<1>14. CASE BuildPre
  <2>1. /\ ctx' = [ctx EXCEPT !.out = ctx.pre, !.pre = Len(bufs) + 1]
        /\ work' = <<ItemFrame(Kid), [op |-> "end_pre", out |-> ctx.out]>> \o Tail(work)
        /\ work # <<>> /\ Top.op = "item" /\ taken' = taken /\ recording' = recording
    BY <1>14 DEF BuildPre
  <2>2. ctx' = [ctx EXCEPT !.pre = Len(bufs) + 1, !.out = ctx.pre]
    BY <1>1, <2>1 DEF Context
  <2>3. Update
    BY <1>8, <2>2
  <2> QED BY <1>3, <1>6, <2>1, <2>3, PlainSeqs
<1>15. CASE EndPre
  <2>1. Update
    BY <1>8, <1>15 DEF EndPre
  <2> QED BY <1>6, <1>15, <2>1, PlainSeqs DEF EndPre
<1>16. CASE BuildPost
  <2>1. ctx' = [ctx EXCEPT !.posts = Append(ctx.posts, Kid)]
    BY <1>16 DEF BuildPost
  <2>2. Update
    BY <1>1, <1>9, <2>1, Appended
  <2> QED BY <1>6, <1>16, <2>2, PlainSeqs DEF BuildPost
<1>17. CASE BuildFlushed
  <2>1. Update /\ Len(ctx.posts) \in Nat
    BY <1>1, <1>8, <1>17, SeqFacts DEF BuildFlushed
  <2> QED BY <1>3, <1>6, <1>17, <2>1, PlainSeqs DEF BuildFlushed
<1>18. CASE EndFlushed
  <2>1. Update /\ Top.posts \in Nat
    BY <1>2, <1>8, <1>18 DEF EndFlushed, Frame
  <2> QED BY <1>3, <1>6, <1>18, <2>1, PlainSeqs DEF EndFlushed
<1>19. CASE NextPost
  <2>1. Top.keep \in Nat
    BY <1>2, <1>19 DEF NextPost, Frame
  <2>2. CASE Top.next <= Len(ctx.posts)
    <3>1. Update
      BY <1>11, <1>19, <2>2 DEF NextPost
    <3> QED BY <1>3, <1>6, <1>19, <2>1, <2>2, <3>1, PlainSeqs DEF NextPost
  <2>3. CASE ~ (Top.next <= Len(ctx.posts))
    <3> DEFINE posts == [i \in 1..Top.keep |-> IF i <= Len(ctx.posts) THEN ctx.posts[i] ELSE NoNode]
    <3>1. ctx' = [ctx EXCEPT !.posts = posts] /\ work' = <<>> \o Tail(work)
      BY <1>19, <2>3 DEF NextPost
    <3>2. posts \in Seq({posts[i] : i \in 1..Top.keep})
      BY <2>1
    <3>3. AnySeq(posts)
      BY <3>2 DEF AnySeq
    <3> HIDE DEF posts
    <3>4. Update
      BY <1>9, <3>1, <3>3
    <3> QED BY <1>6, <1>19, <3>1, <3>4, PlainSeqs DEF NextPost
  <2> QED BY <2>2, <2>3
<1>20. CASE EndCapture
  <2>1. Update
    BY <1>10, <1>20 DEF EndCapture
  <2> QED BY <1>6, <1>20, <2>1, PlainSeqs DEF EndCapture
<1> QED BY <1>12, <1>13, <1>14, <1>15, <1>16, <1>17, <1>18, <1>19, <1>20 DEF RedirectActions

LEMMA BuildTopKeeps == ASSUME IInv, OuterSame, BuildTop PROVE IInv'
<1>1. Context(ctx) /\ work # <<>> /\ Top.op = "top" /\ AnySeq(work)
  BY DEF BuildTop, AtOp, IInv, StackInv
<1>2. Len(work) = 1 /\ ctx.depth = 0
  <2>1. 1 \in 1..Len(work) /\ Top = work[1]
    BY <1>1, SeqFacts DEF Top
  <2> QED BY <1>1, <2>1 DEF IInv, TakenInv
<1>3. CASE ValidRule(1, 1)
  <2>1. Enter(1, 1, ctx, rng)
    BY <1>3 DEF BuildTop
  <2> QED BY <1>1, <1>2, <2>1, EnterKeeps
<1>4. CASE ~ ValidRule(1, 1)
  <2>1. work' = <<>> \o Tail(work) /\ UNCHANGED <<ctx, taken, recording>>
    BY <1>4 DEF BuildTop, Return, Goto, randVars
  <2>2. work' = <<>>
    <3>1. PICK S : work \in Seq(S)
      BY <1>1 DEF AnySeq
    <3>2. Tail(work) \in Seq(S) /\ Len(Tail(work)) = 0
      BY <1>1, <1>2, <3>1
    <3> QED BY <2>1, <3>2
  <2>3. AnySeq(work') /\ Len(work') = 0
    BY <2>2, NoItems
  <2>4. StackInv'
    <3>1. Len(work') = 0 /\ ctx'.depth = 0
      BY <1>2, <2>1, <2>3
    <3>2. 1..0 = {}
      OBVIOUS
    <3>3. Nesting(work', ctx'.depth)
      BY <3>1, <3>2 DEF Nesting
    <3> QED BY <2>2, <2>3, <3>1, <3>2, <3>3 DEF StackInv
  <2>5. TakenInv'
    BY <2>3 DEF TakenInv
  <2> QED BY <2>1, <2>4, <2>5 DEF IInv, PlanInv, RecordingsInv, OuterSame
<1> QED BY <1>3, <1>4

LEMMA BuildRefKeeps == ASSUME IInv, OuterSame, BuildRef PROVE IInv'
<1> DEFINE deeper == [ctx EXCEPT !.depth = @ + 1]
<1>1. Context(ctx) /\ work # <<>> /\ Top.op = "item"
  BY DEF BuildRef, At, IInv
<1>2. Context(deeper) /\ deeper.depth = ctx.depth + 1
  <2>1. deeper = [depth |-> ctx.depth + 1, limit |-> ctx.limit, pre |-> ctx.pre, out |-> ctx.out,
                  posts |-> ctx.posts, captures |-> ctx.captures, replay |-> ctx.replay,
                  replayIdx |-> ctx.replayIdx]
    BY <1>1 DEF Context
  <2> HIDE DEF deeper
  <2> QED BY <1>1, <2>1 DEF Context
<1>3. \/ \E s, i, r : Enter(s, i, deeper, r)
      \/ Stuck
      \/ work' = <<>> \o Tail(work) /\ UNCHANGED <<ctx, taken, recording>>
  BY DEF BuildRef, Return, Goto, Fail, Stuck, randVars
<1>4. CASE \E s, i, r : Enter(s, i, deeper, r)
  <2> HIDE DEF deeper
  <2> QED BY <1>1, <1>2, <1>4, EnterKeeps
<1>5. CASE Stuck
  BY <1>5, SameKeeps DEF Stuck
<1>6. CASE work' = <<>> \o Tail(work) /\ UNCHANGED <<ctx, taken, recording>>
  <2>1. PlainStep
    BY <1>1, <1>6, PlainSeqs DEF PlainStep
  <2> QED BY <2>1, PlainKeeps
<1> QED BY <1>3, <1>4, <1>5, <1>6

LEMMA BuildKeeps == ASSUME IInv, Build PROVE IInv'
<1>1. BuildStep /\ OuterSame
  BY DEF Build, OuterSame, loopVars
<1>2. \/ BuildTop \/ BuildRef \/ LeaveRule
      \/ PlainActions \/ RedirectActions
  BY <1>1 DEF BuildStep, PlainActions, RedirectActions
<1>3. CASE PlainActions
  BY <1>1, <1>3, PlainActionIsPlain, PlainKeeps, SameKeeps DEF Stuck
<1>4. CASE RedirectActions
  BY <1>1, <1>4, RedirectActionIsPlain, PlainKeeps, SameKeeps DEF Stuck
<1> QED BY <1>1, <1>2, <1>3, <1>4, BuildTopKeeps, BuildRefKeeps, LeaveKeeps

-----------------------------------------------------------------------------
(* Steps outside a build.                                                  *)

LEMMA DepthIsZero == ASSUME IInv, work = <<>> PROVE ctx.depth = 0
<1>1. Len(work) = 0 /\ Nesting(work, ctx.depth) /\ ctx.depth \in Nat
  BY NoItems DEF IInv, StackInv, Context
<1>2. 1..0 = {}
  OBVIOUS
<1>3. ~ (1 \in 1..ctx.depth)
  BY <1>1, <1>2 DEF Nesting
<1> QED BY <1>1, <1>3

LEMMA EmptyStack == ASSUME work' = <<>>, ctx'.depth = 0 PROVE StackInv' /\ TakenInv'
<1>1. AnySeq(work') /\ Len(work') = 0
  BY NoItems
<1>2. 1..0 = {}
  OBVIOUS
<1>3. Nesting(work', ctx'.depth)
  BY <1>1, <1>2 DEF Nesting
<1>4. StackInv'
  BY <1>1, <1>2, <1>3 DEF StackInv
<1>5. TakenInv'
  BY <1>1, <1>2 DEF TakenInv
<1> QED BY <1>4, <1>5

\* All recordings but taken.
Others(c, m, s) ==
  /\ AnySeq(c) /\ \A k \in 1..Len(c) : Recording(c[k].snaps)
  /\ Recording(m) /\ Recording(s)

LEMMA QuietKeeps ==
  ASSUME work' = <<>>, Context(ctx'), ctx'.depth = 0, PlanInv', Recording(taken'),
         Others(corpus', mutated', saved')
  PROVE  IInv'
<1>1. StackInv' /\ TakenInv'
  BY EmptyStack
<1>2. RecordingsInv'
  BY DEF RecordingsInv, Others
<1> QED BY <1>1, <1>2 DEF IInv

LEMMA StartKeeps ==
  ASSUME NEW c, StartBuild(c), Context(c), c.depth = 0, PlanInv', Others(corpus', mutated', saved')
  PROVE  IInv'
<1>1. /\ at' = "build" /\ ctx' = c /\ work' = <<[op |-> "top"]>> /\ taken' = <<>>
  BY DEF StartBuild
<1>2. AnySeq(work') /\ Len(work') = 1 /\ work'[1].op = "top" /\ 1..1 = {1} /\ 1..0 = {}
  <2>1. AnySeq(work') /\ Len(work') = 1 /\ work'[1].op = "top"
    BY <1>1, ShortSeq
  <2>2. 1..1 = {1} /\ 1..0 = {}
    OBVIOUS
  <2> QED BY <2>1, <2>2
<1>3. Nesting(work', ctx'.depth)
  BY <1>1, <1>2 DEF Nesting
<1>4. StackInv'
  BY <1>1, <1>2, <1>3 DEF StackInv, Frame
<1>5. TakenInv'
  BY <1>1, <1>2 DEF TakenInv
<1>6. RecordingsInv'
  BY <1>1, EmptyRecording DEF RecordingsInv, Others
<1> QED BY <1>1, <1>4, <1>5, <1>6 DEF IInv

LEMMA NewContextIsContext ==
  ASSUME NEW replay, Recording(replay)
  PROVE  Context(NewContext(MaxDepth, replay)) /\ NewContext(MaxDepth, replay).depth = 0
  BY ReplayAssumption, NoItems DEF NewContext, Context

LEMMA ReplayIsContext ==
  ASSUME Context(ctx), NEW r, Recording(r), NEW d \in 0..MaxDepth, NEW j \in Nat, NEW c,
         \/ c = [ctx EXCEPT !.replay = r, !.replayIdx = j]
         \/ c = [ctx EXCEPT !.replay = r, !.replayIdx = j, !.limit = d]
  PROVE  Context(c) /\ c.depth = ctx.depth
<1>1. PICK l \in 0..MaxDepth :
        c = [depth |-> ctx.depth, limit |-> l, pre |-> ctx.pre, out |-> ctx.out,
             posts |-> ctx.posts, captures |-> ctx.captures, replay |-> r, replayIdx |-> j]
  <2>1. CASE c = [ctx EXCEPT !.replay = r, !.replayIdx = j]
    BY <2>1 DEF Context
  <2>2. CASE c = [ctx EXCEPT !.replay = r, !.replayIdx = j, !.limit = d]
    BY <2>2 DEF Context
  <2> QED BY <2>1, <2>2
<1> QED BY <1>1 DEF Context

\* A plan matters only while the recording is mutated.
LEMMA PlanKeeps ==
  ASSUME IInv, at' # "mutate", plan' = plan \/ plan' = NoPlan
  PROVE  PlanInv'
  BY EmptyRecording DEF IInv, PlanInv, NoPlan

LEMMA LaunchKeeps == ASSUME IInv, LaunchCampaign \/ Relaunch PROVE IInv'
<1>1. /\ work' = <<>> /\ ctx' = NewContext(MaxDepth, <<>>) /\ mutated' = <<>>
      /\ at' = "top" /\ UNCHANGED <<taken, corpus, saved, plan>>
  BY DEF LaunchCampaign, Relaunch, Forked, Built, IInv, StackInv
<1>2. Context(ctx') /\ ctx'.depth = 0
  BY <1>1, NewContextIsContext, EmptyRecording
<1>3. Recording(taken') /\ Others(corpus', mutated', saved')
  BY <1>1, EmptyRecording DEF IInv, RecordingsInv, Others
<1> QED BY <1>1, <1>2, <1>3, PlanKeeps, QuietKeeps

LEMMA CreateKeeps == ASSUME IInv, Create PROVE IInv'
<1>1. PICK d \in 1..MaxDepth : StartBuild([ctx EXCEPT !.replay = <<>>, !.replayIdx = 0, !.limit = d])
  BY DEF Create
<1> DEFINE c == [ctx EXCEPT !.replay = <<>>, !.replayIdx = 0, !.limit = d]
<1>2. Context(ctx) /\ ctx.depth = 0 /\ d \in 0..MaxDepth
  BY ReplayAssumption, DepthIsZero DEF Create, IInv, StackInv
<1> HIDE DEF c
<1>3. Context(c) /\ c.depth = 0
  <2>1. PICK z \in Nat : z = 0
    OBVIOUS
  <2>2. c = [ctx EXCEPT !.replay = <<>>, !.replayIdx = z, !.limit = d]
    BY <2>1 DEF c
  <2> QED BY <1>2, <2>2, EmptyRecording, ReplayIsContext
<1>4. Others(corpus', mutated', saved') /\ plan' = plan /\ at' # "mutate"
  BY <1>1 DEF Create, StartBuild, IInv, RecordingsInv, Others, loopVars
<1> HIDE DEF c
<1> QED BY <1>1, <1>3, <1>4, PlanKeeps, StartKeeps DEF c

LEMMA BuildMutatedKeeps == ASSUME IInv, BuildMutated PROVE IInv'
<1> DEFINE c == [ctx EXCEPT !.replay = mutated, !.replayIdx = 0]
<1>1. StartBuild(c) /\ plan' = NoPlan /\ UNCHANGED <<corpus, mutated, saved>> /\ at = "mutate"
  BY DEF BuildMutated
<1>2. Context(ctx) /\ ctx.depth = 0 /\ Recording(mutated)
  BY <1>1, DepthIsZero DEF IInv, StackInv, RecordingsInv
<1> HIDE DEF c
<1>3. Context(c) /\ c.depth = 0
  <2>1. PICK z \in Nat : z = 0
    OBVIOUS
  <2>2. c = [ctx EXCEPT !.replay = mutated, !.replayIdx = z]
    BY <2>1 DEF c
  <2>3. 0 \in 0..MaxDepth
    BY ReplayAssumption
  <2> QED BY <1>2, <2>2, <2>3, ReplayIsContext
<1>4. Others(corpus', mutated', saved') /\ at' # "mutate"
  BY <1>1 DEF StartBuild, IInv, RecordingsInv, Others
<1> HIDE DEF c
<1> QED BY <1>1, <1>3, <1>4, PlanKeeps, StartKeeps

LEMMA DumpKeeps == ASSUME IInv, dumped \in Nat, DumpEntry PROVE IInv'
<1> DEFINE snaps == corpus[dumped + 1].snaps
           c == [ctx EXCEPT !.replay = snaps, !.replayIdx = 0]
<1>1. StartBuild(c) /\ UNCHANGED <<corpus, mutated, saved, plan>> /\ work = <<>>
  BY DEF DumpEntry, loopVars, Built, IInv, StackInv
<1>2. Recording(snaps)
  <2>1. dumped + 1 \in 1..Len(corpus)
    <3>1. Len(corpus) \in Nat /\ dumped < Len(corpus)
      BY SeqFacts DEF DumpEntry, IInv, RecordingsInv
    <3> QED BY <3>1
  <2> QED BY <2>1 DEF IInv, RecordingsInv
<1>3. Context(ctx) /\ ctx.depth = 0
  BY <1>1, DepthIsZero DEF IInv
<1> HIDE DEF snaps
<1> HIDE DEF c
<1>4. Context(c) /\ c.depth = 0
  <2>1. PICK z \in Nat : z = 0
    OBVIOUS
  <2>2. c = [ctx EXCEPT !.replay = snaps, !.replayIdx = z]
    BY <2>1 DEF c
  <2>3. 0 \in 0..MaxDepth
    BY ReplayAssumption
  <2> QED BY <1>2, <1>3, <2>2, <2>3, ReplayIsContext
<1>5. Others(corpus', mutated', saved') /\ at' # "mutate"
  BY <1>1 DEF StartBuild, IInv, RecordingsInv, Others
<1> HIDE DEF c
<1> QED BY <1>1, <1>4, <1>5, PlanKeeps, StartKeeps

LEMMA CrashKeeps == ASSUME IInv, RunAndCrash PROVE IInv'
<1> DEFINE c == NewContext(MaxDepth, mutated)
<1>1. StartBuild(c) /\ saved' = mutated /\ UNCHANGED <<corpus, mutated, plan>>
  BY DEF RunAndCrash
<1>2. Context(c) /\ c.depth = 0
  BY NewContextIsContext DEF IInv, RecordingsInv
<1>3. Others(corpus', mutated', saved') /\ at' # "mutate"
  BY <1>1 DEF StartBuild, IInv, RecordingsInv, Others
<1> HIDE DEF c
<1> QED BY <1>1, <1>2, <1>3, PlanKeeps, StartKeeps

LEMMA RunKeeps == ASSUME IInv, RunQuietly \/ RunWithNews PROVE IInv'
<1>1. work = <<>> /\ work' = <<>> /\ UNCHANGED <<ctx, taken, mutated, plan>> /\ saved' = mutated
      /\ at' = "top"
  BY DEF RunQuietly, RunWithNews, Built, genVars
<1>2. Context(ctx') /\ ctx'.depth = 0
  BY <1>1, DepthIsZero DEF IInv
<1>3. AnySeq(corpus') /\ \A k \in 1..Len(corpus') : Recording(corpus'[k].snaps)
  <2>1. AnySeq(corpus) /\ (\A k \in 1..Len(corpus) : Recording(corpus[k].snaps)) /\ Recording(taken)
    BY DEF IInv, RecordingsInv
  <2>2. CASE RunQuietly
    BY <2>1, <2>2 DEF RunQuietly
  <2>3. CASE RunWithNews
    <3> DEFINE e == [snaps |-> taken, text |-> bufs[1], pristine |-> pristine]
    <3>1. corpus' = Append(corpus, e) /\ e.snaps = taken
      BY <2>3 DEF RunWithNews
    <3> HIDE DEF e
    <3>2. /\ AnySeq(corpus') /\ Len(corpus) \in Nat /\ Len(corpus') = Len(corpus) + 1
          /\ \A k \in 1..Len(corpus) : corpus'[k] = corpus[k]
          /\ corpus'[Len(corpus) + 1] = e
      BY <2>1, <3>1, Appended
    <3>3. \A k \in 1..Len(corpus') : k \in 1..Len(corpus) \/ k = Len(corpus) + 1
      BY <3>2
    <3> QED BY <2>1, <3>1, <3>2, <3>3
  <2> QED BY <2>2, <2>3
<1>4. Others(corpus', mutated', saved') /\ Recording(taken')
  BY <1>1, <1>3 DEF IInv, RecordingsInv, Others
<1> QED BY <1>1, <1>2, <1>4, PlanKeeps, QuietKeeps

LEMMA StartDumpKeeps == ASSUME IInv, StartDump PROVE IInv'
<1>1. /\ work' = <<>> /\ ctx' = NewContext(MaxDepth, <<>>) /\ mutated' = <<>> /\ saved' = <<>>
      /\ at' = "dump" /\ UNCHANGED <<taken, corpus, plan>>
  BY DEF StartDump, IInv, StackInv
<1>2. Context(ctx') /\ ctx'.depth = 0
  BY <1>1, NewContextIsContext, EmptyRecording
<1>3. Recording(taken') /\ Others(corpus', mutated', saved')
  BY <1>1, EmptyRecording DEF IInv, RecordingsInv, Others
<1> QED BY <1>1, <1>2, <1>3, PlanKeeps, QuietKeeps

LEMMA PickKeeps == ASSUME IInv, PickInput PROVE IInv'
<1>1. /\ work' = <<>> /\ UNCHANGED <<ctx, taken, corpus, saved>> /\ mutated' = <<>>
  BY DEF PickInput, genVars, IInv, StackInv
<1>2. Context(ctx') /\ ctx'.depth = 0
  BY <1>1, DepthIsZero DEF IInv, PickInput, StackInv
<1>3. Recording(taken') /\ Others(corpus', mutated', saved')
  BY <1>1, EmptyRecording DEF IInv, RecordingsInv, Others
<1>e. PICK e \in ToSet(corpus) : \E t, l :
        plan' = NoPlan \/ plan' = [NoPlan EXCEPT !.orig = e.snaps, !.target = t, !.left = l]
  BY DEF PickInput
<1>4. PICK t, l : plan' = NoPlan \/ plan' = [NoPlan EXCEPT !.orig = e.snaps, !.target = t, !.left = l]
  BY <1>e
<1>5. Recording(e.snaps)
  <2>1. DOMAIN corpus = 1..Len(corpus)
    BY SeqFacts DEF IInv, RecordingsInv
  <2> QED BY <2>1 DEF IInv, RecordingsInv, ToSet
<1>6. PlanInv'
  <2>1. CASE plan' = NoPlan
    <3>1. plan'.orig = <<>> /\ plan'.cur = 1 /\ Len(<<>>) = 0
      BY <2>1, NoItems DEF NoPlan
    <3>2. plan' = [orig |-> plan'.orig, cur |-> plan'.cur, target |-> plan'.target,
                   left |-> plan'.left, from |-> plan'.from, new |-> plan'.new]
      BY <2>1 DEF NoPlan
    <3> QED BY <1>1, <3>1, <3>2, EmptyRecording DEF PlanInv
  <2>2. CASE plan' = [NoPlan EXCEPT !.orig = e.snaps, !.target = t, !.left = l]
    <3>1. plan' = [orig |-> e.snaps, cur |-> 1, target |-> t, left |-> l, from |-> <<>>, new |-> {}]
      BY <2>2 DEF NoPlan
    <3>2. plan'.orig = e.snaps /\ plan'.cur = 1
      BY <3>1
    <3>3. plan' = [orig |-> plan'.orig, cur |-> plan'.cur, target |-> plan'.target,
                   left |-> plan'.left, from |-> plan'.from, new |-> plan'.new]
      BY <3>1
    <3> QED BY <1>1, <1>5, <3>2, <3>3 DEF PlanInv
  <2> QED BY <1>4, <2>1, <2>2
<1> QED BY <1>1, <1>2, <1>3, <1>6, QuietKeeps

\* A snapshot is copied or changed: what comes next in the original fits it.
LEMMA MutationKeeps ==
  ASSUME IInv, Mutating, NEW x, x.depth = Current.depth, x.limit \in 0..MaxDepth,
         mutated' = Append(mutated, x), NEW n \in Nat, n > plan.cur,
         n <= Len(plan.orig) => plan.orig[n].depth <= Current.depth + 1,
         UNCHANGED <<genVars, at, corpus, saved>>,
         NEW t, NEW l, NEW f, NEW w,
         plan' = [plan EXCEPT !.cur = n, !.target = t, !.left = l, !.from = f, !.new = w]
  PROVE  IInv'
<1>1. /\ work = <<>> /\ work' = <<>> /\ UNCHANGED <<ctx, taken, corpus, saved, at>> /\ at = "mutate"
  BY DEF Mutating, genVars, IInv, StackInv
<1>2. Context(ctx') /\ ctx'.depth = 0
  BY <1>1, DepthIsZero DEF IInv
<1>3. /\ Recording(mutated) /\ Recording(plan.orig) /\ plan.cur \in Nat \ {0}
      /\ plan.cur \in 1..Len(plan.orig) /\ Len(plan.orig) \in Nat
  BY SeqFacts DEF IInv, RecordingsInv, PlanInv, Mutating, Recording
<1>4. x.depth \in Nat /\ IF plan.cur = 1 THEN x.depth = 0 ELSE x.depth \in Nat \ {0}
  BY <1>3 DEF Recording, Current
<1>5. IF mutated = <<>> THEN x.depth = 0 ELSE x.depth \in 1..(mutated[Len(mutated)].depth + 1)
  <2>1. IF plan.cur = 1 THEN mutated = <<>>
        ELSE mutated # <<>> /\ x.depth <= mutated[Len(mutated)].depth + 1
    BY <1>1, <1>3 DEF IInv, PlanInv, Current
  <2>2. mutated # <<>> => mutated[Len(mutated)].depth \in Nat
    BY <1>3, SeqFacts DEF Recording
  <2> QED BY <2>1, <2>2, <1>4
<1>6. Recording(mutated') /\ mutated' # <<>> /\ mutated'[Len(mutated')] = x
  BY <1>3, <1>4, <1>5, RecordingAppended
<1>7. Recording(taken') /\ Others(corpus', mutated', saved')
  BY <1>1, <1>6 DEF IInv, RecordingsInv, Others
<1>8. plan' = [orig |-> plan.orig, cur |-> n, target |-> t, left |-> l, from |-> f, new |-> w]
  BY DEF IInv, PlanInv
<1>9. PlanInv'
  <2>1. plan'.orig = plan.orig /\ plan'.cur = n
    BY <1>8
  <2>2. plan' = [orig |-> plan'.orig, cur |-> plan'.cur, target |-> plan'.target,
                 left |-> plan'.left, from |-> plan'.from, new |-> plan'.new]
    BY <1>8
  <2>3. n \in Nat \ {0} /\ n # 1
    BY <1>3
  <2>4. n <= Len(plan.orig) => plan.orig[n].depth <= mutated'[Len(mutated')].depth + 1
    BY <1>6
  <2> QED BY <1>3, <1>6, <2>1, <2>2, <2>3, <2>4 DEF PlanInv
<1> QED BY <1>1, <1>2, <1>7, <1>9, QuietKeeps

LEMMA AfterNestedFits ==
  ASSUME NEW s, Recording(s), NEW i \in 1..Len(s)
  PROVE  /\ AfterNested(s, i) \in Nat /\ AfterNested(s, i) > i
         /\ AfterNested(s, i) <= Len(s) => s[AfterNested(s, i)].depth <= s[i].depth
<1> DEFINE S == {Len(s) + 1} \cup {j \in (i + 1)..Len(s) : s[j].depth <= s[i].depth}
<1>1. Len(s) \in Nat
  BY SeqFacts DEF Recording
<1>2. S \in SUBSET Nat /\ S # {} /\ \A j \in S : j > i
  BY <1>1
<1>3. MinIn(S) \in S
  BY <1>2, Least
<1>4. AfterNested(s, i) = MinIn(S)
  BY DEF AfterNested
<1> QED BY <1>1, <1>2, <1>3, <1>4

LEMMA KeepSnapshotKeeps == ASSUME IInv, KeepSnapshot PROVE IInv'
<1>1. /\ Recording(plan.orig) /\ plan.cur \in Nat \ {0} /\ plan.cur \in 1..Len(plan.orig) /\ Mutating
      /\ plan = [orig |-> plan.orig, cur |-> plan.cur, target |-> plan.target, left |-> plan.left,
                 from |-> plan.from, new |-> plan.new]
  BY SeqFacts DEF IInv, PlanInv, Mutating, Recording, KeepSnapshot
<1>2. Current.limit \in 0..MaxDepth /\ Current.depth \in Nat
  BY <1>1 DEF Recording, Current
<1>3. plan.cur + 1 <= Len(plan.orig) => plan.orig[plan.cur + 1].depth <= Current.depth + 1
  <2>1. ASSUME plan.cur + 1 <= Len(plan.orig)
        PROVE  plan.cur + 1 \in 1..Len(plan.orig) /\ plan.cur + 1 # 1 /\ plan.cur + 1 - 1 = plan.cur
    BY <2>1, <1>1
  <2> QED BY <2>1, <1>1, <1>2 DEF Recording, Current
<1>4. PICK f : plan' = [plan EXCEPT !.cur = plan.cur + 1, !.target = plan.target, !.left = plan.left,
                                    !.from = f, !.new = plan.new]
  BY <1>1 DEF KeepSnapshot
<1>5. mutated' = Append(mutated, Current) /\ UNCHANGED <<genVars, at, corpus, saved>>
  BY DEF KeepSnapshot
<1> DEFINE n == plan.cur + 1
           x == Current
<1>6. n \in Nat /\ n > plan.cur /\ (n <= Len(plan.orig) => plan.orig[n].depth <= Current.depth + 1)
  BY <1>1, <1>3
<1>7. PICK t, l, w : plan' = [plan EXCEPT !.cur = n, !.target = t, !.left = l, !.from = f, !.new = w]
  BY <1>4
<1>8. mutated' = Append(mutated, x) /\ x.depth = Current.depth /\ x.limit \in 0..MaxDepth
  BY <1>2, <1>5
<1> HIDE DEF n, x
<1> QED BY <1>1, <1>5, <1>6, <1>7, <1>8, MutationKeeps

LEMMA MutateSnapshotKeeps == ASSUME IInv, MutateSnapshot PROVE IInv'
<1>1. /\ Recording(plan.orig) /\ plan.cur \in Nat \ {0} /\ plan.cur \in 1..Len(plan.orig) /\ Mutating
  BY SeqFacts DEF IInv, PlanInv, Mutating, Recording, MutateSnapshot
<1>2. Current.limit \in 0..MaxDepth /\ Current.depth \in Nat
  BY <1>1 DEF Recording, Current
<1>a. PICK limit \in {Current.limit} \cup NewLimits(Current.limit) :
        \E state : mutated' = Append(mutated, [depth |-> Current.depth, limit |-> limit,
                                                 rule |-> Current.rule, state |-> state])
  BY DEF MutateSnapshot
<1>3. PICK state :
        mutated' = Append(mutated, [depth |-> Current.depth, limit |-> limit, rule |-> Current.rule,
                                    state |-> state])
  BY <1>a
<1>4. limit \in 0..MaxDepth
  BY <1>2, <1>a, ReplayAssumption DEF NewLimits
<1> DEFINE n == AfterNested(plan.orig, plan.cur)
           x == [depth |-> Current.depth, limit |-> limit, rule |-> Current.rule, state |-> state]
<1>5. n \in Nat /\ n > plan.cur /\ (n <= Len(plan.orig) => plan.orig[n].depth <= Current.depth)
  BY <1>1, AfterNestedFits DEF Current
<1>6. n <= Len(plan.orig) => plan.orig[n].depth <= Current.depth + 1
  <2>1. ASSUME n <= Len(plan.orig)
        PROVE  plan.orig[n].depth \in Nat
    BY <2>1, <1>1, <1>5, SeqFacts DEF Recording
  <2> QED BY <2>1, <1>2, <1>5
<1>7. PICK t, l, f, w : plan' = [plan EXCEPT !.cur = n, !.target = t, !.left = l, !.from = f, !.new = w]
  <2>1. PICK target : plan' = [plan EXCEPT !.cur = AfterNested(plan.orig, plan.cur), !.target = target,
                                 !.left = IF @ > 0 /\ plan.cur # Len(plan.orig) THEN @ - 1 ELSE @,
                                 !.from = Append(@, plan.cur), !.new = @ \cup {plan.cur}]
    BY DEF MutateSnapshot
  <2> QED BY <2>1
<1>8. x.depth = Current.depth /\ x.limit = limit
  OBVIOUS
<1>9. mutated' = Append(mutated, x) /\ UNCHANGED <<genVars, at, corpus, saved>>
  BY <1>3 DEF MutateSnapshot
<1> HIDE DEF n, x
<1> QED BY <1>1, <1>4, <1>5, <1>6, <1>7, <1>8, <1>9, MutationKeeps

-----------------------------------------------------------------------------
(* The theorems.                                                           *)

Counted == dumped \in Nat

LEMMA CountedKeeps == Counted /\ [Next]_vars => Counted'
<1> SUFFICES ASSUME dumped \in Nat, [Next]_vars PROVE dumped' \in {dumped, dumped + 1}
  BY DEF Counted
<1> USE DEF counts
<1>1. CASE FinalizeStep \/ LaunchCampaign \/ Create \/ UNCHANGED vars
  BY <1>1 DEF FinalizeStep, LaunchCampaign, Create, vars
<1>2. CASE PickInput \/ KeepSnapshot \/ MutateSnapshot \/ BuildMutated
  BY <1>2 DEF PickInput, KeepSnapshot, MutateSnapshot, BuildMutated
<1>3. CASE Build \/ RunQuietly \/ RunWithNews
  BY <1>3 DEF Build, RunQuietly, RunWithNews
<1>4. CASE RunAndCrash \/ Relaunch \/ StartDump
  BY <1>4 DEF RunAndCrash, Relaunch, StartDump
<1>5. CASE DumpEntry
  BY <1>5 DEF DumpEntry
<1> QED BY <1>1, <1>2, <1>3, <1>4, <1>5 DEF Next

LEMMA StepKeeps == IInv /\ Counted /\ [Next]_vars => IInv'
<1> SUFFICES ASSUME IInv, dumped \in Nat, [Next]_vars PROVE IInv'
  BY DEF Counted
<1>1. CASE FinalizeStep
  BY <1>1, SameKeeps DEF FinalizeStep, genVars, loopVars, OuterSame
<1>2. CASE UNCHANGED vars
  BY <1>2, SameKeeps DEF vars, genVars, loopVars, OuterSame
<1> QED BY <1>1, <1>2, BuildKeeps, LaunchKeeps, CreateKeeps, PickKeeps, KeepSnapshotKeeps,
           MutateSnapshotKeeps, BuildMutatedKeeps, RunKeeps, CrashKeeps, StartDumpKeeps, DumpKeeps
        DEF Next

\* The frames of the calls in progress and all recordings are in order in every
\* reachable state of every grammar.
THEOREM RecordingsInOrder == Spec => []IInv
<1>1. Init => Counted
  BY DEF Init, Counted
<1> QED BY <1>1, InitInv, StepKeeps, CountedKeeps, PTL DEF Spec

LEMMA AllRecorded == IInv => \A snaps \in Recordings : Recording(snaps)
<1> SUFFICES ASSUME IInv, NEW snaps \in Recordings PROVE Recording(snaps)
  OBVIOUS
<1>1. DOMAIN corpus = 1..Len(corpus)
  BY SeqFacts DEF IInv, RecordingsInv
<1> QED BY <1>1 DEF Recordings, IInv, RecordingsInv, PlanInv, Context

\* Every recording, taken, saved, mutated or in the corpus, lists its rules from
\* the outside in (build_context.cpp, mutate.cpp).
THEOREM RecordingsArePreorders == Spec => []RecordedIsPreorder
<1>1. IInv => RecordedIsPreorder
  <2> SUFFICES ASSUME IInv, NEW snaps \in Recordings, NEW k \in DOMAIN snaps
               PROVE  IF k = 1 THEN snaps[k].depth = 0
                      ELSE snaps[k].depth \in 1..(snaps[k - 1].depth + 1)
    BY DEF RecordedIsPreorder
  <2>1. Recording(snaps) /\ DOMAIN snaps = 1..Len(snaps)
    BY AllRecorded, SeqFacts DEF Recording
  <2> QED BY <2>1 DEF Recording
<1> QED BY <1>1, RecordingsInOrder, PTL

\* No limit a build runs with or a recording holds exceeds --max-depth, after any
\* number of mutations (main.cpp, mutate.cpp).
THEOREM LimitsAreBounded == Spec => []LimitsWithinMaxDepth
<1>1. IInv => LimitsWithinMaxDepth
  <2> SUFFICES ASSUME IInv PROVE LimitsWithinMaxDepth
    OBVIOUS
  <2>1. ctx.limit <= MaxDepth
    BY ReplayAssumption DEF IInv, Context
  <2>2. ASSUME NEW snaps \in Recordings, NEW k \in DOMAIN snaps
        PROVE  snaps[k].limit <= MaxDepth
    <3>1. Recording(snaps) /\ DOMAIN snaps = 1..Len(snaps)
      BY AllRecorded, SeqFacts DEF Recording
    <3> QED BY <3>1, ReplayAssumption DEF Recording
  <2> QED BY <2>1, <2>2 DEF LimitsWithinMaxDepth
<1> QED BY <1>1, RecordingsInOrder, PTL

-----------------------------------------------------------------------------
(* MutateRandSnapshot on a recording of any length: what has been copied   *)
(* so far.                                                                 *)

\* The result m has one snapshot for each position in from, in order.
Copied(o, cur, from, new, m) ==
  /\ AnySeq(from) /\ AnySeq(m) /\ Len(from) = Len(m)
  /\ \A k \in 1..Len(from) : from[k] \in 1..(cur - 1)
  /\ \A k \in 2..Len(from) : from[k - 1] < from[k]
  /\ \A k \in 1..Len(from) :
       IF from[k] \in new THEN m[k].depth = o[from[k]].depth /\ m[k].rule = o[from[k]].rule
       ELSE m[k] = o[from[k]]

\* A position before cur is missing iff it is nested in a changed one.
Dropped(o, i) == (i + 1)..(AfterNested(o, i) - 1)
Covered(o, cur, from, new) ==
  \A p \in 1..(cur - 1) :
    (\E k \in 1..Len(from) : from[k] = p) <=> ~ \E i \in new : p \in Dropped(o, i)

\* At most three changes, of which one is outstanding while target is ahead.
Budget(o, cur, target, left, new) ==
  /\ target \in 2..Len(o) /\ left \in Nat /\ IsFiniteSet(new)
  /\ Cardinality(new) + left + (IF target >= cur THEN 1 ELSE 0) <= 3
  /\ new # {} \/ target >= cur

Started(o, cur, new) ==
  /\ cur \in 1..(Len(o) + 1)
  /\ new \subseteq 2..(cur - 1)
  /\ \A i \in new : AfterNested(o, i) <= cur

MutInv ==
  at = "mutate" /\ plan.orig # <<>> =>
    /\ Started(plan.orig, plan.cur, plan.new)
    /\ Budget(plan.orig, plan.cur, plan.target, plan.left, plan.new)
    /\ Copied(plan.orig, plan.cur, plan.from, plan.new, mutated)
    /\ Covered(plan.orig, plan.cur, plan.from, plan.new)

-----------------------------------------------------------------------------
(* What is nested in a snapshot follows it at once.                        *)

LEMMA NestedRange ==
  ASSUME NEW s, Recording(s), NEW i \in 1..Len(s)
  PROVE  AfterNested(s, i) \in (i + 1)..(Len(s) + 1) /\ Nested(s, i) = Dropped(s, i)
<1> DEFINE S == {Len(s) + 1} \cup {j \in (i + 1)..Len(s) : s[j].depth <= s[i].depth}
           n == AfterNested(s, i)
<1>1. Len(s) \in Nat /\ DOMAIN s = 1..Len(s) /\ \A k \in 1..Len(s) : s[k].depth \in Nat
  BY SeqFacts DEF Recording
<1>2. S \in SUBSET Nat /\ S # {} /\ S \subseteq (i + 1)..(Len(s) + 1)
  BY <1>1
<1>3. n \in S /\ \A j \in S : n <= j
  BY <1>2, Least DEF AfterNested
<1>4. n \in (i + 1)..(Len(s) + 1) /\ (n <= Len(s) => s[n].depth <= s[i].depth)
  BY <1>1, <1>2, <1>3
<1>5. \A j \in (i + 1)..Len(s) : j < n => ~ (s[j].depth <= s[i].depth)
  BY <1>1, <1>3, <1>4
<1> HIDE DEF S, n
<1>6. ASSUME NEW j \in Nested(s, i)
      PROVE  j \in (i + 1)..(n - 1)
  <2>1. j \in 1..Len(s) /\ j > i /\ \A k \in (i + 1)..j : s[k].depth > s[i].depth
    BY <1>1, <1>6 DEF Nested
  <2>2. CASE n <= j
    <3>1. n \in (i + 1)..j /\ n <= Len(s) /\ n \in 1..Len(s)
      BY <2>1, <2>2, <1>1, <1>4
    <3>2. s[n].depth > s[i].depth /\ s[n].depth <= s[i].depth
      BY <2>1, <3>1, <1>4
    <3> QED BY <3>1, <3>2, <1>1
  <2> QED BY <2>1, <2>2, <1>1, <1>4
<1>7. ASSUME NEW j \in (i + 1)..(n - 1)
      PROVE  j \in Nested(s, i)
  <2>1. j \in 1..Len(s) /\ j > i
    BY <1>1, <1>4
  <2>2. ASSUME NEW k \in (i + 1)..j
        PROVE  s[k].depth > s[i].depth
    <3>1. k \in (i + 1)..Len(s) /\ k < n /\ k \in 1..Len(s)
      BY <2>1, <1>1, <1>4
    <3>2. ~ (s[k].depth <= s[i].depth)
      BY <3>1, <1>5
    <3> QED BY <3>1, <3>2, <1>1
  <2> QED BY <2>1, <2>2, <1>1 DEF Nested
<1> QED BY <1>4, <1>6, <1>7 DEF Dropped, n

-----------------------------------------------------------------------------
(* One more snapshot.                                                      *)

\* The snapshot x is appended for the position cur, and next comes next.
More(o, cur, next, from, new, w, m, x) ==
  /\ cur \in Nat \ {0} /\ next \in Nat /\ next > cur
  /\ Copied(o, cur, from, new, m) /\ new \subseteq 2..(cur - 1)
  /\ w = new \/ w = new \cup {cur}
  /\ IF cur \in w THEN x.depth = o[cur].depth /\ x.rule = o[cur].rule ELSE x = o[cur]

LEMMA OneMore ==
  ASSUME NEW o, NEW cur, NEW next, NEW from, NEW new, NEW w, NEW m, NEW x,
         More(o, cur, next, from, new, w, m, x)
  PROVE  /\ Copied(o, next, Append(from, cur), w, Append(m, x))
         /\ \A p \in Nat : (\E k \in 1..Len(Append(from, cur)) : Append(from, cur)[k] = p)
                           <=> p = cur \/ \E k \in 1..Len(from) : from[k] = p
<1> USE DEF More
<1> DEFINE f == Append(from, cur)
           g == Append(m, x)
<1>1. /\ AnySeq(f) /\ Len(from) \in Nat /\ Len(f) = Len(from) + 1
      /\ \A k \in 1..Len(from) : f[k] = from[k]
      /\ f[Len(from) + 1] = cur
  BY Appended DEF Copied
<1>2. /\ AnySeq(g) /\ Len(m) = Len(from) /\ Len(g) = Len(m) + 1
      /\ \A k \in 1..Len(m) : g[k] = m[k]
      /\ g[Len(m) + 1] = x
  BY Appended DEF Copied
<1> HIDE DEF f, g
<1>3. \A k \in 1..Len(f) : k \in 1..Len(from) \/ k = Len(from) + 1
  BY <1>1
<1>4. \A k \in 1..Len(from) : from[k] \in 1..(cur - 1)
  BY DEF Copied
<1>5. \A k \in 1..Len(f) : f[k] \in 1..(next - 1)
  BY <1>1, <1>3, <1>4
<1>6. ASSUME NEW k \in 2..Len(f)
      PROVE  f[k - 1] < f[k]
  <2>1. CASE k = Len(from) + 1
    <3>1. k - 1 \in 1..Len(from) /\ f[k - 1] = from[k - 1] /\ f[k] = cur
      BY <2>1, <1>1
    <3> QED BY <3>1, <1>4
  <2>2. CASE k \in 2..Len(from)
    <3>1. k \in 1..Len(from) /\ k - 1 \in 1..Len(from)
      BY <2>2, <1>1
    <3>2. from[k - 1] < from[k]
      BY <2>2 DEF Copied
    <3> QED BY <3>1, <3>2, <1>1
  <2> QED BY <2>1, <2>2, <1>1
<1>7. ASSUME NEW k \in 1..Len(f)
      PROVE  IF f[k] \in w THEN g[k].depth = o[f[k]].depth /\ g[k].rule = o[f[k]].rule
             ELSE g[k] = o[f[k]]
  <2>1. CASE k = Len(from) + 1
    BY <2>1, <1>1, <1>2
  <2>2. CASE k \in 1..Len(from)
    <3>1. f[k] = from[k] /\ g[k] = m[k] /\ from[k] # cur
      BY <2>2, <1>1, <1>2, <1>4
    <3>2. f[k] \in w <=> from[k] \in new
      BY <3>1
    <3>3. IF from[k] \in new THEN m[k].depth = o[from[k]].depth /\ m[k].rule = o[from[k]].rule
          ELSE m[k] = o[from[k]]
      BY <2>2 DEF Copied
    <3> QED BY <3>1, <3>2, <3>3
  <2> QED BY <2>1, <2>2, <1>3
<1>8. Copied(o, next, f, w, g)
  BY <1>1, <1>2, <1>5, <1>6, <1>7 DEF Copied
<1>9. \A p \in Nat : (\E k \in 1..Len(f) : f[k] = p) <=> p = cur \/ \E k \in 1..Len(from) : from[k] = p
  <2>1. Len(from) + 1 \in 1..Len(f) /\ \A k \in 1..Len(from) : k \in 1..Len(f)
    BY <1>1
  <2> QED BY <2>1, <1>1, <1>3
<1> QED BY <1>8, <1>9 DEF f, g

LEMMA KeepIsLocal == ASSUME IInv, MutInv, KeepSnapshot PROVE MutInv'
<1> DEFINE o == plan.orig
           cur == plan.cur
           new == plan.new
           f == Append(plan.from, cur)
<1>1. /\ Recording(o) /\ cur \in Nat \ {0} /\ cur \in 1..Len(o) /\ Len(o) \in Nat /\ at = "mutate"
      /\ at' = at /\ mutated' = Append(mutated, Current) /\ cur # plan.target /\ o # <<>>
      /\ plan = [orig |-> plan.orig, cur |-> plan.cur, target |-> plan.target, left |-> plan.left,
                 from |-> plan.from, new |-> plan.new]
  BY SeqFacts DEF IInv, PlanInv, Mutating, Recording, KeepSnapshot
<1>2. /\ plan'.orig = o /\ plan'.cur = cur + 1 /\ plan'.target = plan.target
      /\ plan'.left = plan.left /\ plan'.from = f /\ plan'.new = new
  BY <1>1 DEF KeepSnapshot
<1>3. /\ Started(o, cur, new) /\ Budget(o, cur, plan.target, plan.left, new)
      /\ Copied(o, cur, plan.from, new, mutated) /\ Covered(o, cur, plan.from, new)
  BY <1>1 DEF MutInv
<1>4. Current = o[cur]
  BY DEF Current
<1> HIDE DEF o, cur, new, f
<1>5. Started(o, cur + 1, new)
  BY <1>1, <1>3, NestedRange DEF Started
<1>6. Budget(o, cur + 1, plan.target, plan.left, new)
  BY <1>1, <1>3 DEF Budget
<1>7. new \subseteq 2..(cur - 1) /\ cur \notin new
  BY <1>1, <1>3 DEF Started
<1>8. /\ Copied(o, cur + 1, f, new, mutated')
      /\ \A p \in Nat : (\E k \in 1..Len(f) : f[k] = p)
                        <=> p = cur \/ \E k \in 1..Len(plan.from) : plan.from[k] = p
  <2> DEFINE next == cur + 1
  <2>1. next \in Nat /\ next > cur
    BY <1>1
  <2>2. PICK x, w : x = o[cur] /\ w = new
    OBVIOUS
  <2> HIDE DEF next
  <2>4. /\ Copied(o, next, Append(plan.from, cur), w, Append(mutated, x))
        /\ \A p \in Nat : (\E k \in 1..Len(Append(plan.from, cur)) : Append(plan.from, cur)[k] = p)
                          <=> p = cur \/ \E k \in 1..Len(plan.from) : plan.from[k] = p
    <3>1. More(o, cur, next, plan.from, new, w, mutated, x)
      BY <2>1, <2>2, <1>1, <1>3, <1>7 DEF More
    <3> QED BY <3>1, OneMore
  <2>5. mutated' = Append(mutated, x)
    BY <2>2, <1>1, <1>4
  <2> QED BY <2>2, <2>4, <2>5 DEF f, next
<1>9. Covered(o, cur + 1, f, new)
  <2> SUFFICES ASSUME NEW p \in 1..cur
               PROVE  (\E k \in 1..Len(f) : f[k] = p) <=> ~ \E i \in new : p \in Dropped(o, i)
    BY <1>1 DEF Covered
  <2>1. CASE p = cur
    <3>1. \A i \in new : ~ (p \in Dropped(o, i))
      <4> SUFFICES ASSUME NEW i \in new PROVE ~ (p \in Dropped(o, i))
        OBVIOUS
      <4>1. i \in 1..Len(o) /\ AfterNested(o, i) <= cur
        BY <1>1, <1>3 DEF Started
      <4>2. AfterNested(o, i) \in (i + 1)..(Len(o) + 1)
        BY <4>1, <1>1, NestedRange
      <4> QED BY <2>1, <4>1, <4>2, <1>1 DEF Dropped
    <3> QED BY <2>1, <3>1, <1>1, <1>8
  <2>2. CASE p # cur
    <3>1. p \in 1..(cur - 1) /\ p \in Nat
      BY <2>2, <1>1
    <3>2. (\E k \in 1..Len(plan.from) : plan.from[k] = p) <=> ~ \E i \in new : p \in Dropped(o, i)
      BY <3>1, <1>3 DEF Covered
    <3> QED BY <2>2, <3>1, <3>2, <1>8
  <2> QED BY <2>1, <2>2
<1> QED BY <1>2, <1>5, <1>6, <1>8, <1>9 DEF MutInv

LEMMA MutateIsLocal == ASSUME IInv, MutInv, MutateSnapshot PROVE MutInv'
<1> DEFINE o == plan.orig
           cur == plan.cur
           new == plan.new
           f == Append(plan.from, cur)
           next == AfterNested(o, cur)
           w == new \cup {cur}
<1>1. /\ Recording(o) /\ cur \in Nat \ {0} /\ cur \in 1..Len(o) /\ Len(o) \in Nat /\ at = "mutate"
      /\ at' = at /\ cur = plan.target /\ o # <<>>
      /\ plan = [orig |-> plan.orig, cur |-> plan.cur, target |-> plan.target, left |-> plan.left,
                 from |-> plan.from, new |-> plan.new]
  BY SeqFacts DEF IInv, PlanInv, Mutating, Recording, MutateSnapshot
<1>2. PICK target \in IF plan.left > 0 /\ cur # Len(o) THEN (cur + 1)..Len(o) ELSE {plan.target} :
        /\ plan'.orig = o /\ plan'.cur = next /\ plan'.target = target
        /\ plan'.left = IF plan.left > 0 /\ cur # Len(o) THEN plan.left - 1 ELSE plan.left
        /\ plan'.from = f /\ plan'.new = w
  BY <1>1 DEF MutateSnapshot
<1>3. /\ Started(o, cur, new) /\ Budget(o, cur, plan.target, plan.left, new)
      /\ Copied(o, cur, plan.from, new, mutated) /\ Covered(o, cur, plan.from, new)
  BY <1>1 DEF MutInv
<1>4. PICK x : mutated' = Append(mutated, x) /\ x.depth = o[cur].depth /\ x.rule = o[cur].rule
  BY DEF MutateSnapshot, Current
<1>5. next \in (cur + 1)..(Len(o) + 1)
  BY <1>1, NestedRange
<1>6. new \subseteq 2..(cur - 1) /\ cur \notin new /\ cur \in 2..Len(o)
  BY <1>1, <1>3 DEF Started, Budget
<1> HIDE DEF o, cur, new, f, next
<1>7. Started(o, next, w)
  <2>1. w \subseteq 2..(next - 1)
    BY <1>1, <1>5, <1>6
  <2>2. ASSUME NEW i \in w
        PROVE  AfterNested(o, i) <= next
    <3>1. CASE i = cur
      BY <3>1, <1>1, <1>5 DEF next
    <3>2. CASE i \in new
      <4>1. i \in 1..Len(o) /\ AfterNested(o, i) <= cur
        BY <3>2, <1>1, <1>3, <1>6 DEF Started
      <4>2. AfterNested(o, i) \in (i + 1)..(Len(o) + 1)
        BY <4>1, <1>1, NestedRange
      <4> QED BY <4>1, <4>2, <1>1, <1>5
    <3> QED BY <3>1, <3>2
  <2> QED BY <2>1, <2>2, <1>1, <1>5 DEF Started
<1>8. Budget(o, next, plan'.target, plan'.left, w)
  <2>1. IsFiniteSet(w) /\ Cardinality(w) = Cardinality(new) + 1 /\ Cardinality(new) \in Nat
    BY <1>3, <1>6, FS_AddElement, FS_CardinalityType DEF Budget
  <2>2. Cardinality(new) + plan.left + 1 <= 3 /\ plan.left \in Nat /\ plan.target \in 2..Len(o)
    BY <1>1, <1>3, <2>1 DEF Budget
  <2>3. CASE plan.left > 0 /\ cur # Len(o)
    <3>1. target \in 2..Len(o) /\ plan.left - 1 \in Nat
      BY <2>2, <2>3, <1>1, <1>2
    <3>2. Cardinality(w) + (plan.left - 1) + 1 <= 3
      BY <2>1, <2>2
    <3> QED BY <2>1, <2>2, <2>3, <3>1, <3>2, <1>2 DEF Budget
  <2>4. CASE ~ (plan.left > 0 /\ cur # Len(o))
    <3>1. target = cur /\ plan'.left = plan.left /\ ~ (cur >= next)
      BY <2>4, <1>1, <1>2, <1>5
    <3>2. Cardinality(w) + plan.left + 0 <= 3
      BY <2>1, <2>2
    <3> QED BY <2>1, <2>2, <3>1, <3>2, <1>2, <1>6 DEF Budget
  <2> QED BY <2>3, <2>4
<1>9. /\ Copied(o, next, f, w, mutated')
      /\ \A p \in Nat : (\E k \in 1..Len(f) : f[k] = p)
                        <=> p = cur \/ \E k \in 1..Len(plan.from) : plan.from[k] = p
  <2>1. next \in Nat /\ next > cur
    BY <1>1, <1>5
  <2>2. /\ w = new \/ w = new \cup {cur}
        /\ cur \in w /\ x.depth = o[cur].depth /\ x.rule = o[cur].rule
    BY <1>4
  <2> HIDE DEF w
  <2>3. /\ Copied(o, next, Append(plan.from, cur), w, Append(mutated, x))
        /\ \A p \in Nat : (\E k \in 1..Len(Append(plan.from, cur)) : Append(plan.from, cur)[k] = p)
                          <=> p = cur \/ \E k \in 1..Len(plan.from) : plan.from[k] = p
    <3>1. More(o, cur, next, plan.from, new, w, mutated, x)
      BY <2>1, <2>2, <1>1, <1>3, <1>6 DEF More
    <3> QED BY <3>1, OneMore
  <2> QED BY <2>3, <1>4 DEF f
<1>10. Covered(o, next, f, w)
  <2> SUFFICES ASSUME NEW p \in 1..(next - 1)
               PROVE  (\E k \in 1..Len(f) : f[k] = p) <=> ~ \E i \in w : p \in Dropped(o, i)
    BY <1>1 DEF Covered
  <2>1. ASSUME p >= cur, NEW i \in new
        PROVE  ~ (p \in Dropped(o, i))
    <3>1. i \in 1..Len(o) /\ AfterNested(o, i) <= cur
      BY <1>1, <1>3, <1>6 DEF Started
    <3>2. AfterNested(o, i) \in (i + 1)..(Len(o) + 1)
      BY <3>1, <1>1, NestedRange
    <3> QED BY <2>1, <3>1, <3>2, <1>1, <1>5 DEF Dropped
  <2>2. p \in Dropped(o, cur) <=> p > cur
    BY <1>1, <1>5 DEF Dropped, next
  <2>3. CASE p = cur
    <3>1. ~ \E i \in w : p \in Dropped(o, i)
      BY <2>1, <2>2, <2>3, <1>1
    <3> QED BY <2>3, <3>1, <1>1, <1>9
  <2>4. CASE p > cur
    <3>1. \A k \in 1..Len(plan.from) : plan.from[k] \in 1..(cur - 1)
      BY <1>3 DEF Copied
    <3>2. ~ \E k \in 1..Len(plan.from) : plan.from[k] = p
      BY <2>4, <3>1, <1>1, <1>5
    <3>3. p \in Nat /\ p # cur
      BY <2>4, <1>1, <1>5
    <3>4. ~ \E k \in 1..Len(f) : f[k] = p
      BY <3>2, <3>3, <1>9
    <3> QED BY <2>2, <2>4, <3>4
  <2>5. CASE p < cur
    <3>1. p \in 1..(cur - 1) /\ p \in Nat /\ p # cur
      BY <2>5, <1>1, <1>5
    <3>2. (\E k \in 1..Len(plan.from) : plan.from[k] = p) <=> ~ \E i \in new : p \in Dropped(o, i)
      BY <3>1, <1>3 DEF Covered
    <3>3. (\E k \in 1..Len(f) : f[k] = p) <=> (\E k \in 1..Len(plan.from) : plan.from[k] = p)
      BY <3>1, <1>9
    <3>4. ~ (p \in Dropped(o, cur))
      BY <2>2, <2>5, <1>1, <1>5
    <3> QED BY <3>2, <3>3, <3>4
  <2> QED BY <2>3, <2>4, <2>5, <1>1, <1>5
<1> QED BY <1>2, <1>7, <1>8, <1>9, <1>10 DEF MutInv

-----------------------------------------------------------------------------
(* The theorem.                                                            *)

LEMMA PickIsLocal == ASSUME IInv, PickInput PROVE MutInv'
<1>1. /\ corpus' = corpus /\ mutated' = <<>>
  BY DEF PickInput
<1>2. PICK e \in ToSet(corpus) :
        \/ plan' = NoPlan
        \/ Len(e.snaps) > 1 /\ \E k \in 1..(Len(e.snaps) - 1) :
             plan' = [NoPlan EXCEPT !.orig = e.snaps, !.target = k + 1,
                                    !.left = IF k > 3 THEN 2 ELSE k - 1]
  <2>1. \A e \in ToSet(corpus) : Len(e.snaps) \in Nat
    <3>1. DOMAIN corpus = 1..Len(corpus)
      BY SeqFacts DEF IInv, RecordingsInv
    <3> QED BY <3>1, SeqFacts DEF ToSet, IInv, RecordingsInv, Recording
  <2>2. PICK e \in ToSet(corpus) :
          IF Len(e.snaps) <= 1 THEN plan' = NoPlan
          ELSE \E k \in 1..(Len(e.snaps) - 1) :
                 plan' = [NoPlan EXCEPT !.orig = e.snaps, !.target = k + 1,
                                        !.left = IF k > 3 THEN 2 ELSE k - 1]
    BY DEF PickInput
  <2>3. Len(e.snaps) <= 1 \/ Len(e.snaps) > 1
    BY <2>1
  <2> QED BY <2>2, <2>3
<1>3. CASE plan' = NoPlan
  BY <1>3 DEF MutInv, NoPlan
<1>4. CASE plan' # NoPlan
  <2>1. PICK k \in 1..(Len(e.snaps) - 1) :
          plan' = [NoPlan EXCEPT !.orig = e.snaps, !.target = k + 1,
                                 !.left = IF k > 3 THEN 2 ELSE k - 1]
    BY <1>2, <1>4
  <2>2. Recording(e.snaps) /\ Len(e.snaps) \in Nat
    <3>1. DOMAIN corpus = 1..Len(corpus)
      BY SeqFacts DEF IInv, RecordingsInv
    <3>2. Recording(e.snaps)
      BY <3>1 DEF ToSet, IInv, RecordingsInv
    <3> QED BY <3>2, SeqFacts DEF Recording
  <2>3. /\ plan'.orig = e.snaps /\ plan'.cur = 1 /\ plan'.target = k + 1
        /\ plan'.left = (IF k > 3 THEN 2 ELSE k - 1) /\ plan'.from = <<>> /\ plan'.new = {}
    BY <2>1 DEF NoPlan
  <2>4. Started(e.snaps, 1, {})
    BY <2>2 DEF Started
  <2>5. Budget(e.snaps, 1, k + 1, IF k > 3 THEN 2 ELSE k - 1, {})
    <3>1. k + 1 \in 2..Len(e.snaps) /\ (IF k > 3 THEN 2 ELSE k - 1) \in 0..2 /\ k + 1 >= 1
      BY <2>2
    <3> QED BY <3>1, FS_EmptySet DEF Budget
  <2>6. Copied(e.snaps, 1, <<>>, {}, <<>>)
    BY NoItems DEF Copied
  <2>7. Covered(e.snaps, 1, <<>>, {})
    BY DEF Covered
  <2> QED BY <1>1, <2>3, <2>4, <2>5, <2>6, <2>7 DEF MutInv
<1> QED BY <1>3, <1>4

LEMMA OthersDoNotMutate ==
  ASSUME [Next]_vars, ~ PickInput, ~ KeepSnapshot, ~ MutateSnapshot
  PROVE  at' # "mutate" \/ UNCHANGED <<at, plan, mutated>>
<1> USE DEF loopVars, StartBuild, Forked
<1>1. CASE FinalizeStep \/ LaunchCampaign \/ Create \/ UNCHANGED vars
  BY <1>1 DEF FinalizeStep, LaunchCampaign, Create, vars
<1>2. CASE BuildMutated \/ Build \/ RunQuietly \/ RunWithNews
  BY <1>2 DEF BuildMutated, Build, RunQuietly, RunWithNews
<1>3. CASE RunAndCrash \/ Relaunch
  BY <1>3 DEF RunAndCrash, Relaunch
<1>4. CASE StartDump \/ DumpEntry
  BY <1>4 DEF StartDump, DumpEntry
<1> QED BY <1>1, <1>2, <1>3, <1>4 DEF Next

LEMMA MutStep == IInv /\ MutInv /\ [Next]_vars => MutInv'
<1> SUFFICES ASSUME IInv, MutInv, [Next]_vars PROVE MutInv'
  OBVIOUS
<1>1. CASE at' # "mutate" \/ UNCHANGED <<at, plan, mutated>>
  BY <1>1 DEF MutInv
<1> QED BY <1>1, PickIsLocal, KeepIsLocal, MutateIsLocal, OthersDoNotMutate

LEMMA MutImplies == IInv /\ MutInv => MutationIsLocal
<1> SUFFICES ASSUME IInv, MutInv, at = "mutate", plan.orig # <<>>, plan.cur > Len(plan.orig)
             PROVE  /\ plan.new # {} /\ 1 \notin plan.new /\ Cardinality(plan.new) <= 3
                    /\ ToSet(plan.from) =
                         DOMAIN plan.orig \ UNION {Nested(plan.orig, i) : i \in plan.new}
                    /\ \A k \in DOMAIN mutated :
                         LET was == plan.orig[plan.from[k]] IN
                         /\ k > 1 => plan.from[k - 1] < plan.from[k]
                         /\ IF plan.from[k] \in plan.new
                            THEN mutated[k].depth = was.depth /\ mutated[k].rule = was.rule
                            ELSE mutated[k] = was
  BY DEF MutationIsLocal
<1> DEFINE o == plan.orig
           cur == plan.cur
           new == plan.new
           from == plan.from
<1>1. /\ Recording(o) /\ Len(o) \in Nat /\ DOMAIN o = 1..Len(o) /\ cur > Len(o)
  BY SeqFacts DEF IInv, PlanInv, Recording
<1>2. /\ Started(o, cur, new) /\ Budget(o, cur, plan.target, plan.left, new)
      /\ Copied(o, cur, from, new, mutated) /\ Covered(o, cur, from, new)
  BY DEF MutInv
<1> HIDE DEF o, cur, new, from
<1>3. cur = Len(o) + 1
  BY <1>1, <1>2 DEF Started
<1>4. new # {} /\ 1 \notin new /\ Cardinality(new) <= 3
  <2>1. Cardinality(new) \in Nat
    BY <1>2, FS_CardinalityType DEF Budget
  <2> QED BY <2>1, <1>1, <1>2, <1>3 DEF Budget, Started
<1>5. ToSet(from) = DOMAIN o \ UNION {Nested(o, i) : i \in new}
  <2>1. \A i \in new : i \in 1..Len(o) /\ Nested(o, i) = Dropped(o, i)
    <3>1. \A i \in new : i \in 1..Len(o)
      BY <1>1, <1>2, <1>3 DEF Started
    <3> QED BY <3>1, <1>1, NestedRange
  <2>2. /\ DOMAIN from = 1..Len(from)
        /\ \A k \in 1..Len(from) : from[k] \in 1..Len(o)
    BY <1>1, <1>2, <1>3, SeqFacts DEF Copied
  <2>3. \A p \in 1..Len(o) :
          (\E k \in 1..Len(from) : from[k] = p) <=> ~ \E i \in new : p \in Nested(o, i)
    BY <2>1, <1>1, <1>2, <1>3 DEF Covered
  <2>4. ToSet(from) = {from[k] : k \in 1..Len(from)}
    BY <2>2 DEF ToSet
  <2>5. ASSUME NEW p \in ToSet(from)
        PROVE  p \in 1..Len(o) /\ ~ \E i \in new : p \in Nested(o, i)
    BY <2>2, <2>3, <2>4
  <2>6. ASSUME NEW p \in 1..Len(o), ~ \E i \in new : p \in Nested(o, i)
        PROVE  p \in ToSet(from)
    BY <2>3, <2>4, <2>6
  <2> QED BY <2>5, <2>6, <1>1
<1>6. ASSUME NEW k \in DOMAIN mutated
      PROVE  /\ k > 1 => from[k - 1] < from[k]
             /\ IF from[k] \in new THEN mutated[k].depth = o[from[k]].depth /\ mutated[k].rule = o[from[k]].rule
                ELSE mutated[k] = o[from[k]]
  <2>1. k \in 1..Len(from) /\ Len(from) \in Nat
    BY <1>2, SeqFacts DEF Copied
  <2> QED BY <2>1, <1>2 DEF Copied
<1> QED BY <1>4, <1>5, <1>6 DEF o, new, from

\* A mutation of a recording of any length changes at most three rules, never the
\* top one, drops exactly what was nested in those and keeps the rest as and
\* where it was (mutate.cpp).
THEOREM MutationsAreLocal == Spec => []MutationIsLocal
<1>1. Init => MutInv
  BY DEF Init, MutInv
<1>2. Spec => []MutInv
  BY <1>1, RecordingsInOrder, MutStep, PTL DEF Spec
<1> QED BY <1>2, RecordingsInOrder, MutImplies, PTL
=============================================================================
