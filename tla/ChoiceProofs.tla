----------------------------- MODULE ChoiceProofs ----------------------------
(***************************************************************************)
(* Whatever a build chooses from is there, for every grammar: the items    *)
(* that Finalize has been through, the rules of every scope while builds   *)
(* add values, push and pop, and the items that calls in progress hold.    *)
(***************************************************************************)
EXTENDS ContextProofs

-----------------------------------------------------------------------------
(* What a build chooses from.                                              *)

Complete == IndexesAreSet /\ OrsHaveItems

\* A rule that collects values, as Finalize leaves them.
Collects(i) == i \in 1..Len(origRoot) /\ origRoot[i].live /\ origRoot[i].keep

\* The items that Finalize has been through to the end.
Sound ==
  {n \in Used : \A m \in Below[n] : /\ Item[m].kind = "or" => inline[m].choice # <<>>
                                    /\ Takes(origRoot, m)}

Fine(rs) ==
  /\ Len(rs) = Len(names)
  /\ \A i \in 1..Len(rs) :
       /\ RuleRanged(rs[i])
       /\ rs[i].live => /\ rs[i].keep \/ (rs[i].choice # <<>> /\ ~Collects(i))
                        /\ \A j \in 1..Len(rs[i].items) : rs[i].items[j].node \in Sound \cup {NoNode}
Collecting(rs) == \A i \in 1..Len(rs) : Collects(i) => rs[i].live

\* A frame that will build an item or add to the rule of one.
Held(f) == f.op \in {"item", "and", "end_store"} => f.node \in Sound \cup {NoNode}

RulesFine ==
  /\ InlineOK
  /\ Fine(mainRoot) /\ Fine(origRoot) /\ Collecting(mainRoot)
  /\ Collecting(Root) /\ \A s \in 1..Len(scopes) : Fine(scopes[s])
HeldSeq(q) == \A k \in 1..Len(q) : q[k] \in Sound \cup {NoNode}

CallsHeld ==
  /\ \A j \in 1..Len(work) : Held(work[j])
  /\ HeldSeq(ctx.posts)
  /\ work # <<>> /\ Top.op = "rule" => ValidRule(Top.scope, Top.rule)
ChoiceInv == RulesFine /\ CallsHeld

ChoosingInv ==
  /\ at = "finalize" => FinInv
  /\ at # "finalize" /\ Complete => ChoiceInv

-----------------------------------------------------------------------------
(* The rules are finalized.                                                *)

LEMMA UsedIsKnown ==
  ASSUME grammar \in Grammars, NamesOK, Complete, NEW n \in Used
  PROVE  Known(n) /\ n \in Nodes /\ Below[n] \subseteq Used
<1>1. Used \in SUBSET Nodes /\ Closed(Used)
  BY UsedIsClosed
<1>2. Below[n] \subseteq Used
  BY <1>1, BelowIsLeast
<1>3. ASSUME NEW m \in Below[n]
      PROVE  /\ Item[m].kind \in RefKinds => Item[m].name \in ToSet(names)
             /\ Item[m].kind = "or" => Item[m].kids # <<>>
  <2>1. m \in Used /\ m \in Nodes
    BY <1>1, <1>2
  <2>2. ASSUME Item[m].kind \in RefKinds
        PROVE  Item[m].name \in ToSet(names)
    <3>1. m \in NameNodes
      BY <2>1, <2>2 DEF NameNodes
    <3> QED BY <2>1, <3>1 DEF Complete, IndexesAreSet, NamesOK
  <2>3. Item[m].kind = "or" => Item[m].kids # <<>>
    BY <2>1 DEF Complete, OrsHaveItems
  <2> QED BY <2>2, <2>3
<1> QED BY <1>1, <1>2, <1>3 DEF Known

LEMMA DoneIsFine ==
  ASSUME GrammarInv, FinInv, fin.pass = "done", Complete, UNCHANGED <<grammar, names, inline, index>>,
         origRoot' = Root
  PROVE  \A rs : rs = Root => Fine(rs)' /\ Collecting(rs)'
<1> SUFFICES ASSUME NEW rs, rs = Root PROVE Fine(rs)' /\ Collecting(rs)'
  OBVIOUS
<1>1. Len(rs) = Len(names)
  BY DEF FinInv, RootOK
<1>2. \A i \in 1..Len(Root) : Turned(i)
  BY DEF FinInv, FinOK, TurnOK
<1>3. Used' = Used
  BY DEF Used
<1>4. ASSUME NEW n \in Used, Ready(n)
      PROVE  n \in Sound'
  <2>1. Known(n) /\ n \in Nodes
    BY <1>4, UsedIsKnown DEF FinInv, GrammarInv
  <2>2. \A m \in Below[n] : Settled(m)
    BY <1>4, <2>1 DEF Ready
  <2>3. \A m \in Below[n] : Takes(origRoot, m)'
    BY <2>2 DEF Settled, Takes
  <2>4. \A m \in Below[n] : Item[m].kind = "or" => inline'[m].choice # <<>>
    BY <2>2 DEF Settled
  <2> QED BY <1>3, <1>4, <2>3, <2>4 DEF Sound
<1>5. ASSUME NEW i \in 1..Len(rs)
      PROVE  /\ RuleRanged(rs[i])
             /\ rs[i].live => /\ rs[i].keep \/ (rs[i].choice # <<>> /\ ~Collects(i)')
                              /\ \A j \in 1..Len(rs[i].items) : rs[i].items[j].node \in Sound'
             /\ Collects(i)' => rs[i].live
  <2>1. Turned(i) /\ RuleRanged(Root[i]) /\ \A j \in 1..Len(Root[i].items) : Root[i].items[j].node \in Used
    BY <1>2, <1>5 DEF FinInv, RootOK
  <2>2. Collects(i)' => rs[i].live /\ rs[i].keep
    BY DEF Collects
  <2> QED BY <1>4, <2>1, <2>2 DEF Turned
<1>6. Collecting(rs)'
  BY <1>5 DEF Collecting
<1>7. Fine(rs)'
  BY <1>1, <1>5 DEF Fine, RuleRanged
<1> QED BY <1>6, <1>7

\* The context between two builds, and the steps there.
LEMMA FineStays ==
  ASSUME UNCHANGED <<grammar, names, index, inline, origRoot>>
  PROVE  /\ Sound' = Sound /\ (Complete' <=> Complete) /\ (InlineOK => InlineOK')
         /\ \A rs : Fine(rs) => Fine(rs)'
         /\ \A rs : Collecting(rs) => Collecting(rs)'
         /\ \A f : Held(f) => Held(f)'
<1>1. Used' = Used
  BY DEF Used
<1>2. Sound' = Sound
  BY <1>1 DEF Sound, Takes
<1>3. Complete' <=> Complete
  BY <1>1 DEF Complete, IndexesAreSet, OrsHaveItems
<1>4. InlineOK => InlineOK'
  BY DEF InlineOK
<1>5. \A i : Collects(i)' <=> Collects(i)
  BY DEF Collects
<1>6. \A rs : Fine(rs) => Fine(rs)'
  BY <1>2, <1>5 DEF Fine, RuleRanged
<1>7. \A rs : Collecting(rs) => Collecting(rs)'
  BY <1>5 DEF Collecting
<1>8. \A f : Held(f) => Held(f)'
  BY <1>2 DEF Held
<1> QED BY <1>2, <1>3, <1>4, <1>6, <1>7, <1>8

\* No build is in progress, or one begins.
Unbuilt == (work = <<>> \/ work = <<[op |-> "top"]>>) /\ ctx.posts = <<>>

LEMMA UnbuiltHolds == Unbuilt => CallsHeld
<1> SUFFICES ASSUME Unbuilt PROVE CallsHeld
  OBVIOUS
<1>1. HeldSeq(ctx.posts)
  BY NoItems DEF Unbuilt, HeldSeq
<1>2. CASE work = <<>>
  BY <1>1, <1>2, NoItems DEF CallsHeld
<1>3. CASE work = <<[op |-> "top"]>>
  <2>1. Len(work) = 1 /\ work[1] = [op |-> "top"] /\ Top = [op |-> "top"]
    BY <1>3 DEF Top
  <2>2. \A j \in 1..Len(work) : work[j].op = "top"
    BY <2>1
  <2> QED BY <1>1, <2>1, <2>2 DEF Held, CallsHeld
<1> QED BY <1>2, <1>3 DEF Unbuilt

LEMMA LaunchChooses ==
  ASSUME GrammarInv, FinInv, LaunchCampaign, Complete, Unbuilt'
  PROVE  ChoiceInv'
<1>1. /\ fin.pass = "done" /\ UNCHANGED <<grammar, names, inline, index>>
      /\ origRoot' = Root /\ mainRoot' = Root /\ scopes' = <<Root>>
  BY DEF LaunchCampaign, Forked
<1>2. PICK rs : rs = Root
  OBVIOUS
<1>3. Fine(rs)' /\ Collecting(rs)'
  BY <1>1, <1>2, DoneIsFine
<1>4. rs = origRoot' /\ rs = mainRoot' /\ rs = Root' /\ Len(scopes') = 1 /\ rs = scopes'[1]
  BY <1>1, <1>2 DEF Root
<1>5. Fine(mainRoot)' /\ Fine(origRoot)' /\ Collecting(mainRoot)' /\ Collecting(Root)'
  BY <1>3, <1>4 DEF Fine, Collecting
<1>6. ASSUME NEW s \in 1..Len(scopes')
      PROVE  Fine(scopes[s])'
  <2>1. s = 1
    BY <1>4
  <2> QED BY <1>3, <1>4, <2>1 DEF Fine
<1>7. InlineOK'
  BY <1>1 DEF FinInv, InlineOK
<1>8. CallsHeld'
  BY UnbuiltHolds, PTL
<1> QED BY <1>5, <1>6, <1>7, <1>8 DEF ChoiceInv, RulesFine

\* Steps between builds use the rules of the main process or those from Finalize.
LEMMA OffChooses ==
  ASSUME ChoiceInv, UNCHANGED <<grammar, names, index, inline, origRoot>>, Len(scopes) \in Nat \ {0},
         \/ scopes' = scopes \/ scopes' = <<mainRoot>>
         \/ scopes' = <<Root>> \/ scopes' = <<origRoot>>,
         mainRoot' = mainRoot \/ mainRoot' = Root,
         Unbuilt'
  PROVE  ChoiceInv'
<1>1. PICK root, main, orig : root = Root /\ main = mainRoot /\ orig = origRoot
  OBVIOUS
<1>2. Fine(root) /\ Fine(main) /\ Fine(orig) /\ Collecting(root) /\ Collecting(main) /\ Collecting(orig)
  BY <1>1 DEF ChoiceInv, RulesFine, Root, Collecting, Collects
<1>3. Fine(root)' /\ Fine(main)' /\ Fine(orig)' /\ Collecting(root)' /\ Collecting(main)' /\ Collecting(orig)'
  BY <1>2, FineStays
<1>4. InlineOK'
  BY FineStays DEF ChoiceInv, RulesFine
<1>5. CallsHeld'
  BY UnbuiltHolds, PTL
<1>6. Fine(mainRoot)' /\ Collecting(mainRoot)'
  <2>1. mainRoot' = main \/ mainRoot' = root
    BY <1>1
  <2> QED BY <1>3, <2>1 DEF Fine, Collecting
<1>7. Fine(origRoot)'
  <2>1. origRoot' = orig
    BY <1>1
  <2> QED BY <1>3, <2>1 DEF Fine
<1>8. Collecting(Root)'
  <2>1. Root' = root \/ Root' = main \/ Root' = orig
    BY <1>1 DEF Root
  <2> QED BY <1>3, <2>1 DEF Collecting
<1>9. ASSUME NEW s \in 1..Len(scopes')
      PROVE  Fine(scopes[s])'
  <2>1. PICK rs : rs = scopes'[s]
    OBVIOUS
  <2>2. Fine(rs)'
    <3>1. CASE scopes' = scopes
      <4>1. s \in 1..Len(scopes) /\ rs = scopes[s]
        BY <2>1, <3>1
      <4>2. Fine(rs)
        BY <4>1 DEF ChoiceInv, RulesFine
      <4> QED BY <4>2, FineStays
    <3>2. CASE scopes' # scopes
      <4>1. rs = root \/ rs = main \/ rs = orig
        BY <1>1, <2>1, <3>2
      <4> QED BY <1>3, <4>1
    <3> QED BY <3>1, <3>2
  <2> QED BY <2>1, <2>2 DEF Fine
<1> QED BY <1>4, <1>5, <1>6, <1>7, <1>8, <1>9 DEF ChoiceInv, RulesFine

-----------------------------------------------------------------------------
(* A step of a build calls what Finalize has been through.                 *)

Ongoing == IInv /\ BuildInv /\ ChoiceInv /\ Complete

CallsOn(f) ==
  /\ AnySeq(f) /\ work' = f \o Tail(work)
  /\ \A i \in 1..Len(f) : /\ Held(f[i])
                          /\ f[i].op = "rule" => scopes' = scopes /\ ValidRule(f[i].scope, f[i].rule)
Onward == work # <<>> /\ HeldSeq(ctx'.posts) /\ \E f : CallsOn(f)

LEMMA CallsStayHeld ==
  ASSUME IInv, BuildInv, CallsHeld, Onward, UNCHANGED <<grammar, names, index, inline, origRoot>>
  PROVE  CallsHeld'
<1>1. PICK f : CallsOn(f)
  BY DEF Onward
<1>2. AnySeq(work) /\ work # <<>> /\ AnySeq(f) /\ work' = f \o Tail(work)
  BY <1>1 DEF IInv, StackInv, Onward, CallsOn
<1>3. /\ AnySeq(work') /\ Len(f) \in Nat /\ Len(work) \in Nat \ {0}
      /\ \A i \in 1..Len(work') :
           \/ i \in 1..Len(f) /\ work'[i] = f[i]
           \/ i - Len(f) + 1 \in 2..Len(work) /\ work'[i] = work[i - Len(f) + 1]
  BY <1>2, Replaced
<1>4. ASSUME NEW j \in 1..Len(work')
      PROVE  Held(work[j])'
  <2>1. PICK x : x = work'[j]
    OBVIOUS
  <2>2. Held(x)
    <3>1. CASE j \in 1..Len(f) /\ work'[j] = f[j]
      BY <1>1, <2>1, <3>1 DEF CallsOn
    <3>2. CASE j - Len(f) + 1 \in 2..Len(work) /\ work'[j] = work[j - Len(f) + 1]
      <4>1. j - Len(f) + 1 \in 1..Len(work)
        BY <1>3, <3>2
      <4> QED BY <2>1, <3>2, <4>1 DEF CallsHeld
    <3> QED BY <1>3, <3>1, <3>2
  <2>3. Held(x)'
    BY <2>2, FineStays
  <2> QED BY <2>1, <2>3 DEF Held
<1>5. HeldSeq(ctx.posts)'
  <2>1. Sound' = Sound
    BY FineStays
  <2> QED BY <2>1 DEF Onward, HeldSeq
<1>6. ASSUME work' # <<>>, Top'.op = "rule"
      PROVE  ValidRule(Top.scope, Top.rule)'
  <2>1. Len(work') \in Nat \ {0} /\ Top' = work'[1]
    <3>1. Top' = Head(work')
      BY DEF Top
    <3> QED BY <1>3, <1>6, <3>1, SeqFacts DEF AnySeq
  <2>2. CASE 1 \in 1..Len(f) /\ work'[1] = f[1]
    <3>1. scopes' = scopes /\ ValidRule(f[1].scope, f[1].rule)
      BY <1>1, <1>6, <2>1, <2>2 DEF CallsOn
    <3>2. PICK x : x = Top' /\ x = f[1]
      BY <2>1, <2>2
    <3>3. ValidRule(x.scope, x.rule)
      BY <3>1, <3>2
    <3> QED BY <3>1, <3>2, <3>3 DEF ValidRule
  <2>3. CASE 1 - Len(f) + 1 \in 2..Len(work) /\ work'[1] = work[1 - Len(f) + 1]
    <3>1. Len(f) = 0 /\ work'[1] = work[2] /\ 2 <= Len(work)
      BY <1>3, <2>3
    <3>2. work[2] = Level(work, Len(work) - 1) /\ Len(work) - 1 \in 1..Len(work) /\ Len(work) - 1 # Len(work)
      BY <1>3, <3>1 DEF Level
    <3> QED BY <1>6, <2>1, <3>1, <3>2 DEF BuildInv, StackOK, RulesOK
  <2>4. 1 \in 1..Len(work')
    BY <2>1
  <2> QED BY <1>3, <2>2, <2>3, <2>4
<1> QED BY <1>4, <1>5, <1>6 DEF CallsHeld

LEMMA OnReturn == ASSUME work # <<>>, Return, HeldSeq(ctx'.posts) PROVE Onward
<1>1. AnySeq(<<>>) /\ Len(<<>>) = 0
  BY NoItems
<1>2. CallsOn(<<>>)
  BY <1>1 DEF CallsOn, Return, Goto
<1> QED BY <1>2 DEF Onward

LEMMA OnCall ==
  ASSUME work # <<>>, HeldSeq(ctx'.posts), NEW x, Goto(<<x>>), Held(x), x.op # "rule"
  PROVE  Onward
<1>1. AnySeq(<<x>>) /\ Len(<<x>>) = 1 /\ <<x>>[1] = x
  BY ShortSeq
<1>2. CallsOn(<<x>>)
  BY <1>1 DEF CallsOn, Goto
<1> QED BY <1>2 DEF Onward

LEMMA OnPair ==
  ASSUME work # <<>>, HeldSeq(ctx'.posts), NEW x, NEW y, Goto(<<x, y>>), Held(x), Held(y), y.op # "rule",
         x.op = "rule" => scopes' = scopes /\ ValidRule(x.scope, x.rule)
  PROVE  Onward
<1>1. AnySeq(<<x, y>>) /\ Len(<<x, y>>) = 2 /\ <<x, y>>[1] = x /\ <<x, y>>[2] = y
  BY Pairs
<1>2. \A k \in 1..2 : <<x, y>>[k] = x \/ <<x, y>>[k] = y
  OBVIOUS
<1>3. CallsOn(<<x, y>>)
  BY <1>1, <1>2 DEF CallsOn, Goto
<1> QED BY <1>3 DEF Onward

LEMMA KidIsSound ==
  ASSUME grammar \in Grammars, NEW n \in Sound, NEW k \in KidsOf(n)
  PROVE  k \in Sound
<1>1. n \in Used /\ n \in Nodes /\ k \in Used /\ k \in Nodes
  BY UsedIsClosed DEF Sound, Closed
<1>2. k \in Below[n]
  BY <1>1, BelowIsClosed DEF Closed
<1>3. Below[k] \subseteq Below[n]
  BY <1>1, <1>2, BelowNests
<1> QED BY <1>1, <1>3 DEF Sound

\* The item on top and the items in it.
LEMMA ItemIsSound ==
  ASSUME Ongoing, NEW kinds, At(kinds)
  PROVE  /\ work # <<>> /\ Top.op = "item" /\ Item[Top.node].kind \in kinds
         /\ Top.node \in Sound /\ Top.node \in Used /\ Top.node \in Nodes
         /\ Kids \in Seq(Used) /\ \A i \in 1..Len(Kids) : Kids[i] \in Sound
         /\ Item[Top.node].kind \in Wrappers => Kid \in Sound
         /\ HeldSeq(ctx.posts)
<1>1. /\ work # <<>> /\ Top.op = "item" /\ Item[Top.node].kind \in kinds
      /\ Top.node \in Used /\ Top.node \in Nodes /\ Top.node # NoNode
      /\ Kids \in Seq(Used) /\ Kids = Item[Top.node].kids
  BY AtItem DEF Ongoing, At
<1>2. Top.node \in Sound
  <2>1. Top = work[1] /\ 1 \in 1..Len(work)
    BY <1>1, Places DEF Ongoing
  <2> QED BY <1>1, <2>1 DEF Ongoing, ChoiceInv, CallsHeld, Held
<1>3. ASSUME NEW i \in 1..Len(Kids)
      PROVE  Kids[i] \in Sound
  <2>1. Kids[i] \in KidsOf(Top.node)
    BY <1>1, <1>3 DEF KidsOf, ToSet
  <2> QED BY <1>2, <2>1, KidIsSound DEF Ongoing, BuildInv, GrammarInv
<1>4. Item[Top.node].kind \in Wrappers => Kid \in Sound
  <2>1. Item[Top.node].kind \in Wrappers => Len(Kids) = 1
    BY <1>1, GrammarAssumption
  <2> QED BY <1>3, <2>1 DEF Kid
<1> QED BY <1>1, <1>2, <1>3, <1>4 DEF Ongoing, ChoiceInv, CallsHeld

LEMMA ItemIsHeld ==
  /\ \A n \in Sound \cup {NoNode} : Held(ItemFrame(n)) /\ ItemFrame(n).op # "rule"
  /\ \A f : f.op \notin {"item", "and", "end_store"} => Held(f)
BY DEF Held, ItemFrame

LEMMA PostsSame == ASSUME Ongoing, ctx'.posts = ctx.posts PROVE HeldSeq(ctx'.posts)
BY DEF Ongoing, ChoiceInv, CallsHeld, HeldSeq

\* Items that end and calls that return.
LEMMA EndsGoOn ==
  ASSUME Ongoing, fault' = fault,
         BuildRaw \/ BuildDraw \/ BuildCaptured \/ BuildId \/ EndStore \/ EndScope \/ BuildScopeAction
  PROVE  Onward
<1> USE DEF At, AtOp, Fail
<1>1. work # <<>> /\ fault = "none"
  BY DEF BuildRaw, BuildDraw, BuildCaptured, BuildId, EndStore, EndScope, BuildScopeAction
<1>2. Return /\ ctx' = ctx
  <2>1. CASE BuildRaw \/ BuildDraw \/ BuildCaptured
    BY <1>1, <2>1 DEF BuildRaw, BuildDraw, BuildCaptured
  <2>2. CASE BuildId \/ EndStore
    BY <1>1, <2>2 DEF BuildId, EndStore
  <2>3. CASE EndScope \/ BuildScopeAction
    BY <1>1, <2>3 DEF EndScope, BuildScopeAction
  <2> QED BY <2>1, <2>2, <2>3
<1> QED BY <1>1, <1>2, PostsSame, OnReturn

LEMMA RestoresGoOn ==
  ASSUME Ongoing, EndCapture \/ EndPre \/ EndFlushed \/ EndTop \/ FlushedPrePost \/ LeaveRule
  PROVE  Onward
<1>1. CASE EndCapture
  <2>1. work # <<>> /\ Return
    BY <1>1 DEF EndCapture, AtOp
  <2>2. ctx'.posts = ctx.posts
    <3>1. PICK c : ctx' = [ctx EXCEPT !.captures = c]
      BY <1>1 DEF EndCapture
    <3> QED BY <3>1 DEF Ongoing, IInv, Context
  <2> QED BY <2>1, <2>2, PostsSame, OnReturn
<1>2. CASE EndPre
  <2>1. work # <<>> /\ Return /\ ctx' = [ctx EXCEPT !.pre = ctx.out, !.out = Top.out]
    BY <1>2 DEF EndPre, AtOp
  <2>2. ctx'.posts = ctx.posts
    BY <2>1 DEF Ongoing, IInv, Context
  <2> QED BY <2>1, <2>2, PostsSame, OnReturn
<1>3. CASE EndFlushed
  <2> DEFINE x == [op |-> "posts", next |-> Top.posts + 1, keep |-> Top.posts]
  <2>1. work # <<>> /\ Goto(<<x>>) /\ ctx' = [ctx EXCEPT !.pre = Top.pre, !.out = Top.out]
    BY <1>3 DEF EndFlushed, AtOp
  <2>2. ctx'.posts = ctx.posts
    BY <2>1 DEF Ongoing, IInv, Context
  <2>3. Held(x) /\ x.op # "rule"
    BY DEF Held
  <2> HIDE DEF x
  <2> QED BY <2>1, <2>2, <2>3, PostsSame, OnCall
<1>4. CASE EndTop
  <2>1. work # <<>> /\ Return /\ ctx' = [ctx EXCEPT !.pre = Null]
    BY <1>4 DEF EndTop, AtOp
  <2>2. ctx'.posts = ctx.posts
    BY <2>1 DEF Ongoing, IInv, Context
  <2> QED BY <2>1, <2>2, PostsSame, OnReturn
<1>5. CASE FlushedPrePost
  <2>1. work # <<>> /\ Return /\ ctx' = [ctx EXCEPT !.posts = <<>>, !.pre = Null]
    BY <1>5 DEF FlushedPrePost, AtOp
  <2>2. ctx'.posts = <<>>
    BY <2>1 DEF Ongoing, IInv, Context
  <2>3. HeldSeq(ctx'.posts)
    BY <2>2, NoItems DEF HeldSeq
  <2> QED BY <2>1, <2>3, OnReturn
<1>6. CASE LeaveRule
  <2> DEFINE limit == IF Top.undo THEN Top.limit ELSE ctx.limit
             pre == IF Top.own /\ ctx.pre = Len(bufs) THEN Dangling ELSE ctx.pre
             x == [op |-> "flush"]
             y == [op |-> "end"]
  <2>1. work # <<>>
    BY <1>6 DEF LeaveRule, AtOp
  <2>2. \/ Goto(<<x, y>>) /\ ctx' = [ctx EXCEPT !.limit = limit]
        \/ Return /\ ctx' = [ctx EXCEPT !.limit = limit, !.depth = @ - 1, !.pre = pre]
    BY <1>6 DEF LeaveRule
  <2>3. Held(x) /\ Held(y) /\ x.op # "rule" /\ y.op # "rule"
    BY DEF Held
  <2> HIDE DEF x, y, limit, pre
  <2>4. ctx'.posts = ctx.posts
    BY <2>2 DEF Ongoing, IInv, Context
  <2> QED BY <2>1, <2>2, <2>3, <2>4, PostsSame, OnReturn, OnPair
<1> QED BY <1>1, <1>2, <1>3, <1>4, <1>5, <1>6

LEMMA AndGoesOn == ASSUME Ongoing, BuildAnd \/ NextItem PROVE Onward
<1>1. PICK n \in Sound, i \in Nat \ {0} : work # <<>> /\ Goto(AndFrom(n, i)) /\ ctx' = ctx
  <2>1. CASE BuildAnd
    BY <2>1, ItemIsSound DEF BuildAnd
  <2>2. CASE NextItem
    <3>1. work # <<>> /\ Top.op = "and"
      BY <2>2 DEF NextItem, AtOp
    <3>2. Top.node \in Used /\ Top.next \in Nat \ {0} /\ Top = work[1] /\ 1 \in 1..Len(work)
      BY <3>1, Places DEF FrameOK, Ongoing
    <3>3. Top.node # NoNode
      BY <3>2, UsedIsClosed DEF Ongoing, BuildInv, GrammarInv
    <3>4. Top.node \in Sound
      BY <3>1, <3>2, <3>3 DEF Ongoing, ChoiceInv, CallsHeld, Held
    <3> QED BY <2>2, <3>1, <3>2, <3>4 DEF NextItem
  <2> QED BY <2>1, <2>2
<1>2. n \in Used /\ grammar \in Grammars
  BY DEF Sound, Ongoing, BuildInv, GrammarInv
<1>3. Item[n].kids \in Seq(Used)
  BY <1>2, KidIsUsed
<1> DEFINE kids == Item[n].kids
<1>4. \A k \in 1..Len(kids) : kids[k] \in Sound
  <2>1. \A k \in 1..Len(kids) : kids[k] \in KidsOf(n)
    BY <1>3 DEF KidsOf, ToSet
  <2> QED BY <1>2, <2>1, KidIsSound
<1>5. HeldSeq(ctx'.posts)
  BY <1>1, PostsSame
<1>6. CASE i > Len(kids)
  <2>1. Return
    BY <1>1, <1>6 DEF AndFrom, Return
  <2> QED BY <1>1, <1>5, <2>1, OnReturn
<1>7. CASE i = Len(kids)
  <2>1. Goto(<<ItemFrame(kids[i])>>)
    BY <1>1, <1>7 DEF AndFrom
  <2>2. kids[i] \in Sound
    BY <1>4, <1>7
  <2> QED BY <1>1, <1>5, <2>1, <2>2, ItemIsHeld, OnCall
<1>8. CASE i < Len(kids)
  <2> DEFINE y == [op |-> "and", node |-> n, next |-> i + 1]
  <2>1. Goto(<<ItemFrame(kids[i]), y>>)
    BY <1>1, <1>3, <1>8 DEF AndFrom
  <2>2. kids[i] \in Sound
    BY <1>4, <1>8
  <2>3. Held(y) /\ y.op # "rule"
    BY DEF Held
  <2> HIDE DEF y, kids
  <2> QED BY <1>1, <1>5, <2>1, <2>2, <2>3, ItemIsHeld, OnPair
<1>9. Len(kids) \in Nat
  BY <1>3
<1> QED BY <1>6, <1>7, <1>8, <1>9

LEMMA OptGoesOn == ASSUME Ongoing, BuildOpt PROVE Onward
<1>1. work # <<>> /\ ctx' = ctx /\ Kid \in Sound
  <2>1. At({"opt"}) /\ ctx' = ctx
    BY DEF BuildOpt
  <2>2. Item[Top.node].kind \in Wrappers
    BY <2>1 DEF At, Wrappers
  <2> QED BY <2>1, <2>2, ItemIsSound
<1>2. Return \/ Goto(<<ItemFrame(Kid)>>)
  BY DEF BuildOpt
<1> QED BY <1>1, <1>2, PostsSame, ItemIsHeld, OnReturn, OnCall

LEMMA AroundGoesOn ==
  ASSUME Ongoing, fault' = fault, BuildCapture \/ BuildStore \/ BuildScope \/ BuildPre \/ BuildFlushed
  PROVE  Onward
<1>1. PICK y :
        /\ At(Wrappers)
        /\ \/ y.op \in {"end_capture", "end_scope", "end_pre", "end_flushed"}
           \/ y.op = "end_store" /\ y.node = Top.node
        /\ Goto(<<ItemFrame(Kid), y>>)
        /\ \/ ctx' = ctx \/ ctx' = [ctx EXCEPT !.out = ctx.pre, !.pre = Len(bufs) + 1]
           \/ ctx' = [ctx EXCEPT !.pre = Len(bufs) + 1, !.out = Len(bufs) + 2]
  <2> USE DEF At, Wrappers
  <2>1. CASE BuildCapture
    BY <2>1 DEF BuildCapture
  <2>2. CASE BuildStore
    BY <2>2 DEF BuildStore
  <2>3. CASE BuildScope
    BY <2>3 DEF BuildScope
  <2>4. CASE BuildPre
    BY <2>4 DEF BuildPre, Fail
  <2>5. CASE BuildFlushed
    BY <2>5 DEF BuildFlushed
  <2> QED BY <2>1, <2>2, <2>3, <2>4, <2>5
<1>2. work # <<>> /\ Kid \in Sound /\ Top.node \in Sound
  BY <1>1, ItemIsSound
<1>3. ctx'.posts = ctx.posts
  BY <1>1 DEF Ongoing, IInv, Context
<1>4. Held(y) /\ y.op # "rule"
  BY <1>1, <1>2 DEF Held
<1> QED BY <1>1, <1>2, <1>3, <1>4, PostsSame, ItemIsHeld, OnPair

LEMMA ChoiceGoesOn ==
  ASSUME Ongoing, work # <<>>, NEW or, BuildChoice(or), fault = "none", fault' = fault,
         \A i \in DOMAIN or.items : or.items[i].node \in Sound \cup {NoNode}
  PROVE  Onward
<1>1. ctx' = ctx /\ \E i \in DOMAIN or.items : BuildEntry(or.items[i])
  <2>1. CASE ChoiceList(or) = <<>> \/ \E i \in DOMAIN ChoiceList(or) : ChoiceList(or)[i] \notin DOMAIN or.items
    BY <2>1 DEF BuildChoice, Fail
  <2>2. CASE ~(ChoiceList(or) = <<>> \/ \E i \in DOMAIN ChoiceList(or) : ChoiceList(or)[i] \notin DOMAIN or.items)
    BY <2>2 DEF BuildChoice
  <2> QED BY <2>1, <2>2
<1>2. PICK i \in DOMAIN or.items : Return \/ Goto(<<ItemFrame(or.items[i].node)>>)
  BY <1>1 DEF BuildEntry
<1> QED BY <1>1, <1>2, PostsSame, ItemIsHeld, OnReturn, OnCall

\* An inline Or: there is something to choose from.
LEMMA OrGoesOn == ASSUME Ongoing, BuildOr PROVE fault' = fault /\ Onward
<1> DEFINE items == [i \in DOMAIN Kids |-> StaticEntry(Kids[i])]
           n == Top.node
           or == [keep |-> FALSE, items |-> items, choice |-> inline[n].choice,
                  shortest |-> inline[n].shortest]
<1>1. At({"or"}) /\ BuildChoice(or) /\ fault = "none" /\ work # <<>>
  BY DEF BuildOr, At
<1>2. n \in Sound /\ Kids \in Seq(Used) /\ Kids = Item[n].kids /\ n \in OrNodes
      /\ \A i \in 1..Len(Kids) : Kids[i] \in Sound
  BY <1>1, ItemIsSound DEF OrNodes, Kids
<1>3. inline[n].choice # <<>> /\ Ranged(inline[n].choice, inline[n].shortest, Len(Kids))
  <2>1. n \in Below[n]
    BY <1>2, BelowIsClosed DEF OrNodes
  <2> QED BY <1>2, <2>1 DEF Sound, OrNodes, Ongoing, ChoiceInv, RulesFine, InlineOK
<1>4. DOMAIN items = 1..Len(Kids) /\ \A i \in DOMAIN items : items[i].node \in Sound \cup {NoNode}
  BY <1>2 DEF StaticEntry
<1> HIDE DEF items
<1>5. /\ or.items = items /\ or.choice = inline[n].choice /\ or.shortest = inline[n].shortest
      /\ ~or.keep
  OBVIOUS
<1> HIDE DEF or
<1>6. ChoiceList(or) # <<>> /\ ChoiceList(or) \in Seq(1..Len(Kids))
  <2>1. ChoiceList(or) = or.choice \/ (ChoiceList(or) = or.shortest /\ or.shortest # <<>>)
    BY <1>5 DEF ChoiceList
  <2> QED BY <1>3, <1>5, <2>1 DEF Ranged
<1>7. \A i \in DOMAIN ChoiceList(or) : ChoiceList(or)[i] \in DOMAIN or.items
  <2>1. PICK list : list = ChoiceList(or)
    OBVIOUS
  <2>2. list \in Seq(1..Len(Kids))
    BY <1>6, <2>1
  <2>3. \A i \in DOMAIN list : list[i] \in 1..Len(Kids)
    BY <2>2
  <2> QED BY <1>4, <1>5, <2>1, <2>3
<1>8. fault' = fault
  BY <1>1, <1>6, <1>7 DEF BuildChoice
<1> QED BY <1>1, <1>4, <1>5, <1>8, ChoiceGoesOn

\* The rule that is built, of the grammar or for values.
LEMMA RuleInPlace ==
  ASSUME Ongoing, AtOp("rule"), NEW or, or = scopes[Top.scope][Top.rule]
  PROVE  /\ work # <<>> /\ fault = "none" /\ RuleRanged(or) /\ DOMAIN or.items = 1..Len(or.items)
         /\ Len(or.items) \in Nat /\ (or.items = <<>> <=> Len(or.items) = 0)
         /\ Top.scope \in DOMAIN scopes /\ Top.rule \in DOMAIN names /\ ValidRule(Top.scope, Top.rule)
         /\ or.keep \/ or.choice # <<>>
         /\ \A i \in DOMAIN or.items : or.items[i].node \in Sound \cup {NoNode}
<1>1. work # <<>> /\ Top.op = "rule" /\ fault = "none"
  BY DEF AtOp
<1>2. Top.scope \in 1..Len(scopes)
  <2>1. Len(work) \in 1..Len(work) /\ Top = Level(work, Len(work))
    BY <1>1, Places DEF Ongoing
  <2> QED BY <1>1, <2>1 DEF Ongoing, BuildInv, StackOK, RulesOK, RuleThere
<1>3. ValidRule(Top.scope, Top.rule)
  BY <1>1 DEF Ongoing, ChoiceInv, CallsHeld
<1>4. Top.rule \in 1..Len(scopes[Top.scope]) /\ or.live
  BY <1>3 DEF ValidRule
<1>5. Fine(scopes[Top.scope]) /\ RuleList(Used, scopes[Top.scope])
  BY <1>2 DEF Ongoing, ChoiceInv, RulesFine, BuildInv, GrammarInv, ScopesOK
<1>6. /\ RuleRanged(or) /\ (or.keep \/ or.choice # <<>>) /\ Top.rule \in 1..Len(names)
      /\ \A i \in 1..Len(or.items) : or.items[i].node \in Sound \cup {NoNode}
  BY <1>4, <1>5 DEF Fine
<1>7. or.items \in Seq(Entry(Used))
  BY <1>4, <1>5 DEF RuleList, RuleOK
<1>8. AnySeq(scopes) /\ AnySeq(names)
  BY DEF Ongoing, BuildInv, GrammarInv, ScopesOK
<1>9. DOMAIN scopes = 1..Len(scopes) /\ DOMAIN names = 1..Len(names)
  BY <1>8, SeqFacts
<1>10. /\ DOMAIN or.items = 1..Len(or.items) /\ Len(or.items) \in Nat
       /\ or.items = <<>> <=> Len(or.items) = 0
  BY <1>7, SeqFacts DEF AnySeq
<1> QED BY <1>1, <1>2, <1>3, <1>6, <1>9, <1>10

LEMMA RuleGoesOn == ASSUME Ongoing, BuildRule PROVE IF fault' = fault THEN Onward ELSE SomeRuleIsEmpty
<1>1. PICK or : or = scopes[Top.scope][Top.rule]
  OBVIOUS
<1>2. AtOp("rule") /\ BuildChoice(or)
  BY <1>1 DEF BuildRule
<1>3. /\ work # <<>> /\ fault = "none" /\ RuleRanged(or) /\ DOMAIN or.items = 1..Len(or.items)
      /\ Len(or.items) \in Nat /\ (or.items = <<>> <=> Len(or.items) = 0)
      /\ Top.scope \in DOMAIN scopes /\ Top.rule \in DOMAIN names /\ ValidRule(Top.scope, Top.rule)
      /\ or.keep \/ or.choice # <<>>
      /\ \A i \in DOMAIN or.items : or.items[i].node \in Sound \cup {NoNode}
  BY <1>1, <1>2, RuleInPlace
<1>4. ASSUME fault' # fault
      PROVE  SomeRuleIsEmpty
  <2>1. ChoiceList(or) = <<>> \/ \E i \in DOMAIN ChoiceList(or) : ChoiceList(or)[i] \notin DOMAIN or.items
    BY <1>2, <1>4 DEF BuildChoice
  <2>2. CASE or.keep
    <3>1. ChoiceList(or) = [i \in 1..Len(or.items) |-> i]
      BY <1>3, <2>2 DEF ChoiceList
    <3>2. \A i \in DOMAIN ChoiceList(or) : ChoiceList(or)[i] \in DOMAIN or.items
      BY <1>3, <3>1
    <3>3. ChoiceList(or) = <<>>
      BY <2>1, <3>2
    <3>4. Len(or.items) = 0
      <4>1. DOMAIN ChoiceList(or) = 1..Len(or.items) /\ DOMAIN ChoiceList(or) = {}
        BY <3>1, <3>3
      <4> QED BY <1>3, <4>1
    <3>5. or.items = <<>>
      BY <1>3, <3>4
    <3> QED BY <1>1, <1>3, <3>5 DEF SomeRuleIsEmpty
  <2>3. CASE ~or.keep
    <3>1. ChoiceList(or) = or.choice \/ (ChoiceList(or) = or.shortest /\ or.shortest # <<>>)
      BY <2>3 DEF ChoiceList
    <3>2. PICK list : list = ChoiceList(or)
      OBVIOUS
    <3>3. list # <<>> /\ list \in Seq(1..Len(or.items))
      BY <1>3, <2>3, <3>1, <3>2 DEF RuleRanged, Ranged
    <3>4. \A i \in DOMAIN list : list[i] \in 1..Len(or.items)
      BY <3>3
    <3> QED BY <1>3, <2>1, <3>2, <3>3, <3>4
  <2> QED BY <2>2, <2>3
<1>5. ASSUME fault' = fault
      PROVE  Onward
  BY <1>2, <1>3, <1>5, ChoiceGoesOn
<1> QED BY <1>4, <1>5

LEMMA EnterGoesOn ==
  ASSUME Ongoing, work # <<>>, NEW s, NEW i, ValidRule(s, i), NEW d, NEW c, c = [ctx EXCEPT !.depth = d],
         NEW r, Enter(s, i, c, r)
  PROVE  Onward
<1> DEFINE snap == c.replay[c.replayIdx + 1]
           replays == c.replayIdx < Len(c.replay) /\ snap.depth = c.depth
           limit == IF replays THEN snap.limit ELSE c.limit
           own == c.pre = Null
           idx == IF replays THEN c.replayIdx + 1 ELSE c.replayIdx
           pre == IF own THEN Len(bufs) + 1 ELSE c.pre
           x == [op |-> "rule", scope |-> s, rule |-> i]
           y == [op |-> "leave", depth |-> c.depth, own |-> own, undo |-> replays, state |-> r,
                 limit |-> limit]
<1>1. /\ ctx' = [c EXCEPT !.limit = limit, !.replayIdx = idx, !.pre = pre]
      /\ Goto(<<x, y>>) /\ scopes' = scopes
  BY DEF Enter, gramVars
<1>2. y.op = "leave"
  OBVIOUS
<1> HIDE DEF y, limit, idx, pre
<1>3. ctx'.posts = ctx.posts
  <2>1. ctx = [depth |-> ctx.depth, limit |-> ctx.limit, pre |-> ctx.pre, out |-> ctx.out,
               posts |-> ctx.posts, captures |-> ctx.captures, replay |-> ctx.replay,
               replayIdx |-> ctx.replayIdx]
    BY DEF Ongoing, IInv, Context
  <2>2. c = [depth |-> d, limit |-> ctx.limit, pre |-> ctx.pre, out |-> ctx.out,
             posts |-> ctx.posts, captures |-> ctx.captures, replay |-> ctx.replay,
             replayIdx |-> ctx.replayIdx]
    BY <2>1
  <2> QED BY <1>1, <2>2
<1>4. x.op = "rule" /\ x.scope = s /\ x.rule = i
  OBVIOUS
<1> HIDE DEF x
<1>5. Held(x) /\ Held(y)
  BY <1>2, <1>4, ItemIsHeld
<1> QED BY <1>1, <1>2, <1>3, <1>4, <1>5, PostsSame, OnPair

\* A reference: its rule has an index, and if it is in no scope it was never there.
LEMMA RefGoesOn == ASSUME Ongoing, BuildRef PROVE IF fault' = fault THEN Onward ELSE SomeRuleIsEmpty
<1>1. At(RefKinds) /\ fault = "none"
  BY DEF BuildRef, At
<1>2. /\ work # <<>> /\ Top.node \in Used /\ Top.node \in NameNodes
  BY <1>1, ItemIsSound DEF NameNodes
<1> DEFINE deeper == [ctx EXCEPT !.depth = @ + 1]
<1>3. PICK i \in RuleIdx :
        IF Having(i) = {}
        THEN IF Item[Top.node].kind = "scoped" \/ Len(scopes) = 1
             THEN Return /\ UNCHANGED <<gramVars, ctx, bufs, randVars, fault>>
             ELSE Fail("no_items")
        ELSE \E s \in Having(i) : Enter(s, i, deeper, rng) \/ Enter(s, i, deeper, AfterNext)
  BY DEF BuildRef
<1>4. i \in DOMAIN names
  <2>1. index[Top.node] # -1 /\ index[Top.node] \in {-1} \cup 1..Len(names)
    BY <1>2 DEF Ongoing, Complete, IndexesAreSet, BuildInv, GrammarInv, Indexed
  <2>2. i = index[Top.node]
    BY <2>1 DEF RuleIdx
  <2>3. DOMAIN names = 1..Len(names)
    BY SeqFacts DEF Ongoing, BuildInv, GrammarInv
  <2> QED BY <2>1, <2>2, <2>3
<1>5. CASE Having(i) = {}
  <2>1. CASE Return /\ UNCHANGED <<gramVars, ctx, bufs, randVars, fault>>
    BY <1>2, <2>1, PostsSame, OnReturn
  <2>2. CASE Fail("no_items")
    <3>1. \A s \in DOMAIN scopes : ~ValidRule(s, i)
      BY <1>5 DEF Having
    <3> QED BY <1>1, <1>4, <2>2, <3>1 DEF SomeRuleIsEmpty, Fail
  <2> QED BY <1>3, <1>5, <2>1, <2>2
<1>6. CASE Having(i) # {}
  <2>1. PICK s \in Having(i), r \in {rng, AfterNext} : Enter(s, i, deeper, r)
    BY <1>3, <1>6
  <2>2. ValidRule(s, i) /\ fault' = fault
    BY <2>1 DEF Having, Enter
  <2>3. PICK d : d = ctx.depth + 1
    OBVIOUS
  <2>4. deeper = [ctx EXCEPT !.depth = d]
    BY <2>3
  <2> HIDE DEF deeper
  <2> QED BY <1>2, <2>1, <2>2, <2>4, EnterGoesOn
<1> QED BY <1>5, <1>6

LEMMA TopGoesOn == ASSUME Ongoing, BuildTop PROVE Onward
<1>1. work # <<>>
  BY DEF BuildTop, AtOp
<1>2. CASE ValidRule(1, 1)
  <2>1. Enter(1, 1, ctx, rng)
    BY <1>2 DEF BuildTop
  <2>2. PICK d : d = ctx.depth
    OBVIOUS
  <2>3. ctx = [ctx EXCEPT !.depth = d]
    BY <2>2 DEF Ongoing, IInv, Context
  <2> QED BY <1>1, <1>2, <2>1, <2>3, EnterGoesOn
<1>3. CASE ~ValidRule(1, 1)
  <2>1. Return /\ ctx' = ctx
    BY <1>3 DEF BuildTop
  <2> QED BY <1>1, <2>1, PostsSame, OnReturn
<1> QED BY <1>2, <1>3

LEMMA FlushGoesOn == ASSUME Ongoing, FlushTop \/ BuildFlush, fault' = fault PROVE Onward
<1> DEFINE x == [op |-> "flushed"]
           items == ItemFrames(ctx.posts)
           f == items \o <<x>>
<1>1. work # <<>> /\ Goto(f) /\ ctx' = ctx
  BY DEF FlushTop, BuildFlush, At, AtOp, FlushPrePost, Fail
<1>2. HeldSeq(ctx.posts) /\ HeldSeq(ctx'.posts)
  BY <1>1, PostsSame DEF Ongoing, ChoiceInv, CallsHeld
<1>3. Len(ctx.posts) \in Nat /\ DOMAIN ctx.posts = 1..Len(ctx.posts)
  <2>1. AnySeq(ctx.posts)
    BY DEF Ongoing, IInv, Context
  <2> QED BY <2>1, SeqFacts
<1> DEFINE F == {g \in {ItemFrame(ctx.posts[k]) : k \in 1..Len(ctx.posts)} \cup {x} : Held(g) /\ g.op # "rule"}
<1>4. x \in F
  BY ItemIsHeld
<1>5. items \in Seq(F)
  <2>1. items = [k \in 1..Len(ctx.posts) |-> ItemFrame(ctx.posts[k])]
    BY <1>3 DEF ItemFrames
  <2>2. \A k \in 1..Len(ctx.posts) : ItemFrame(ctx.posts[k]) \in F
    BY <1>2, ItemIsHeld DEF HeldSeq
  <2>3. items \in [1..Len(ctx.posts) -> F]
    <3> HIDE DEF F
    <3> QED BY <2>1, <2>2
  <2> HIDE DEF items, F
  <2> QED BY <1>3, <2>3, FunctionIsSeq
<1>6. \A g \in F : Held(g) /\ g.op # "rule"
  OBVIOUS
<1> HIDE DEF items, x, F
<1>7. f \in Seq(F)
  BY <1>4, <1>5
<1> HIDE DEF f
<1>8. AnySeq(f) /\ \A i \in 1..Len(f) : f[i] \in F
  BY <1>7 DEF AnySeq
<1>9. CallsOn(f)
  BY <1>1, <1>6, <1>8 DEF CallsOn, Goto
<1> QED BY <1>1, <1>2, <1>9 DEF Onward

LEMMA PostGoesOn == ASSUME Ongoing, BuildPost, fault' = fault PROVE Onward
<1>1. At({"post"}) /\ fault = "none"
  BY DEF BuildPost, At
<1>2. work # <<>> /\ Kid \in Sound /\ HeldSeq(ctx.posts)
  BY <1>1, ItemIsSound DEF Wrappers
<1> DEFINE q == Append(ctx.posts, Kid)
<1>3. ctx' = [ctx EXCEPT !.posts = q] /\ Return
  BY <1>1 DEF BuildPost, Fail
<1>4. AnySeq(ctx.posts)
  BY DEF Ongoing, IInv, Context
<1>5. /\ Len(q) = Len(ctx.posts) + 1 /\ Len(ctx.posts) \in Nat
      /\ \A k \in 1..Len(ctx.posts) : q[k] = ctx.posts[k]
      /\ q[Len(ctx.posts) + 1] = Kid
  BY <1>4, Appended
<1> HIDE DEF q
<1>6. ctx'.posts = q
  BY <1>3 DEF Ongoing, IInv, Context
<1>7. \A k \in 1..Len(q) : k \in 1..Len(ctx.posts) \/ k = Len(ctx.posts) + 1
  BY <1>5
<1>8. HeldSeq(ctx'.posts)
  BY <1>2, <1>5, <1>6, <1>7 DEF HeldSeq
<1> QED BY <1>2, <1>3, <1>8, OnReturn

LEMMA NextPostGoesOn == ASSUME Ongoing, NextPost PROVE Onward
<1> DEFINE x == ItemFrame(ctx.posts[Top.next])
           y == [op |-> "posts", next |-> Top.next + 1, keep |-> Top.keep]
           kept == [i \in 1..Top.keep |-> IF i <= Len(ctx.posts) THEN ctx.posts[i] ELSE NoNode]
<1>1. work # <<>> /\ Top.op = "posts" /\ HeldSeq(ctx.posts) /\ AnySeq(ctx.posts)
  BY DEF NextPost, AtOp, Ongoing, IInv, Context, ChoiceInv, CallsHeld
<1>2. Top.next \in Nat \ {0} /\ Top.keep \in Nat /\ Len(ctx.posts) \in Nat
  <2>1. FrameOK(Used, Top)
    BY <1>1, Places DEF Ongoing
  <2>2. Len(ctx.posts) \in Nat
    BY <1>1, SeqFacts
  <2> QED BY <1>1, <2>1, <2>2 DEF FrameOK
<1>3. CASE Top.next <= Len(ctx.posts)
  <2>1. Goto(<<x, y>>) /\ ctx' = ctx
    BY <1>3 DEF NextPost
  <2>2. ctx.posts[Top.next] \in Sound \cup {NoNode}
    BY <1>1, <1>2, <1>3 DEF HeldSeq
  <2>3. Held(x) /\ x.op # "rule" /\ Held(y) /\ y.op # "rule"
    BY <2>2, ItemIsHeld
  <2> HIDE DEF x, y
  <2> QED BY <1>1, <2>1, <2>3, PostsSame, OnPair
<1>4. CASE ~(Top.next <= Len(ctx.posts))
  <2>1. ctx' = [ctx EXCEPT !.posts = kept] /\ Return
    BY <1>4 DEF NextPost
  <2>2. HeldSeq(kept)
    <3>1. Len(kept) = Top.keep
      BY <1>2
    <3>2. \A k \in 1..Top.keep : kept[k] \in Sound \cup {NoNode}
      BY <1>1, <1>2 DEF HeldSeq
    <3> QED BY <3>1, <3>2 DEF HeldSeq
  <2> HIDE DEF kept
  <2>3. ctx'.posts = kept
    BY <2>1 DEF Ongoing, IInv, Context
  <2> QED BY <1>1, <2>1, <2>2, <2>3, OnReturn
<1> QED BY <1>3, <1>4

-----------------------------------------------------------------------------
(* The rules in the scopes.                                                *)

ScopesFine(ss) == Collecting(ss[1]) /\ \A s \in 1..Len(ss) : Fine(ss[s])

\* A value more.
LEMMA MoreIsFine ==
  ASSUME NEW items, AnySeq(items), NEW choice, NEW shortest, Ranged(choice, shortest, Len(items)),
         \A j \in 1..Len(items) : items[j].node \in Sound \cup {NoNode},
         NEW e, e.node = NoNode, NEW more, more = Append(items, e),
         NEW x, x.items = more, x.choice = choice, x.shortest = shortest
  PROVE  /\ RuleRanged(x)
         /\ \A j \in 1..Len(x.items) : x.items[j].node \in Sound \cup {NoNode}
<1>1. /\ Len(items) \in Nat /\ Len(more) = Len(items) + 1 /\ more[Len(items) + 1] = e
      /\ \A j \in 1..Len(items) : more[j] = items[j]
  BY Appended
<1>2. \A j \in 1..Len(more) : j \in 1..Len(items) \/ j = Len(items) + 1
  BY <1>1
<1>3. \A j \in 1..Len(more) : more[j].node \in Sound \cup {NoNode}
  BY <1>1, <1>2
<1>4. Ranged(choice, shortest, Len(more))
  <2>1. Len(more) \in Nat /\ Len(items) <= Len(more)
    BY <1>1
  <2> QED BY <1>1, <2>1, RangesGrow
<1>5. RuleRanged(x)
  BY <1>4 DEF RuleRanged
<1> QED BY <1>3, <1>5

LEMMA RawRulesAreFine ==
  ASSUME Ongoing, NEW n \in Sound, Item[n].kind \in Adders, NEW i, i = index[n],
         NEW text, NEW clobber, AddRawRule(i, text, clobber)
  PROVE  \A ss : ss = scopes' => ScopesFine(ss)
<1> DEFINE s == Len(scopes)
           or == scopes[s][i]
           top == s > 1 /\ Root[i].keep
           added == IF ~or.live THEN [NewOr EXCEPT !.keep = top]
                    ELSE IF clobber THEN [or EXCEPT !.items = <<>>, !.choice = <<>>, !.shortest = <<>>]
                    ELSE or
           x == [added EXCEPT !.items = Append(@, RawEntry(text))]
           rs == [scopes[s] EXCEPT ![i] = x]
<1>1. Collects(i)
  <2>1. n \in Below[n]
    BY BelowIsClosed, UsedIsClosed DEF Sound, Ongoing, BuildInv, GrammarInv
  <2> QED BY <2>1 DEF Sound, Takes, Collects
<1>2. /\ AnySeq(scopes) /\ s \in Nat \ {0} /\ s \in 1..Len(scopes) /\ 1 \in 1..Len(scopes)
      /\ RuleList(Used, scopes[s])
  BY SeqFacts DEF Ongoing, BuildInv, GrammarInv, ScopesOK
<1>3. Fine(origRoot) /\ Collecting(Root) /\ Fine(Root) /\ Fine(scopes[s])
  BY <1>2 DEF Ongoing, ChoiceInv, RulesFine, Root
<1>4. i \in 1..Len(scopes[s]) /\ i \in 1..Len(Root)
  BY <1>1, <1>3 DEF Fine, Collects
<1>5. Root[i].live /\ Root[i].keep
  BY <1>1, <1>3, <1>4 DEF Fine, Collecting
<1>6. /\ or = [live |-> or.live, keep |-> or.keep, items |-> or.items, choice |-> or.choice,
               shortest |-> or.shortest]
      /\ or.items \in Seq(Entry(Used))
  BY <1>2, <1>4 DEF RuleList, RuleOK
<1>7. /\ RuleRanged(or) /\ (or.live => or.keep)
      /\ or.live => \A j \in 1..Len(or.items) : or.items[j].node \in Sound \cup {NoNode}
  BY <1>1, <1>3, <1>4 DEF Fine
<1>8. or.live \/ s > 1
  <2>1. CASE s = 1
    BY <1>5, <2>1 DEF Root
  <2>2. CASE s # 1
    <3>1. s \in Nat \ {0} /\ s # 1
      BY <1>2, <2>2
    <3>2. s > 1
      <4> HIDE DEF s
      <4> QED BY <3>1
    <3> QED BY <3>2
  <2> QED BY <2>1, <2>2
<1>9. /\ RuleRanged(x) /\ x.live /\ x.keep
      /\ \A j \in 1..Len(x.items) : x.items[j].node \in Sound \cup {NoNode}
  <2>1. PICK none : none = <<>>
    OBVIOUS
  <2>2. /\ AnySeq(none) /\ Ranged(none, none, Len(none))
        /\ \A j \in 1..Len(none) : none[j].node \in Sound \cup {NoNode}
    BY <2>1, NoItems DEF Ranged
  <2>3. PICK yes : yes = TRUE
    OBVIOUS
  <2>4. PICK e : e = RawEntry(text) /\ e.node = NoNode
    <3>1. RawEntry(text).node = NoNode
      BY DEF RawEntry
    <3> QED BY <3>1
  <2>5. x = [added EXCEPT !.items = Append(@, e)]
    BY <2>4
  <2>6. CASE ~or.live
    <3>1. added = [live |-> yes, keep |-> yes, items |-> none, choice |-> none, shortest |-> none]
      <4>1. top = TRUE
        BY <1>5, <1>8, <2>6
      <4>2. added = [NewOr EXCEPT !.keep = top]
        BY <2>6
      <4>3. NewOr = [live |-> TRUE, keep |-> FALSE, items |-> <<>>, choice |-> <<>>, shortest |-> <<>>]
        BY DEF NewOr, Or
      <4> HIDE DEF added, top
      <4> QED BY <2>1, <2>3, <4>1, <4>2, <4>3
    <3> HIDE DEF added, x
    <3>2. PICK more : more = Append(none, e)
      OBVIOUS
    <3>3. x.live /\ x.keep /\ x.items = more /\ x.choice = none /\ x.shortest = none
      BY <2>3, <2>5, <3>1, <3>2
    <3>4. /\ RuleRanged(x)
          /\ \A j \in 1..Len(x.items) : x.items[j].node \in Sound \cup {NoNode}
      BY <2>2, <2>4, <3>2, <3>3, MoreIsFine
    <3> QED BY <3>3, <3>4
  <2>7. CASE or.live /\ clobber
    <3>1. added = [or EXCEPT !.items = <<>>, !.choice = <<>>, !.shortest = <<>>]
      BY <2>7
    <3>2. PICK live, keep : live = or.live /\ keep = or.keep
      OBVIOUS
    <3>3. added = [live |-> live, keep |-> keep, items |-> none, choice |-> none, shortest |-> none]
      <4> HIDE DEF or, added
      <4> QED BY <1>6, <2>1, <3>1, <3>2
    <3>4. live /\ keep
      BY <1>7, <2>7, <3>2
    <3> HIDE DEF added, x
    <3>5. PICK more : more = Append(none, e)
      OBVIOUS
    <3>6. x.live /\ x.keep /\ x.items = more /\ x.choice = none /\ x.shortest = none
      BY <2>5, <3>3, <3>4, <3>5
    <3>7. /\ RuleRanged(x)
          /\ \A j \in 1..Len(x.items) : x.items[j].node \in Sound \cup {NoNode}
      BY <2>2, <2>4, <3>5, <3>6, MoreIsFine
    <3> QED BY <3>6, <3>7
  <2>8. CASE or.live /\ ~clobber
    <3>1. PICK live, keep, items, choice, shortest :
            /\ live = or.live /\ keep = or.keep
            /\ items = or.items /\ choice = or.choice /\ shortest = or.shortest
      OBVIOUS
    <3>2. added = or
      BY <2>8
    <3>3. added = [live |-> live, keep |-> keep, items |-> items, choice |-> choice, shortest |-> shortest]
      <4> HIDE DEF or, added
      <4> QED BY <1>6, <3>1, <3>2
    <3>4. live /\ keep
      BY <1>7, <2>8, <3>1
    <3>5. AnySeq(items) /\ Ranged(choice, shortest, Len(items))
      BY <1>6, <1>7, <3>1 DEF AnySeq, RuleRanged
    <3>6. \A j \in 1..Len(items) : items[j].node \in Sound \cup {NoNode}
      BY <1>7, <2>8, <3>1
    <3> HIDE DEF added, x
    <3>7. PICK more : more = Append(items, e)
      OBVIOUS
    <3>8. x.live /\ x.keep /\ x.items = more /\ x.choice = choice /\ x.shortest = shortest
      BY <2>5, <3>3, <3>4, <3>7
    <3>9. /\ RuleRanged(x)
          /\ \A j \in 1..Len(x.items) : x.items[j].node \in Sound \cup {NoNode}
      BY <2>4, <3>5, <3>6, <3>7, <3>8, MoreIsFine
    <3> QED BY <3>8, <3>9
  <2> QED BY <2>6, <2>7, <2>8
<1>10. scopes' = [scopes EXCEPT ![s] = rs]
  BY DEF AddRawRule
<1> HIDE DEF x
<1>11. PICK old : old = scopes[s]
  OBVIOUS
<1>12. AnySeq(old) /\ rs = [old EXCEPT ![i] = x] /\ Fine(old) /\ i \in 1..Len(old)
  BY <1>2, <1>3, <1>4, <1>11 DEF RuleList
<1>13. Len(rs) = Len(old) /\ \A k \in 1..Len(old) : rs[k] = IF k = i THEN x ELSE old[k]
  <2> HIDE DEF rs
  <2> QED BY <1>12 DEF AnySeq
<1> HIDE DEF rs
<1>14. Fine(rs)
  BY <1>9, <1>12, <1>13 DEF Fine
<1>15. Collecting(old) => Collecting(rs)
  BY <1>9, <1>13 DEF Collecting
<1> HIDE DEF s
<1>16. Len(scopes') = Len(scopes) /\ \A k \in 1..Len(scopes) : scopes'[k] = IF k = s THEN rs ELSE scopes[k]
  BY <1>2, <1>10 DEF AnySeq
<1>17. \A k \in 1..Len(scopes) : Fine(scopes[k])
  BY DEF Ongoing, ChoiceInv, RulesFine
<1> SUFFICES ASSUME NEW ss, ss = scopes' PROVE ScopesFine(ss)
  OBVIOUS
<1>18. \A k \in 1..Len(ss) : Fine(ss[k])
  BY <1>14, <1>16, <1>17
<1>19. Collecting(ss[1])
  <2>1. CASE s = 1
    <3>1. ss[1] = rs /\ old = Root
      BY <1>2, <1>11, <1>16, <2>1 DEF Root
    <3> QED BY <1>3, <1>15, <3>1
  <2>2. CASE s # 1
    <3>1. ss[1] = Root
      BY <1>2, <1>16, <2>2 DEF Root
    <3> QED BY <1>3, <3>1
  <2> QED BY <2>1, <2>2
<1> QED BY <1>18, <1>19 DEF ScopesFine

LEMMA SomeAreFine == Ongoing => /\ AnySeq(scopes) /\ Len(scopes) \in Nat \ {0} /\ 1 \in 1..Len(scopes)
                                /\ Collecting(scopes[1]) /\ \A s \in 1..Len(scopes) : Fine(scopes[s])
                                /\ scopes[1] = Root /\ Len(Root) = Len(names)
<1> SUFFICES ASSUME Ongoing
             PROVE  /\ AnySeq(scopes) /\ Len(scopes) \in Nat \ {0} /\ 1 \in 1..Len(scopes)
                    /\ Collecting(scopes[1]) /\ \A s \in 1..Len(scopes) : Fine(scopes[s])
                    /\ scopes[1] = Root /\ Len(Root) = Len(names)
  OBVIOUS
<1>1. AnySeq(scopes) /\ Len(scopes) \in Nat \ {0} /\ 1 \in 1..Len(scopes) /\ scopes[1] = Root
  BY SeqFacts DEF Ongoing, BuildInv, GrammarInv, ScopesOK, Root
<1>2. Collecting(scopes[1]) /\ \A s \in 1..Len(scopes) : Fine(scopes[s])
  BY <1>1 DEF Ongoing, ChoiceInv, RulesFine
<1> QED BY <1>1, <1>2 DEF Fine

LEMMA PushIsFine == ASSUME Ongoing, PushScope PROVE \A ss : ss = scopes' => ScopesFine(ss)
<1> DEFINE rs == [i \in DOMAIN Root |-> NoRule]
<1>1. /\ AnySeq(scopes) /\ Len(scopes) \in Nat \ {0} /\ 1 \in 1..Len(scopes)
      /\ Collecting(scopes[1]) /\ \A s \in 1..Len(scopes) : Fine(scopes[s])
      /\ Len(Root) = Len(names)
  BY SomeAreFine
<1>2. Fine(rs)
  <2>1. AnySeq(Root)
    BY RootIsOK DEF RuleList, Ongoing, BuildInv
  <2>2. DOMAIN Root = 1..Len(Root) /\ Len(Root) \in Nat
    BY <2>1, SeqFacts
  <2>3. Len(rs) = Len(Root) /\ \A i \in 1..Len(rs) : rs[i] = NoRule
    <3>1. rs \in [1..Len(Root) -> {NoRule}]
      BY <2>2
    <3> HIDE DEF rs
    <3>2. rs \in Seq({NoRule}) /\ Len(rs) = Len(Root)
      BY <2>2, <3>1, FunctionIsSeq
    <3> QED BY <3>1, <3>2
  <2>4. NoRule = [live |-> FALSE, keep |-> FALSE, items |-> <<>>, choice |-> <<>>, shortest |-> <<>>]
    BY DEF NoRule, Or
  <2>5. ~NoRule.live /\ NoRule.items = <<>> /\ NoRule.choice = <<>> /\ NoRule.shortest = <<>>
    BY <2>4
  <2>6. RuleRanged(NoRule)
    BY <2>5, NoItems DEF RuleRanged, Ranged
  <2> HIDE DEF rs
  <2> QED BY <1>1, <2>3, <2>5, <2>6 DEF Fine
<1>3. scopes' = Append(scopes, rs)
  BY DEF PushScope
<1> HIDE DEF rs
<1>4. /\ Len(scopes') = Len(scopes) + 1 /\ scopes'[Len(scopes) + 1] = rs
      /\ \A s \in 1..Len(scopes) : scopes'[s] = scopes[s]
  BY <1>1, <1>3, Appended
<1> SUFFICES ASSUME NEW ss, ss = scopes' PROVE ScopesFine(ss)
  OBVIOUS
<1>5. \A s \in 1..Len(ss) : s \in 1..Len(scopes) \/ s = Len(scopes) + 1
  BY <1>1, <1>4
<1>6. \A s \in 1..Len(ss) : Fine(ss[s])
  BY <1>1, <1>2, <1>4, <1>5
<1>7. ss[1] = scopes[1]
  BY <1>1, <1>4
<1> QED BY <1>1, <1>6, <1>7 DEF ScopesFine

LEMMA PopIsFine ==
  ASSUME Ongoing, NEW k \in Nat \ {0}, k <= Len(scopes), scopes' = SubSeq(scopes, 1, k)
  PROVE  \A ss : ss = scopes' => ScopesFine(ss)
<1>1. /\ AnySeq(scopes) /\ Len(scopes) \in Nat \ {0} /\ 1 \in 1..Len(scopes)
      /\ Collecting(scopes[1]) /\ \A s \in 1..Len(scopes) : Fine(scopes[s])
  BY SomeAreFine
<1>2. PICK S : scopes \in Seq(S)
  BY <1>1 DEF AnySeq
<1> SUFFICES ASSUME NEW ss, ss = SubSeq(scopes, 1, k) PROVE ScopesFine(ss)
  OBVIOUS
<1>3. Len(ss) = k /\ \A s \in 1..k : ss[s] = scopes[s] /\ s \in 1..Len(scopes)
  BY <1>2
<1>4. 1 \in 1..k
  OBVIOUS
<1> QED BY <1>1, <1>3, <1>4 DEF ScopesFine

LEMMA ValuesAreFine ==
  ASSUME Ongoing, BuildId \/ EndStore, fault' = fault
  PROVE  \A ss : ss = scopes' => ScopesFine(ss)
<1>1. Top.node \in Sound /\ Item[Top.node].kind \in Adders /\ fault = "none"
  <2>1. CASE BuildId
    <3>1. At({"id"}) /\ fault = "none"
      BY <2>1 DEF BuildId, At
    <3> QED BY <3>1, ItemIsSound DEF Adders
  <2>2. CASE EndStore
    <3>1. work # <<>> /\ Top.op = "end_store" /\ fault = "none"
      BY <2>2 DEF EndStore, AtOp
    <3>2. Top.node \in Used /\ Item[Top.node].kind \in StoreKinds /\ Top = work[1] /\ 1 \in 1..Len(work)
      BY <3>1, Places DEF FrameOK, Ongoing
    <3>3. Top.node # NoNode
      BY <3>2, UsedIsClosed DEF Ongoing, BuildInv, GrammarInv
    <3>4. Top.node \in Sound
      BY <3>1, <3>2, <3>3 DEF Ongoing, ChoiceInv, CallsHeld, Held
    <3> QED BY <3>1, <3>2, <3>4 DEF Adders
  <2> QED BY <2>1, <2>2
<1>2. \A i \in RuleIdx : i = index[Top.node]
  <2>1. Top.node \in Used \cap NameNodes
    BY <1>1, UsedIsClosed DEF Sound, NameNodes, Adders, Ongoing, BuildInv, GrammarInv
  <2> QED BY <2>1 DEF RuleIdx, Ongoing, Complete, IndexesAreSet
<1>3. scopes' = scopes \/ \E i \in RuleIdx : \E text, clobber : AddRawRule(i, text, clobber)
  <2>1. CASE BuildId
    <3>1. PICK i \in RuleIdx : i # 0 /\ AddRawRule(i, <<DrawnToken(Top.node)>>, FALSE)
      BY <1>1, <2>1 DEF BuildId, Fail
    <3> QED BY <3>1
  <2>2. CASE EndStore
    <3>1. PICK i \in RuleIdx : \/ scopes' = scopes
                               \/ AddRawRule(i, Since(Top.start), Item[Top.node].kind \in {"set", "iset"})
      BY <1>1, <2>2 DEF EndStore, Fail, gramVars
    <3> QED BY <3>1
  <2> QED BY <2>1, <2>2
<1>4. CASE scopes' = scopes
  BY <1>4, SomeAreFine DEF ScopesFine
<1>5. CASE \E i \in RuleIdx : \E text, clobber : AddRawRule(i, text, clobber)
  <2>1. PICK i \in RuleIdx : \E text, clobber : AddRawRule(i, text, clobber)
    BY <1>5
  <2>5. PICK text, clobber : AddRawRule(i, text, clobber)
    BY <2>1
  <2>2. i = index[Top.node]
    BY <1>2, <2>1
  <2>3. PICK n : n = Top.node
    OBVIOUS
  <2>4. n \in Sound /\ Item[n].kind \in Adders /\ i = index[n]
    BY <1>1, <2>2, <2>3
  <2> QED BY <2>4, <2>5, RawRulesAreFine
<1> QED BY <1>3, <1>4, <1>5

LEMMA ScopeItemsAreFine ==
  ASSUME Ongoing, BuildScope \/ EndScope \/ BuildScopeAction, fault' = fault
  PROVE  \A ss : ss = scopes' => ScopesFine(ss)
<1>1. Len(scopes) \in Nat \ {0}
  BY SomeAreFine
<1>2. CASE BuildScope
  BY <1>2, PushIsFine DEF BuildScope
<1>3. CASE EndScope
  <2>1. work # <<>> /\ Top.op = "end_scope" /\ fault = "none"
    BY <1>3 DEF EndScope, AtOp
  <2>2. Top.outer \in Nat \ {0}
    BY <2>1, Places DEF FrameOK, Ongoing
  <2>3. ~(Len(scopes) <= Top.outer) /\ scopes' = SubSeq(scopes, 1, Top.outer)
    BY <1>3, <2>1 DEF EndScope, Fail
  <2>4. PICK k : k = Top.outer
    OBVIOUS
  <2>5. k \in Nat \ {0} /\ k <= Len(scopes) /\ scopes' = SubSeq(scopes, 1, k)
    BY <1>1, <2>2, <2>3, <2>4
  <2> QED BY <2>5, PopIsFine
<1>4. CASE BuildScopeAction
  <2>1. At({"push", "pop"}) /\ fault = "none"
    BY <1>4 DEF BuildScopeAction, At
  <2>2. CASE Item[Top.node].kind = "push"
    BY <1>4, <2>1, <2>2, PushIsFine DEF BuildScopeAction, Fail
  <2>3. CASE Item[Top.node].kind # "push"
    <3>1. /\ ~(Item[Top.node].kind = "pop" /\ Len(scopes) = 1)
          /\ scopes' = SubSeq(scopes, 1, Len(scopes) - 1)
      BY <1>4, <2>1, <2>3 DEF BuildScopeAction, Fail
    <3>2. Item[Top.node].kind = "pop"
      BY <2>1, <2>3 DEF At
    <3>3. PICK k : k = Len(scopes) - 1
      OBVIOUS
    <3>4. k \in Nat \ {0} /\ k <= Len(scopes) /\ scopes' = SubSeq(scopes, 1, k)
      BY <1>1, <3>1, <3>2, <3>3
    <3> QED BY <3>4, PopIsFine
  <2> QED BY <2>2, <2>3
<1> QED BY <1>2, <1>3, <1>4

\* The other steps leave the rules alone.
LEMMA StepIsFine ==
  ASSUME Ongoing, BuildStep, fault = "none", fault' = fault
  PROVE  \A ss : ss = scopes' => ScopesFine(ss)
<1> USE DEF gramVars, gramRest
<1>1. CASE BuildId \/ EndStore
  BY <1>1, ValuesAreFine
<1>2. CASE BuildScope \/ EndScope \/ BuildScopeAction
  BY <1>2, ScopeItemsAreFine
<1>3. ASSUME scopes' = scopes
      PROVE  \A ss : ss = scopes' => ScopesFine(ss)
  BY <1>3, SomeAreFine DEF ScopesFine
<1>4. CASE BuildRaw \/ BuildDraw \/ BuildAnd \/ NextItem \/ BuildOpt
  BY <1>3, <1>4 DEF BuildRaw, BuildDraw, BuildAnd, NextItem, BuildOpt
<1>5. CASE BuildOr \/ BuildRule
  <2>1. \E or : BuildChoice(or)
    BY <1>5 DEF BuildOr, BuildRule
  <2> QED BY <1>3, <2>1 DEF BuildChoice, Fail
<1>6. CASE BuildTop \/ BuildRef
  BY <1>3, <1>6 DEF BuildTop, BuildRef, Enter, Fail
<1>7. CASE LeaveRule \/ FlushedPrePost \/ EndTop
  BY <1>3, <1>7 DEF LeaveRule, FlushedPrePost, EndTop
<1>8. CASE FlushTop \/ BuildFlush \/ BuildPre
  BY <1>3, <1>8 DEF FlushTop, BuildFlush, BuildPre, FlushPrePost, Fail
<1>9. CASE EndPre \/ BuildFlushed \/ EndFlushed \/ NextPost \/ BuildCapture \/ EndCapture
  BY <1>3, <1>9 DEF EndPre, BuildFlushed, EndFlushed, NextPost, BuildCapture, EndCapture
<1>10. CASE BuildPost \/ BuildNullItem \/ BuildCaptured \/ BuildStore
  BY <1>3, <1>10 DEF BuildPost, BuildNullItem, BuildCaptured, BuildStore, Fail
<1> QED BY <1>1, <1>2, <1>4, <1>5, <1>6, <1>7, <1>8, <1>9, <1>10 DEF BuildStep

LEMMA StepGoesOn == ASSUME Ongoing, BuildStep, fault = "none", fault' = fault PROVE Onward
<1>1. ~BuildNullItem
  BY DEF BuildNullItem, AtOp, Fail
<1>2. CASE BuildRaw \/ BuildDraw \/ BuildCaptured \/ BuildId \/ EndStore \/ EndScope \/ BuildScopeAction
  BY <1>2, EndsGoOn
<1>3. CASE EndCapture \/ EndPre \/ EndFlushed \/ EndTop \/ FlushedPrePost \/ LeaveRule
  BY <1>3, RestoresGoOn
<1>4. CASE BuildAnd \/ NextItem
  BY <1>4, AndGoesOn
<1>5. CASE BuildCapture \/ BuildStore \/ BuildScope \/ BuildPre \/ BuildFlushed
  BY <1>5, AroundGoesOn
<1>6. CASE BuildOpt \/ BuildOr
  BY <1>6, OptGoesOn, OrGoesOn
<1>7. CASE BuildRule \/ BuildRef
  BY <1>7, RuleGoesOn, RefGoesOn
<1>8. CASE BuildTop \/ FlushTop \/ BuildFlush
  BY <1>8, TopGoesOn, FlushGoesOn
<1>9. CASE BuildPost \/ NextPost
  BY <1>9, PostGoesOn, NextPostGoesOn
<1> QED BY <1>1, <1>2, <1>3, <1>4, <1>5, <1>6, <1>7, <1>8, <1>9 DEF BuildStep

LEMMA NothingIsMissing ==
  ASSUME Ongoing, BuildStep, fault = "none", fault' = "no_items"
  PROVE  SomeRuleIsEmpty
<1>1. CASE BuildOr
  BY <1>1, OrGoesOn
<1>2. CASE BuildRule \/ BuildRef
  BY <1>2, RuleGoesOn, RefGoesOn
<1>3. ~(BuildRaw \/ BuildDraw \/ BuildAnd \/ NextItem \/ BuildOpt)
  BY DEF BuildRaw, BuildDraw, BuildAnd, NextItem, BuildOpt
<1>4. ~(BuildTop \/ LeaveRule \/ FlushedPrePost \/ EndTop)
  BY DEF BuildTop, Enter, LeaveRule, FlushedPrePost, EndTop
<1>5. ~(FlushTop \/ BuildFlush \/ BuildPre)
  BY DEF FlushTop, BuildFlush, BuildPre, FlushPrePost, Fail
<1>6. ~(EndPre \/ BuildFlushed \/ EndFlushed \/ NextPost \/ BuildCapture \/ EndCapture)
  BY DEF EndPre, BuildFlushed, EndFlushed, NextPost, BuildCapture, EndCapture
<1>7. ~(BuildPost \/ BuildNullItem \/ BuildCaptured)
  BY DEF BuildPost, BuildNullItem, BuildCaptured, Fail
<1>8. ~(BuildId \/ BuildStore \/ EndStore)
  BY DEF BuildId, BuildStore, EndStore, Fail
<1>9. ~(BuildScope \/ EndScope \/ BuildScopeAction)
  BY DEF BuildScope, EndScope, BuildScopeAction, Fail
<1> QED BY <1>1, <1>2, <1>3, <1>4, <1>5, <1>6, <1>7, <1>8, <1>9 DEF BuildStep

-----------------------------------------------------------------------------
(* The invariant.                                                          *)

LEMMA BuildChooses ==
  ASSUME Ongoing, Build, fault' = fault
  PROVE  ChoiceInv'
<1>1. BuildStep /\ UNCHANGED <<grammar, names, index, inline, origRoot, mainRoot>> /\ fault = "none"
  BY StepsOrFails DEF Build, gramRest, loopVars
<1>2. \A ss : ss = scopes' => ScopesFine(ss)
  BY <1>1, StepIsFine
<1>3. CallsHeld'
  BY <1>1, StepGoesOn, CallsStayHeld DEF Ongoing, ChoiceInv
<1>4. InlineOK'
  BY <1>1, FineStays DEF Ongoing, ChoiceInv, RulesFine
<1>5. PICK ss, main, orig : ss = scopes' /\ main = mainRoot /\ orig = origRoot
  OBVIOUS
<1>6. ScopesFine(ss)
  BY <1>2, <1>5
<1>7. Fine(main)' /\ Collecting(main)' /\ Fine(orig)'
  <2>1. Fine(main) /\ Collecting(main) /\ Fine(orig)
    BY <1>5 DEF Ongoing, ChoiceInv, RulesFine
  <2> QED BY <1>1, <2>1, FineStays
<1>8. Fine(mainRoot)' /\ Collecting(mainRoot)' /\ Fine(origRoot)'
  <2>1. mainRoot' = main /\ origRoot' = orig
    BY <1>1, <1>5
  <2> QED BY <1>7, <2>1 DEF Fine, Collecting
<1>9. Collecting(Root)'
  <2>1. PICK rs : rs = ss[1]
    OBVIOUS
  <2>2. Collecting(rs)'
    BY <1>1, <1>6, <2>1, FineStays DEF ScopesFine
  <2>3. Root' = rs
    BY <1>5, <2>1 DEF Root
  <2> QED BY <2>2, <2>3 DEF Collecting
<1>10. ASSUME NEW s \in 1..Len(scopes')
       PROVE  Fine(scopes[s])'
  <2>1. PICK rs : rs = ss[s]
    OBVIOUS
  <2>2. Fine(rs)'
    BY <1>1, <1>5, <1>6, <2>1, FineStays DEF ScopesFine
  <2>3. scopes'[s] = rs
    BY <1>5, <2>1
  <2> QED BY <2>2, <2>3 DEF Fine
<1> QED BY <1>3, <1>4, <1>8, <1>9, <1>10 DEF ChoiceInv, RulesFine

\* Nothing but the fault changes.
LEMMA NothingMoves ==
  ASSUME ChoiceInv, UNCHANGED <<gramVars, work, ctx, mainRoot, origRoot>>
  PROVE  ChoiceInv'
<1>1. UNCHANGED <<grammar, names, index, inline, origRoot, mainRoot, scopes, work, ctx>>
  BY DEF gramVars
<1>2. PICK ss, main, orig, w, c :
        ss = scopes /\ main = mainRoot /\ orig = origRoot /\ w = work /\ c = ctx
  OBVIOUS
<1>3. /\ \A s \in 1..Len(ss) : Fine(ss[s])'
      /\ Fine(main)' /\ Fine(orig)' /\ Collecting(main)' /\ Collecting(ss[1])'
  <2>1. /\ \A s \in 1..Len(ss) : Fine(ss[s])
        /\ Fine(main) /\ Fine(orig) /\ Collecting(main) /\ Collecting(ss[1])
    BY <1>2 DEF ChoiceInv, RulesFine, Root
  <2> QED BY <1>1, <2>1, FineStays
<1>4. RulesFine'
  <2>1. InlineOK'
    BY <1>1, FineStays DEF ChoiceInv, RulesFine
  <2>2. scopes' = ss /\ mainRoot' = main /\ origRoot' = orig
    BY <1>1, <1>2
  <2>3. Fine(mainRoot)' /\ Fine(origRoot)' /\ Collecting(mainRoot)'
    BY <1>3, <2>2 DEF Fine, Collecting
  <2>4. Collecting(Root)'
    BY <1>3, <2>2 DEF Collecting, Root
  <2>5. \A s \in 1..Len(scopes') : Fine(scopes[s])'
    BY <1>3, <2>2 DEF Fine
  <2> QED BY <2>1, <2>3, <2>4, <2>5 DEF RulesFine
<1>5. CallsHeld'
  <2>1. \A j \in 1..Len(w) : Held(w[j])'
    <3>1. \A j \in 1..Len(w) : Held(w[j])
      BY <1>2 DEF ChoiceInv, CallsHeld
    <3> QED BY <1>1, <3>1, FineStays
  <2>2. HeldSeq(ctx.posts)'
    <3>1. Sound' = Sound
      BY <1>1, FineStays
    <3> QED BY <1>1, <3>1 DEF ChoiceInv, CallsHeld, HeldSeq
  <2>3. work' # <<>> /\ Top'.op = "rule" => ValidRule(Top.scope, Top.rule)'
    BY <1>1 DEF ChoiceInv, CallsHeld, Top, ValidRule
  <2>4. \A j \in 1..Len(work') : Held(work[j])'
    <3>1. work' = w
      BY <1>1, <1>2
    <3> QED BY <2>1, <3>1 DEF Held
  <2> QED BY <2>2, <2>3, <2>4 DEF CallsHeld
<1> QED BY <1>4, <1>5 DEF ChoiceInv

LEMMA CompleteStays ==
  ASSUME UNCHANGED <<grammar, index>>
  PROVE  /\ Complete' <=> Complete
         /\ OrsHaveItems' <=> OrsHaveItems
         /\ IndexesAreSet' <=> IndexesAreSet
<1>1. Used' = Used
  BY DEF Used
<1> QED BY <1>1 DEF Complete, IndexesAreSet, OrsHaveItems

LEMMA NoChoiceFails == ASSUME fault' = "none" PROVE ChoicesAreDefined'
BY DEF ChoicesAreDefined

\* Before the campaign, its start, and the steps between two builds.
LEMMA ChoosesOutside ==
  ASSUME GrammarInv, GrammarInv', ChoosingInv, Next, ~Build, Unbuilt'
  PROVE  ChoosingInv'
<1>1. CASE FinalizeStep
  <2>1. at = "finalize" /\ at' = "finalize" /\ Finalize
    BY <1>1 DEF FinalizeStep
  <2> QED BY <2>1, FinalizeTurns DEF ChoosingInv
<1>2. CASE LaunchCampaign
  <2>1. at = "finalize" /\ at' # "finalize" /\ UNCHANGED <<grammar, index>>
    BY <1>2 DEF LaunchCampaign, Forked
  <2>2. Complete' <=> Complete
    BY <2>1, CompleteStays
  <2>3. Complete => ChoiceInv'
    BY <1>2, <2>1, LaunchChooses DEF ChoosingInv
  <2> QED BY <2>1, <2>2, <2>3 DEF ChoosingInv
<1>3. CASE ~FinalizeStep /\ ~LaunchCampaign
  <2>1. /\ at # "finalize" /\ at' # "finalize"
        /\ UNCHANGED <<grammar, names, index, inline, origRoot>>
        /\ \/ scopes' = scopes \/ scopes' = <<mainRoot>>
           \/ scopes' = <<Root>> \/ scopes' = <<origRoot>>
        /\ mainRoot' = mainRoot \/ mainRoot' = Root
    <3> USE DEF gramRest, gramVars, genVars, loopVars, Built
    <3>1. CASE Relaunch
      BY <3>1 DEF Relaunch, Forked
    <3>2. CASE Create \/ BuildMutated \/ RunAndCrash \/ DumpEntry
      BY <3>2 DEF Create, BuildMutated, RunAndCrash, DumpEntry, StartBuild
    <3>3. CASE PickInput \/ KeepSnapshot \/ MutateSnapshot
      BY <3>3 DEF PickInput, KeepSnapshot, MutateSnapshot, Mutating
    <3>4. CASE RunQuietly \/ RunWithNews \/ StartDump
      BY <3>4 DEF RunQuietly, RunWithNews, StartDump
    <3> QED BY <1>3, <3>1, <3>2, <3>3, <3>4 DEF Next
  <2>2. Complete' <=> Complete
    BY <2>1, FineStays
  <2>3. Len(scopes) \in Nat \ {0}
    BY SeqFacts DEF GrammarInv, ScopesOK
  <2>4. Complete => ChoiceInv'
    BY <2>1, <2>3, OffChooses DEF ChoosingInv
  <2> QED BY <2>1, <2>2, <2>4 DEF ChoosingInv
<1> QED BY <1>1, <1>2, <1>3

LEMMA ChoosesInside ==
  ASSUME IInv, BuildInv, ChoosingInv, Build
  PROVE  ChoosingInv' /\ ChoicesAreDefined'
<1>1. /\ BuildStep /\ fault = "none" /\ at' = at /\ at = "build"
      /\ UNCHANGED <<grammar, names, index, inline, origRoot, mainRoot>>
      /\ fault' = fault \/ \E why \in Faults : Fail(why)
  BY StepsOrFails DEF Build, gramRest, loopVars
<1>2. /\ Complete' <=> Complete
      /\ OrsHaveItems' <=> OrsHaveItems
      /\ IndexesAreSet' <=> IndexesAreSet
  BY <1>1, CompleteStays
<1>3. CASE fault' = fault
  <2>1. Complete => ChoiceInv'
    BY <1>1, <1>3, BuildChooses DEF ChoosingInv, Ongoing
  <2> QED BY <1>1, <1>2, <1>3, <2>1, NoChoiceFails DEF ChoosingInv
<1>4. CASE fault' # fault
  <2>1. UNCHANGED <<gramVars, work, ctx, mainRoot, origRoot>>
    BY <1>1, <1>4 DEF Fail
  <2>2. Complete => ChoiceInv'
    BY <1>1, <2>1, NothingMoves DEF ChoosingInv
  <2>3. ChoicesAreDefined'
    <3>1. SomeRuleIsEmpty' <=> SomeRuleIsEmpty
      BY <2>1 DEF gramVars, SomeRuleIsEmpty, ValidRule
    <3>2. Complete /\ fault' = "no_items" => SomeRuleIsEmpty
      BY <1>1, NothingIsMissing DEF ChoosingInv, Ongoing
    <3> QED BY <1>2, <3>1, <3>2 DEF ChoicesAreDefined, Complete
  <2> QED BY <1>1, <1>2, <2>2, <2>3 DEF ChoosingInv
<1> QED BY <1>3, <1>4

LEMMA ChoosesOn ==
  ASSUME IInv, IInv', BuildInv, BuildInv', DefInv, ChoosingInv, ChoicesAreDefined, [Next]_vars
  PROVE  ChoosingInv' /\ ChoicesAreDefined'
<1>1. CASE UNCHANGED vars
  <2>1. UNCHANGED <<gramVars, work, ctx, mainRoot, origRoot, at, fault, grammar, index, names, scopes>>
    BY <1>1 DEF vars, gramVars, genVars, loopVars
  <2>2. /\ Complete' <=> Complete
        /\ OrsHaveItems' <=> OrsHaveItems
        /\ IndexesAreSet' <=> IndexesAreSet
    BY <2>1, CompleteStays
  <2>3. ChoosingInv'
    BY <2>1, <2>2, FinalizeRests, NothingMoves DEF ChoosingInv
  <2>4. SomeRuleIsEmpty' <=> SomeRuleIsEmpty
    BY <2>1 DEF SomeRuleIsEmpty, ValidRule
  <2> QED BY <2>1, <2>2, <2>3, <2>4 DEF ChoicesAreDefined
<1>2. CASE Next /\ ~Build
  <2>1. /\ at # "build" \/ work = <<>>
        /\ fault' = fault
        /\ at' # "build" \/ work' = <<[op |-> "top"]>>
    BY <1>2, OutsideBuilds
  <2>2. fault' = "none"
    BY <1>2, <2>1, OutsideBuilds DEF DefInv
  <2>3. work' = <<>> \/ work' = <<[op |-> "top"]>>
    BY <1>2, OutsideBuilds DEF IInv, StackInv
  <2>4. ctx'.posts = <<>>
    <3>1. work' = <<[op |-> "top"]>> => Top'.op = "top"
      BY DEF Top
    <3> QED BY <2>3, <3>1 DEF BuildInv, ChainInv, Idle
  <2>5. Unbuilt'
    BY <2>3, <2>4 DEF Unbuilt
  <2> QED BY <1>2, <2>2, <2>5, ChoosesOutside, NoChoiceFails DEF BuildInv
<1>3. CASE Build
  BY <1>3, ChoosesInside
<1> QED BY <1>1, <1>2, <1>3

\* Wherever a build chooses, there is something to choose from, unless the grammar
\* has an Or without items, a rule for values is empty or a pass never reached an
\* item: what Finalize leaves of every choice can be built, and a build, a
\* mutation, a crash or a dump never meets a rule it has not left (reach.cpp,
\* or.cpp:24-46, rule_man.cpp:158-174).
THEOREM ChoicesHaveItems == Spec => []ChoicesAreDefined
<1>1. Init => DefInv
  <2> SUFFICES ASSUME Init PROVE DefInv
    OBVIOUS
  <2>1. IInv /\ BuildInv /\ fault = "none" /\ work = <<>> /\ gone = {}
    BY InitInv, InitBuildInv DEF Init, GenInit
  <2> QED BY <2>1, RestIsSteady DEF DefInv, BuildsAreDefined
<1>2. Init => ChoosingInv /\ ChoicesAreDefined
  <2> SUFFICES ASSUME Init PROVE ChoosingInv /\ ChoicesAreDefined
    OBVIOUS
  <2>1. at = "finalize" /\ fault = "none" /\ FinInv
    BY InitTurns DEF Init, GenInit
  <2> QED BY <2>1 DEF ChoosingInv, ChoicesAreDefined
<1>3. IInv /\ IInv' /\ BuildInv /\ BuildInv' /\ DefInv /\ [Next]_vars => DefInv'
  BY DefInvKeeps
<1>4. IInv /\ IInv' /\ BuildInv /\ BuildInv' /\ DefInv /\ ChoosingInv /\ ChoicesAreDefined /\ [Next]_vars
        => ChoosingInv' /\ ChoicesAreDefined'
  BY ChoosesOn
<1> QED BY <1>1, <1>2, <1>3, <1>4, BuildsInOrder, PTL DEF Spec
=============================================================================
