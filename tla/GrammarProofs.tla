---------------------------- MODULE GrammarProofs ---------------------------
(***************************************************************************)
(* The items of a grammar and the rules at every scope, for every grammar: *)
(* what a build reads of them has the types that it expects, and what the  *)
(* passes of Finalize have been through once nothing changes any more.     *)
(***************************************************************************)
EXTENDS ReplayProofs

-----------------------------------------------------------------------------
(* The items below an item.                                                *)

KidsOf(n) == ToSet(Item[n].kids)
Closed(S) == \A n \in S : KidsOf(n) \subseteq S

LEMMA KidsAreNodes ==
  ASSUME NEW n \in Nodes
  PROVE  KidsOf(n) \subseteq Nodes /\ \A k \in KidsOf(n) : Height[k] < Height[n]
<1>1. Item[n].kids \in Seq(Nodes) /\ \A k \in DOMAIN Item[n].kids : Height[Item[n].kids[k]] < Height[n]
  BY GrammarAssumption
<1> QED BY <1>1 DEF KidsOf, ToSet

\* The recursive definition has a solution: the least closed sets.
LEMMA BelowIs ==
  \A n \in Nodes : Below[n] = {n} \cup UNION {Below[k] : k \in KidsOf(n)}
<1> DEFINE B == [n \in Nodes |->
                   {m \in Nodes : \A S \in SUBSET Nodes : n \in S /\ Closed(S) => m \in S}]
<1>1. ASSUME NEW n \in Nodes
      PROVE  B[n] = {n} \cup UNION {B[k] : k \in KidsOf(n)}
  <2> DEFINE T == {n} \cup UNION {B[k] : k \in KidsOf(n)}
  <2>1. \A k \in Nodes : k \in B[k]
    OBVIOUS
  <2>2. ASSUME NEW m \in T
        PROVE  m \in B[n]
    <3>1. CASE m = n
      BY <3>1, <2>1
    <3>2. CASE m # n
      <4>1. PICK k \in KidsOf(n) : m \in B[k]
        BY <2>2, <3>2
      <4>2. k \in Nodes
        BY KidsAreNodes
      <4>3. ASSUME NEW S \in SUBSET Nodes, n \in S, Closed(S)
            PROVE  m \in S
        <5>1. k \in S
          BY <4>3 DEF Closed
        <5> QED BY <4>1, <4>2, <4>3, <5>1
      <4> QED BY <4>1, <4>2, <4>3
    <3> QED BY <3>1, <3>2
  <2>3. T \subseteq Nodes
    BY KidsAreNodes
  <2>4. ASSUME NEW m \in T, NEW k \in KidsOf(m)
        PROVE  k \in T
    <3>1. k \in Nodes /\ m \in Nodes
      BY <2>3, <2>4, KidsAreNodes
    <3>2. CASE m = n
      BY <3>1, <3>2, <2>1, <2>4
    <3>3. CASE m # n
      <4>1. PICK j \in KidsOf(n) : m \in B[j]
        BY <2>4, <3>3
      <4>2. j \in Nodes
        BY KidsAreNodes
      <4>3. ASSUME NEW S \in SUBSET Nodes, j \in S, Closed(S)
            PROVE  k \in S
        BY <4>1, <4>2, <4>3, <2>4 DEF Closed
      <4>4. k \in B[j]
        BY <3>1, <4>2, <4>3
      <4> QED BY <4>1, <4>4
    <3> QED BY <3>2, <3>3
  <2>5. Closed(T) /\ n \in T
    BY <2>4 DEF Closed
  <2>6. ASSUME NEW m \in B[n]
        PROVE  m \in T
    <3> HIDE DEF T
    <3> QED BY <2>3, <2>5, <2>6
  <2> QED BY <2>2, <2>6
<1> HIDE DEF B
<1>2. B = [n \in Nodes |-> {n} \cup UNION {B[k] : k \in ToSet(Item[n].kids)}]
  <2>1. B = [n \in Nodes |-> B[n]]
    BY DEF B
  <2> QED BY <1>1, <2>1 DEF KidsOf
<1>3. \E F : F = [n \in Nodes |-> {n} \cup UNION {F[k] : k \in ToSet(Item[n].kids)}]
  BY <1>2
<1>4. Below = [n \in Nodes |-> {n} \cup UNION {Below[k] : k \in ToSet(Item[n].kids)}]
  BY <1>3 DEF Below
<1> QED BY <1>4 DEF KidsOf

LEMMA BelowIsClosed ==
  \A n \in Nodes : n \in Below[n] /\ Below[n] \subseteq Nodes /\ Closed(Below[n])
<1> DEFINE P(n) == Below[n] \subseteq Nodes /\ Closed(Below[n])
           S == {h \in Nat : \E n \in Nodes : h = Height[n] /\ ~P(n)}
<1>1. \A n \in Nodes : n \in Below[n]
  BY BelowIs
<1>2. ASSUME NEW n \in Nodes, \A k \in KidsOf(n) : P(k)
      PROVE  P(n)
  <2>1. KidsOf(n) \subseteq Nodes
    BY KidsAreNodes
  <2>2. Below[n] = {n} \cup UNION {Below[k] : k \in KidsOf(n)}
    BY BelowIs
  <2>3. Below[n] \subseteq Nodes
    BY <1>2, <2>2
  <2>4. ASSUME NEW m \in Below[n], NEW k \in KidsOf(m)
        PROVE  k \in Below[n]
    <3>1. CASE m = n
      BY <3>1, <2>1, <2>2, <2>4, <1>1
    <3>2. CASE m # n
      <4>1. PICK j \in KidsOf(n) : m \in Below[j]
        BY <2>2, <2>4, <3>2
      <4>2. k \in Below[j]
        BY <4>1, <1>2, <2>4 DEF Closed
      <4> QED BY <4>1, <4>2, <2>2
    <3> QED BY <3>1, <3>2
  <2> QED BY <2>3, <2>4 DEF Closed
<1> HIDE DEF P
<1>3. ASSUME NEW n \in Nodes, ~P(n)
      PROVE  FALSE
  <2>1. Height \in [Nodes -> Nat]
    BY GrammarAssumption
  <2>2. S \in SUBSET Nat /\ S # {}
    BY <1>3, <2>1
  <2>3. MinIn(S) \in S /\ \A y \in S : MinIn(S) <= y
    <3> HIDE DEF S
    <3> QED BY <2>2, Least
  <2>4. PICK m \in Nodes : MinIn(S) = Height[m] /\ ~P(m)
    BY <2>3
  <2>5. ASSUME NEW k \in KidsOf(m)
        PROVE  P(k)
    <3>1. k \in Nodes /\ Height[k] < Height[m]
      BY KidsAreNodes
    <3>2. ~ (MinIn(S) <= Height[k])
      BY <2>1, <2>4, <3>1
    <3>3. Height[k] \notin S
      BY <2>3, <3>2
    <3> QED BY <2>1, <3>1, <3>3
  <2> QED BY <2>4, <2>5, <1>2
<1> QED BY <1>1, <1>3 DEF P

LEMMA GrammarIsSeq == grammar \in Grammars => AnySeq(grammar)
<1> DEFINE C == [name: Names, node: Nodes]
<1>1. grammar \in Grammars => grammar \in Seq(C)
  BY GrammarAssumption
<1> HIDE DEF C
<1> QED BY <1>1 DEF AnySeq

\* The items of a grammar are among the nodes and contain their items.
LEMMA UsedIsClosed ==
  ASSUME grammar \in Grammars
  PROVE  /\ Used \subseteq Nodes /\ Closed(Used) /\ NoNode \notin Used
         /\ \A i \in 1..Len(grammar) : grammar[i].node \in Used
<1>1. /\ grammar \in Seq([name: Names, node: Nodes])
      /\ Used = UNION {Below[call.node] : call \in ToSet(grammar)}
  BY GrammarAssumption DEF Used, Items
<1>2. \A call \in ToSet(grammar) : call.node \in Nodes
  <2> DEFINE C == [name: Names, node: Nodes]
  <2>1. \A call \in C : call.node \in Nodes
    OBVIOUS
  <2>2. grammar \in Seq(C)
    BY <1>1
  <2> HIDE DEF C
  <2>3. \A i \in DOMAIN grammar : grammar[i] \in C
    BY <2>2
  <2> QED BY <2>1, <2>3 DEF ToSet
<1>3. Used \subseteq Nodes
  BY <1>1, <1>2, BelowIsClosed
<1>4. Closed(Used)
  <2> SUFFICES ASSUME NEW n \in Used, NEW k \in KidsOf(n) PROVE k \in Used
    BY DEF Closed
  <2>1. PICK call \in ToSet(grammar) : n \in Below[call.node]
    BY <1>1
  <2>2. k \in Below[call.node]
    BY <2>1, <1>2, BelowIsClosed DEF Closed
  <2> QED BY <1>1, <2>2
<1>5. ASSUME NEW i \in 1..Len(grammar)
      PROVE  grammar[i].node \in Used
  <2>1. grammar[i] \in ToSet(grammar)
    BY <1>1 DEF ToSet
  <2>2. grammar[i].node \in Below[grammar[i].node]
    BY <2>1, <1>2, BelowIsClosed
  <2> QED BY <1>1, <2>1, <2>2
<1> QED BY <1>3, <1>4, <1>5, GrammarAssumption

LEMMA KidIsUsed ==
  ASSUME grammar \in Grammars, NEW n \in Used
  PROVE  /\ n \in Nodes /\ Item[n].kids \in Seq(Used)
         /\ Item[n].kind \in Wrappers => Item[n].kids[1] \in Used
<1>1. n \in Nodes /\ KidsOf(n) \subseteq Used
  BY UsedIsClosed DEF Closed
<1>2. Item[n].kids \in Seq(Nodes) /\ (Item[n].kind \in Wrappers => Len(Item[n].kids) = 1)
  BY <1>1, GrammarAssumption
<1>3. \A i \in 1..Len(Item[n].kids) : Item[n].kids[i] \in Used
  BY <1>1, <1>2 DEF KidsOf, ToSet
<1>4. Item[n].kids \in Seq(Used)
  BY <1>2, <1>3
<1> QED BY <1>1, <1>2, <1>3, <1>4

-----------------------------------------------------------------------------
(* Rules.                                                                  *)

Entry(U) == [node: U \cup {NoNode}, text: Texts]
RuleOK(U, r) ==
  /\ r = [live |-> r.live, keep |-> r.keep, items |-> r.items, choice |-> r.choice,
          shortest |-> r.shortest]
  /\ r.items \in Seq(Entry(U))
RuleList(U, rs) == AnySeq(rs) /\ \A i \in 1..Len(rs) : RuleOK(U, rs[i])

LEMMA NewRules ==
  ASSUME NEW U, NEW live, NEW keep
  PROVE  RuleOK(U, Or(live, keep)) /\ RuleOK(U, NoRule) /\ RuleOK(U, NewOr) /\ RuleList(U, <<>>)
<1>1. RuleOK(U, Or(live, keep)) /\ RuleOK(U, Or(FALSE, FALSE)) /\ RuleOK(U, Or(TRUE, FALSE))
  BY DEF RuleOK, Or
<1>2. RuleList(U, <<>>)
  BY NoItems DEF RuleList
<1> QED BY <1>1, <1>2 DEF NoRule, NewOr

\* What becomes of a rule's choices and flags does not matter here.
LEMMA SameItems ==
  ASSUME NEW U, NEW r, RuleOK(U, r), NEW x
  PROVE  /\ RuleOK(U, [r EXCEPT !.keep = x]) /\ RuleOK(U, [r EXCEPT !.choice = x])
         /\ RuleOK(U, [r EXCEPT !.shortest = x])
<1> DEFINE R(live, keep, items, choice, shortest) ==
             [live |-> live, keep |-> keep, items |-> items, choice |-> choice, shortest |-> shortest]
<1>1. \A live, keep, items, choice, shortest :
        items \in Seq(Entry(U)) => RuleOK(U, R(live, keep, items, choice, shortest))
  BY DEF RuleOK
<1>2. /\ [r EXCEPT !.keep = x] = R(r.live, x, r.items, r.choice, r.shortest)
      /\ [r EXCEPT !.choice = x] = R(r.live, r.keep, r.items, x, r.shortest)
      /\ [r EXCEPT !.shortest = x] = R(r.live, r.keep, r.items, r.choice, x)
  BY DEF RuleOK
<1>3. r.items \in Seq(Entry(U))
  BY DEF RuleOK
<1> HIDE DEF R
<1> QED BY <1>1, <1>2, <1>3

LEMMA MoreItems ==
  ASSUME NEW U, NEW r, RuleOK(U, r), NEW x \in Entry(U)
  PROVE  RuleOK(U, [r EXCEPT !.items = Append(@, x)])
<1>1. [r EXCEPT !.items = Append(@, x)] =
        [live |-> r.live, keep |-> r.keep, items |-> Append(r.items, x), choice |-> r.choice,
         shortest |-> r.shortest]
  BY DEF RuleOK
<1>2. Append(r.items, x) \in Seq(Entry(U))
  <2>1. r.items \in Seq(Entry(U))
    BY DEF RuleOK
  <2> DEFINE E == Entry(U)
  <2> HIDE DEF E
  <2>2. x \in E /\ r.items \in Seq(E)
    BY <2>1 DEF E
  <2>3. Append(r.items, x) \in Seq(E)
    BY <2>2
  <2> QED BY <2>3 DEF E
<1> QED BY <1>1, <1>2 DEF RuleOK

LEMMA ReplacedRule ==
  ASSUME NEW U, NEW rs, RuleList(U, rs), NEW i, NEW x, i \in 1..Len(rs) => RuleOK(U, x)
  PROVE  RuleList(U, [rs EXCEPT ![i] = x])
<1>1. PICK S : rs \in Seq(S)
  BY DEF RuleList, AnySeq
<1> DEFINE t == [rs EXCEPT ![i] = x]
<1>2. t = [k \in 1..Len(rs) |-> IF k = i THEN x ELSE rs[k]] /\ Len(rs) \in Nat
  BY <1>1
<1> HIDE DEF t
<1>3. t \in Seq(S \cup {x}) /\ Len(t) = Len(rs)
  BY <1>1, <1>2
<1>4. \A k \in 1..Len(rs) : t[k] = IF k = i THEN x ELSE rs[k]
  BY <1>2
<1> QED BY <1>3, <1>4 DEF RuleList, AnySeq, t

LEMMA MoreRules ==
  ASSUME NEW U, NEW rs, RuleList(U, rs), NEW x, RuleOK(U, x)
  PROVE  RuleList(U, Append(rs, x))
<1> DEFINE t == Append(rs, x)
<1>1. /\ AnySeq(t) /\ Len(rs) \in Nat /\ Len(t) = Len(rs) + 1
      /\ \A i \in 1..Len(rs) : t[i] = rs[i]
      /\ t[Len(rs) + 1] = x
  BY Appended DEF RuleList
<1> HIDE DEF t
<1>2. \A k \in 1..Len(t) : k \in 1..Len(rs) \/ k = Len(rs) + 1
  BY <1>1
<1>3. \A k \in 1..Len(t) : RuleOK(U, t[k])
  BY <1>1, <1>2 DEF RuleList
<1> QED BY <1>1, <1>3 DEF RuleList, t

LEMMA IndexIs ==
  ASSUME NEW ns, AnySeq(ns), NEW name
  PROVE  IndexOf(ns, name) \in 0..Len(ns) /\ (name \in ToSet(ns) => IndexOf(ns, name) \in 1..Len(ns))
<1>1. Len(ns) \in Nat /\ DOMAIN ns = 1..Len(ns)
  BY SeqFacts
<1>2. CASE name \in ToSet(ns)
  <2>1. \E i \in 1..Len(ns) : ns[i] = name
    BY <1>1, <1>2 DEF ToSet
  <2>2. IndexOf(ns, name) = CHOOSE i \in 1..Len(ns) : ns[i] = name
    BY <1>2 DEF IndexOf
  <2> QED BY <1>1, <2>1, <2>2
<1>3. CASE name \notin ToSet(ns)
  BY <1>1, <1>3 DEF IndexOf
<1> QED BY <1>2, <1>3

LEMMA EnsuredRule ==
  ASSUME NEW U, NEW ns, AnySeq(ns), NEW rs, RuleList(U, rs), NEW name,
         NEW e, e = Ensured([names |-> ns, rules |-> rs], name)
  PROVE  /\ AnySeq(e.names) /\ RuleList(U, e.rules) /\ e = [names |-> e.names, rules |-> e.rules]
         /\ Len(e.names) \in Nat /\ Len(ns) <= Len(e.names)
         /\ IndexOf(e.names, name) \in 1..Len(e.names)
<1> DEFINE i == IndexOf(ns, name)
           more == Append(ns, name)
<1>1. CASE i = 0
  <2>1. e = [names |-> more, rules |-> Append(rs, NewOr)]
    BY <1>1 DEF Ensured
  <2>2. /\ AnySeq(more) /\ Len(ns) \in Nat /\ Len(more) = Len(ns) + 1
        /\ more[Len(ns) + 1] = name
    BY Appended
  <2> HIDE DEF more
  <2>3. name \in ToSet(more)
    BY <2>2, SeqFacts DEF ToSet
  <2>4. IndexOf(more, name) \in 1..Len(more)
    BY <2>2, <2>3, IndexIs
  <2>5. PICK list : list = Append(rs, NewOr) /\ RuleList(U, list)
    BY NewRules, MoreRules
  <2>6. e = [names |-> more, rules |-> list]
    BY <2>1, <2>5
  <2>7. Len(ns) <= Len(more)
    BY <2>2
  <2>8. e.names = more /\ e.rules = list /\ e = [names |-> e.names, rules |-> e.rules]
    BY <2>6
  <2>9. Len(more) \in Nat
    BY <2>2
  <2> QED BY <2>2, <2>4, <2>5, <2>7, <2>8, <2>9
<1>2. CASE i # 0
  <2>1. PICK list : e = [names |-> ns, rules |-> list] /\ RuleList(U, list)
    <3>1. CASE rs[i].live
      BY <1>2, <3>1 DEF Ensured
    <3>2. CASE ~rs[i].live
      <4>1. e = [names |-> ns, rules |-> [rs EXCEPT ![i] = NewOr]]
        BY <1>2, <3>2 DEF Ensured
      <4>2. RuleList(U, [rs EXCEPT ![i] = NewOr])
        BY NewRules, ReplacedRule
      <4> QED BY <4>1, <4>2
    <3> QED BY <3>1, <3>2
  <2>2. i \in 1..Len(ns) /\ Len(ns) \in Nat
    BY <1>2, IndexIs, SeqFacts
  <2> QED BY <2>1, <2>2
<1> QED BY <1>1, <1>2

LEMMA AddedRuleOK ==
  ASSUME NEW U, NEW ns, AnySeq(ns), NEW rs, RuleList(U, rs), NEW call, call.node \in U,
         NEW e, e = AddedRule([names |-> ns, rules |-> rs], call)
  PROVE  /\ AnySeq(e.names) /\ RuleList(U, e.rules)
         /\ Len(e.names) \in Nat /\ Len(ns) <= Len(e.names)
<1> DEFINE m == Ensured([names |-> ns, rules |-> rs], call.name)
           i == IndexOf(m.names, call.name)
           x == [m.rules[i] EXCEPT !.items = Append(@, StaticEntry(call.node))]
<1>1. e = [m EXCEPT !.rules[i].items = Append(@, StaticEntry(call.node))]
  BY DEF AddedRule
<1>2. /\ AnySeq(m.names) /\ RuleList(U, m.rules) /\ m = [names |-> m.names, rules |-> m.rules]
      /\ Len(m.names) \in Nat /\ Len(ns) <= Len(m.names)
  <2> DEFINE name == call.name
  <2> HIDE DEF name
  <2>1. \A z : z = Ensured([names |-> ns, rules |-> rs], name) =>
          /\ AnySeq(z.names) /\ RuleList(U, z.rules) /\ z = [names |-> z.names, rules |-> z.rules]
          /\ Len(z.names) \in Nat /\ Len(ns) <= Len(z.names)
    BY EnsuredRule
  <2> QED BY <2>1 DEF name
<1> HIDE DEF m, i
<1>3. StaticEntry(call.node) \in Entry(U)
  <2>1. <<>> \in Texts
    BY DEF Texts
  <2> QED BY <2>1 DEF StaticEntry, Entry
<1>4. i \in 1..Len(m.rules) => RuleOK(U, x)
  BY <1>2, <1>3, MoreItems DEF RuleList
<1>5. e = [names |-> m.names, rules |-> [m.rules EXCEPT ![i] = x]]
  BY <1>1, <1>2
<1> HIDE DEF x
<1>6. RuleList(U, [m.rules EXCEPT ![i] = x])
  BY <1>2, <1>4, ReplacedRule
<1> QED BY <1>2, <1>5, <1>6

LEMMA PrunedRules ==
  ASSUME NEW U, NEW rs, RuleList(U, rs), NEW S
  PROVE  RuleList(U, Pruned(rs, S))
<1>1. PICK T : rs \in Seq(T)
  BY DEF RuleList, AnySeq
<1> DEFINE t == Pruned(rs, S)
<1>2. t = [k \in 1..Len(rs) |-> IF k \in S THEN NoRule ELSE rs[k]] /\ Len(rs) \in Nat
  BY <1>1 DEF Pruned
<1> HIDE DEF t
<1>3. t \in Seq(T \cup {NoRule}) /\ Len(t) = Len(rs)
  BY <1>1, <1>2
<1>4. \A k \in 1..Len(t) : RuleOK(U, t[k])
  BY <1>2, <1>3, NewRules DEF RuleList
<1> QED BY <1>3, <1>4 DEF RuleList, AnySeq, t

ScopesOK(U, ss) == AnySeq(ss) /\ Len(ss) >= 1 /\ \A s \in 1..Len(ss) : RuleList(U, ss[s])

LEMMA OneScope ==
  ASSUME NEW U, NEW rs, RuleList(U, rs)
  PROVE  ScopesOK(U, <<rs>>) /\ Len(<<rs>>) = 1
<1>1. AnySeq(<<rs>>)
  BY ShortSeq
<1>2. Len(<<rs>>) = 1 /\ \A s \in 1..1 : <<rs>>[s] = rs
  OBVIOUS
<1> QED BY <1>1, <1>2 DEF ScopesOK

LEMMA ReplacedOnly ==
  ASSUME NEW ss, AnySeq(ss), Len(ss) = 1, NEW x
  PROVE  [ss EXCEPT ![1] = x] = <<x>>
BY DEF AnySeq

LEMMA ReplacedScope ==
  ASSUME NEW U, NEW ss, ScopesOK(U, ss), NEW s, NEW x, s \in 1..Len(ss) => RuleList(U, x)
  PROVE  ScopesOK(U, [ss EXCEPT ![s] = x]) /\ Len([ss EXCEPT ![s] = x]) = Len(ss)
<1>1. PICK S : ss \in Seq(S)
  BY DEF ScopesOK, AnySeq
<1> DEFINE t == [ss EXCEPT ![s] = x]
<1>2. t = [k \in 1..Len(ss) |-> IF k = s THEN x ELSE ss[k]] /\ Len(ss) \in Nat
  BY <1>1
<1> HIDE DEF t
<1>3. t \in Seq(S \cup {x}) /\ Len(t) = Len(ss)
  BY <1>1, <1>2
<1>4. \A k \in 1..Len(ss) : t[k] = IF k = s THEN x ELSE ss[k]
  BY <1>2
<1> QED BY <1>3, <1>4 DEF ScopesOK, AnySeq, t

-----------------------------------------------------------------------------
(* Finalize.                                                               *)

Indexed == index \in [NameNodes -> {-1} \cup 1..Len(names)]

GrammarInv ==
  /\ grammar \in Grammars /\ "at" \in DOMAIN fin /\ fin.at \in Nat \ {0}
  /\ AnySeq(names) /\ Indexed
  /\ ScopesOK(Used, scopes) /\ (at = "finalize" => Len(scopes) = 1)
  /\ RuleList(Used, mainRoot) /\ RuleList(Used, origRoot)

LEMMA GrammarKept ==
  ASSUME GrammarInv, UNCHANGED <<grammar, fin, names, index>>, ScopesOK(Used, scopes'),
         at' = "finalize" => Len(scopes') = 1, RuleList(Used, mainRoot'), RuleList(Used, origRoot')
  PROVE  GrammarInv'
<1>1. Used' = Used
  BY DEF Used
<1> QED BY <1>1 DEF GrammarInv, Indexed

LEMMA GrammarGrown ==
  ASSUME GrammarInv, UNCHANGED <<grammar, mainRoot, origRoot>>,
         "at" \in DOMAIN fin', fin'.at \in Nat \ {0}, AnySeq(names'), Indexed',
         scopes' = scopes \/ \E rs : scopes' = <<rs>> /\ RuleList(Used, rs),
         at' = at
  PROVE  GrammarInv'
<1>1. Used' = Used
  BY DEF Used
<1>2. ScopesOK(Used, scopes') /\ (at' = "finalize" => Len(scopes') = 1)
  BY OneScope DEF GrammarInv
<1> QED BY <1>1, <1>2 DEF GrammarInv

LEMMA RootIsOK == GrammarInv => RuleList(Used, Root)
<1> SUFFICES ASSUME GrammarInv PROVE RuleList(Used, Root)
  OBVIOUS
<1>1. 1 \in 1..Len(scopes)
  BY SeqFacts DEF GrammarInv, ScopesOK
<1> QED BY <1>1 DEF GrammarInv, ScopesOK, Root

LEMMA AddRuleKeeps == ASSUME GrammarInv, AddRule, at' = at, UNCHANGED <<mainRoot, origRoot>> PROVE GrammarInv'
<1>1. CASE fin.at > Len(grammar)
  <2>1. /\ UNCHANGED <<grammar, names, index, scopes>>
        /\ fin' = [fin EXCEPT !.pass = "reach", !.at = 1]
    BY <1>1 DEF AddRule
  <2>2. "at" \in DOMAIN fin' /\ fin'.at \in Nat \ {0}
    BY <2>1 DEF GrammarInv
  <2>3. AnySeq(names') /\ Indexed'
    BY <2>1 DEF GrammarInv, Indexed
  <2> QED BY <2>1, <2>2, <2>3, GrammarGrown
<1>2. CASE ~ (fin.at > Len(grammar))
  <2> DEFINE r == AddedRule([names |-> names, rules |-> Root], grammar[fin.at])
  <2>1. /\ UNCHANGED <<grammar, index>> /\ names' = r.names /\ scopes' = <<r.rules>>
        /\ fin' = [fin EXCEPT !.at = @ + 1]
    BY <1>2 DEF AddRule
  <2>2. fin.at \in 1..Len(grammar)
    <3>1. Len(grammar) \in Nat
      BY GrammarIsSeq, SeqFacts DEF GrammarInv
    <3> QED BY <3>1, <1>2 DEF GrammarInv
  <2>3. grammar[fin.at].node \in Used
    BY <2>2, UsedIsClosed DEF GrammarInv
  <2>4. AnySeq(r.names) /\ RuleList(Used, r.rules) /\ Len(r.names) \in Nat /\ Len(names) <= Len(r.names)
    <3>1. AnySeq(names) /\ RuleList(Used, Root)
      BY RootIsOK DEF GrammarInv
    <3> DEFINE call == grammar[fin.at]
    <3> HIDE DEF call
    <3>2. \A e : e = AddedRule([names |-> names, rules |-> Root], call) =>
            /\ AnySeq(e.names) /\ RuleList(Used, e.rules)
            /\ Len(e.names) \in Nat /\ Len(names) <= Len(e.names)
      BY <2>3, <3>1, AddedRuleOK DEF call
    <3> QED BY <3>2 DEF call
  <2> HIDE DEF r
  <2>5. "at" \in DOMAIN fin' /\ fin'.at \in Nat \ {0}
    BY <2>1 DEF GrammarInv
  <2>6. AnySeq(names') /\ Indexed'
    <3>1. Len(names) \in Nat
      BY SeqFacts DEF GrammarInv
    <3>2. {-1} \cup 1..Len(names) \subseteq {-1} \cup 1..Len(names')
      BY <2>1, <2>4, <3>1
    <3> QED BY <2>1, <2>4, <3>2 DEF GrammarInv, Indexed
  <2> QED BY <2>1, <2>4, <2>5, <2>6, GrammarGrown
<1> QED BY <1>1, <1>2

LEMMA ReachItemKeeps ==
  ASSUME GrammarInv, ReachItem, at' = at, UNCHANGED <<mainRoot, origRoot>>
  PROVE  GrammarInv'
<1> DEFINE n == VisitItems(Head(visits))[Head(visits).at]
           name == Item[n].name
           e == Ensured([names |-> names, rules |-> Root], name)
           i == IndexOf(e.names, name)
           kept == [e.rules EXCEPT ![i].keep = TRUE]
<1>1. /\ grammar' = grammar
      /\ \/ UNCHANGED <<names, scopes, index, fin>>
         \/ /\ names' = e.names /\ scopes' = <<kept>> /\ index' = [index EXCEPT ![n] = i]
            /\ fin' = [fin EXCEPT !.changes = @ \/ e.names # names]
  BY DEF ReachItem
<1>2. CASE UNCHANGED <<names, scopes, index, fin>>
  BY <1>1, <1>2, GrammarGrown DEF GrammarInv, Indexed
<1>3. CASE ~UNCHANGED <<names, scopes, index, fin>>
  <2>1. /\ names' = e.names /\ scopes' = <<kept>> /\ index' = [index EXCEPT ![n] = i]
        /\ fin' = [fin EXCEPT !.changes = @ \/ e.names # names]
    BY <1>1, <1>3
  <2> HIDE DEF n, name
  <2>2. AnySeq(names) /\ RuleList(Used, Root)
    BY RootIsOK DEF GrammarInv
  <2>3. \A z : z = Ensured([names |-> names, rules |-> Root], name) =>
          /\ AnySeq(z.names) /\ RuleList(Used, z.rules)
          /\ Len(z.names) \in Nat /\ Len(names) <= Len(z.names)
          /\ IndexOf(z.names, name) \in 1..Len(z.names)
    BY <2>2, EnsuredRule
  <2>4. /\ AnySeq(e.names) /\ RuleList(Used, e.rules) /\ Len(e.names) \in Nat
        /\ Len(names) <= Len(e.names) /\ i \in 1..Len(e.names)
    BY <2>3
  <2> HIDE DEF e, i
  <2>5. RuleList(Used, kept)
    <3> DEFINE x == [e.rules[i] EXCEPT !.keep = TRUE]
    <3>1. i \in 1..Len(e.rules) => RuleOK(Used, x)
      BY <2>4, SameItems DEF RuleList
    <3>2. kept = [e.rules EXCEPT ![i] = x]
      OBVIOUS
    <3> HIDE DEF x
    <3> QED BY <2>4, <3>1, <3>2, ReplacedRule
  <2> HIDE DEF kept
  <2>6. "at" \in DOMAIN fin' /\ fin'.at \in Nat \ {0}
    BY <2>1 DEF GrammarInv
  <2>7. AnySeq(names') /\ Indexed'
    <3>1. Len(names) \in Nat
      BY SeqFacts DEF GrammarInv
    <3>2. {-1} \cup 1..Len(names) \subseteq {-1} \cup 1..Len(names') /\ i \in 1..Len(names')
      BY <2>1, <2>4, <3>1
    <3> QED BY <2>1, <2>4, <3>2 DEF GrammarInv, Indexed
  <2> QED BY <1>1, <2>1, <2>5, <2>6, <2>7, GrammarGrown
<1> QED BY <1>2, <1>3

LEMMA ReachReturnKeeps ==
  ASSUME GrammarInv, ReachReturn, at' = at, UNCHANGED <<mainRoot, origRoot>>
  PROVE  GrammarInv'
<1> DEFINE n == Head(visits).node
           i == IndexOf(names, Item[n].name)
<1>1. /\ UNCHANGED <<grammar, names, scopes, fin>>
      /\ \/ index' = index
         \/ i # 0 /\ index' = [index EXCEPT ![n] = i]
  <2> DEFINE call == Head(visits)
  <2>1. /\ UNCHANGED <<grammar, names, scopes, fin>>
        /\ \/ index' = index
           \/ Item[n].kind \in RefKinds /\ Verdict(call) /\ index' = [index EXCEPT ![n] = i]
    BY DEF ReachReturn
  <2>2. ASSUME Item[n].kind \in RefKinds, Verdict(call)
        PROVE  i # 0
    <3> HIDE DEF call
    <3>1. call.node = n
      BY DEF call
    <3> QED BY <2>2, <3>1 DEF Verdict, RefKinds
  <2> QED BY <2>1, <2>2
<1>2. i \in 0..Len(names) /\ Len(names) \in Nat
  BY IndexIs, SeqFacts DEF GrammarInv
<1> HIDE DEF n, i
<1>3. Indexed'
  BY <1>1, <1>2 DEF GrammarInv, Indexed
<1> QED BY <1>1, <1>3, GrammarGrown DEF GrammarInv

\* The steps that change one rule, or prune some.
LEMMA RootKeeps ==
  ASSUME GrammarInv, ReachRule \/ ReachRuleEnd \/ ReachEnd \/ DepthEnd, at' = at,
         UNCHANGED <<mainRoot, origRoot>>
  PROVE  GrammarInv'
<1>1. /\ UNCHANGED <<grammar, names, index>>
      /\ \/ scopes' = scopes
         \/ \E S : scopes' = <<Pruned(Root, S)>>
         \/ \E i, choice : scopes' = <<[Root EXCEPT ![i].choice = choice]>>
  BY DEF ReachRule, ReachRuleEnd, ReachEnd, DepthEnd
<1>2. "at" \in DOMAIN fin' /\ fin'.at \in Nat \ {0}
  <2>1. "at" \in DOMAIN fin /\ fin.at \in Nat \ {0}
    BY DEF GrammarInv
  <2>2. CASE ReachRule
    BY <2>1, <2>2 DEF ReachRule
  <2>3. CASE ReachRuleEnd
    BY <2>1, <2>3 DEF ReachRuleEnd
  <2>4. CASE ReachEnd
    BY <2>1, <2>4 DEF ReachEnd
  <2>5. CASE DepthEnd
    <3>1. \/ fin' = [fin EXCEPT !.at = 1, !.changed = FALSE, !.toPrune = {}]
          \/ \E pass : fin' = [fin EXCEPT !.pass = pass, !.at = 1, !.changes = FALSE, !.toPrune = {}]
      BY <2>5 DEF DepthEnd
    <3>2. DOMAIN fin' = DOMAIN fin /\ ("at" \in DOMAIN fin => fin'.at = 1)
      BY <3>1
    <3> QED BY <2>1, <3>2
  <2> QED BY <2>2, <2>3, <2>4, <2>5
<1>3. AnySeq(names') /\ Indexed'
  BY <1>1 DEF GrammarInv, Indexed
<1>4. PICK rs : scopes' = scopes \/ (scopes' = <<rs>> /\ RuleList(Used, rs))
  <2>1. ASSUME NEW i, NEW choice
        PROVE  RuleList(Used, [Root EXCEPT ![i].choice = choice])
    <3> DEFINE x == [Root[i] EXCEPT !.choice = choice]
    <3>1. i \in 1..Len(Root) => RuleOK(Used, x)
      BY RootIsOK, SameItems DEF RuleList
    <3>2. [Root EXCEPT ![i].choice = choice] = [Root EXCEPT ![i] = x]
      OBVIOUS
    <3> HIDE DEF x
    <3> QED BY <3>1, <3>2, RootIsOK, ReplacedRule
  <2> QED BY <1>1, <2>1, RootIsOK, PrunedRules
<1> QED BY <1>1, <1>2, <1>3, <1>4, GrammarGrown

LEMMA DepthRuleKeeps ==
  ASSUME GrammarInv, DepthRule, at = "finalize", at' = at, UNCHANGED <<mainRoot, origRoot>>
  PROVE  GrammarInv'
<1>1. /\ UNCHANGED <<grammar, names, index>>
      /\ \/ scopes' = scopes
         \/ \E i, shortest : scopes' = [scopes EXCEPT ![1][i].shortest = shortest]
  BY DEF DepthRule
<1>2. "at" \in DOMAIN fin' /\ fin'.at \in Nat \ {0}
  <2>1. "at" \in DOMAIN fin /\ fin.at \in Nat \ {0}
    BY DEF GrammarInv
  <2> DEFINE i == fin.at
             or == Root[i]
             kids == RootItems(i)
             shortest == IF or.keep THEN or.shortest ELSE ShortestOf(or.choice, kids, View)
             depth == IF or.keep THEN 0
                      ELSE MinIn({Inf} \cup {CalcRefDepth(kids[j], View) : j \in ToSet(or.choice)})
             changed == fin.changed \/ fin.depths[i] # depth \/ Len(or.shortest) # Len(shortest)
             prune == ~changed /\ depth = Inf /\ ~or.keep
             changes == fin.changes \/ prune
             toPrune == IF prune THEN fin.toPrune \cup {i} ELSE fin.toPrune
  <2>2. CASE ~or.live
    <3>1. fin' = [fin EXCEPT !.at = @ + 1]
      BY <2>2 DEF DepthRule
    <3> QED BY <2>1, <3>1
  <2>3. CASE or.live
    <3>1. fin' = [fin EXCEPT !.at = @ + 1, !.depths[i] = depth, !.changed = changed,
                             !.changes = changes, !.toPrune = toPrune]
      BY <2>3 DEF DepthRule
    <3> HIDE DEF depth, changed, changes, toPrune
    <3>2. DOMAIN fin' = DOMAIN fin /\ ("at" \in DOMAIN fin => fin'.at = fin.at + 1)
      BY <3>1
    <3> QED BY <2>1, <3>2
  <2> QED BY <2>2, <2>3
<1>3. Used' = Used
  BY <1>1 DEF Used
<1>4. ASSUME NEW i, NEW shortest, scopes' = [scopes EXCEPT ![1][i].shortest = shortest]
      PROVE  ScopesOK(Used, scopes') /\ Len(scopes') = 1
  <2> DEFINE x == [Root[i] EXCEPT !.shortest = shortest]
             rs == [Root EXCEPT ![i] = x]
  <2>1. i \in 1..Len(Root) => RuleOK(Used, x)
    BY RootIsOK, SameItems DEF RuleList
  <2>2. scopes' = [scopes EXCEPT ![1] = rs]
    BY <1>4 DEF Root
  <2> HIDE DEF x
  <2>3. RuleList(Used, rs)
    BY <2>1, RootIsOK, ReplacedRule
  <2> HIDE DEF rs
  <2>4. ScopesOK(Used, scopes) /\ Len(scopes) = 1
    BY DEF GrammarInv
  <2>5. [scopes EXCEPT ![1] = rs] = <<rs>>
    BY <2>4, ReplacedOnly DEF ScopesOK
  <2>6. \E r : scopes' = <<r>> /\ RuleList(Used, r)
    BY <2>2, <2>3, <2>5
  <2> QED BY <2>6, OneScope
<1>5. ScopesOK(Used, scopes') /\ Len(scopes') = 1
  BY <1>1, <1>4 DEF GrammarInv
<1> QED BY <1>1, <1>2, <1>3, <1>5 DEF GrammarInv, Indexed

LEMMA FinalizeKeeps == ASSUME GrammarInv, FinalizeStep PROVE GrammarInv'
<1>1. Finalize /\ at = "finalize" /\ at' = at /\ UNCHANGED <<mainRoot, origRoot>>
  BY DEF FinalizeStep, loopVars
<1> QED BY <1>1, AddRuleKeeps, ReachItemKeeps, ReachReturnKeeps, RootKeeps, DepthRuleKeeps
        DEF Finalize

-----------------------------------------------------------------------------
(* More about the items below an item, and positions.                      *)

LEMMA BelowIsLeast ==
  ASSUME NEW S \in SUBSET Nodes, Closed(S), NEW n \in S
  PROVE  Below[n] \subseteq S
<1> DEFINE H == {h \in Nat : \E m \in S : h = Height[m] /\ ~ (Below[m] \subseteq S)}
<1> SUFFICES ASSUME ~ (Below[n] \subseteq S) PROVE FALSE
  OBVIOUS
<1>1. Height \in [Nodes -> Nat]
  BY GrammarAssumption
<1>2. H \in SUBSET Nat /\ H # {}
  BY <1>1
<1>3. MinIn(H) \in H /\ \A y \in H : MinIn(H) <= y
  <2> HIDE DEF H
  <2> QED BY <1>2, Least
<1>4. PICK m \in S : MinIn(H) = Height[m] /\ ~ (Below[m] \subseteq S)
  BY <1>3
<1>5. m \in Nodes /\ Below[m] = {m} \cup UNION {Below[k] : k \in KidsOf(m)}
  BY BelowIs
<1>6. PICK k \in KidsOf(m) : ~ (Below[k] \subseteq S)
  BY <1>4, <1>5
<1>7. k \in S /\ k \in Nodes /\ Height[k] < Height[m]
  BY <1>5, KidsAreNodes DEF Closed
<1>8. Height[k] \in H
  BY <1>1, <1>6, <1>7
<1>9. Height[m] <= Height[k]
  BY <1>3, <1>4, <1>8
<1> QED BY <1>1, <1>5, <1>7, <1>9

LEMMA BelowNests ==
  ASSUME NEW n \in Nodes, NEW m \in Below[n]
  PROVE  m \in Nodes /\ Below[m] \subseteq Below[n]
<1>1. Below[n] \in SUBSET Nodes /\ Closed(Below[n])
  BY BelowIsClosed
<1> QED BY <1>1, BelowIsLeast

\* Positions counts from the first one on.
Counts(oks, n, up) ==
  up = [k \in 0..n |-> CASE k = 0           -> <<>>
                         [] k > 0 /\ oks[k] -> Append(up[k - 1], k)
                         [] OTHER           -> up[k - 1]]

LEMMA CountExists ==
  ASSUME NEW oks, NEW n \in Nat
  PROVE  \E up : Counts(oks, n, up)
<1> DEFINE H == {h \in Nat : ~ \E up : Counts(oks, h, up)}
<1> SUFFICES ASSUME H # {} PROVE FALSE
  OBVIOUS
<1>1. PICK h \in H : \A y \in H : h <= y
  <2>1. H \in SUBSET Nat
    OBVIOUS
  <2> HIDE DEF H
  <2> QED BY <2>1, Least
<1>2. h \in Nat /\ ~ \E up : Counts(oks, h, up)
  BY <1>1
<1>3. CASE h = 0
  <2> DEFINE up == [k \in 0..0 |-> <<>>]
  <2>1. Counts(oks, 0, up)
    BY DEF Counts
  <2> QED BY <2>1, <1>2, <1>3
<1>4. CASE h # 0
  <2>1. h - 1 \in Nat /\ h - 1 \notin H
    BY <1>1, <1>2, <1>4
  <2>2. PICK u : Counts(oks, h - 1, u)
    BY <2>1
  <2> DEFINE up == [k \in 0..h |-> IF k = h THEN IF oks[h] THEN Append(u[h - 1], h) ELSE u[h - 1]
                                   ELSE u[k]]
  <2>3. \A k \in 0..(h - 1) : u[k] = CASE k = 0           -> <<>>
                                       [] k > 0 /\ oks[k] -> Append(u[k - 1], k)
                                       [] OTHER           -> u[k - 1]
    BY <2>2 DEF Counts
  <2>4. \A k \in 0..h : up[k] = CASE k = 0           -> <<>>
                                  [] k > 0 /\ oks[k] -> Append(up[k - 1], k)
                                  [] OTHER           -> up[k - 1]
    BY <2>1, <2>3, <1>2, <1>4
  <2>5. up = [k \in 0..h |-> up[k]]
    OBVIOUS
  <2> HIDE DEF up
  <2>6. Counts(oks, h, up)
    BY <2>4, <2>5 DEF Counts
  <2> QED BY <2>6, <1>2
<1> QED BY <1>3, <1>4

LEMMA CountStays ==
  ASSUME NEW oks, NEW n \in Nat, NEW up, Counts(oks, n, up)
  PROVE  \A k \in 0..n : up[k] \in Seq(1..n)
<1> DEFINE H == {h \in Nat : h <= n /\ up[h] \notin Seq(1..n)}
<1> SUFFICES ASSUME H # {} PROVE FALSE
  OBVIOUS
<1>1. PICK h \in H : \A y \in H : h <= y
  <2>1. H \in SUBSET Nat
    OBVIOUS
  <2> HIDE DEF H
  <2> QED BY <2>1, Least
<1>2. up[h] = CASE h = 0           -> <<>>
                [] h > 0 /\ oks[h] -> Append(up[h - 1], h)
                [] OTHER           -> up[h - 1]
  <2>1. h \in 0..n
    BY <1>1
  <2> QED BY <2>1 DEF Counts
<1>3. CASE h = 0
  <2>1. up[h] = <<>> /\ <<>> \in Seq(1..n)
    BY <1>2, <1>3
  <2> QED BY <1>1, <2>1
<1>4. CASE h # 0
  <2>1. h - 1 \in Nat /\ h - 1 <= n /\ h \in 1..n
    BY <1>1, <1>4
  <2>2. up[h - 1] \in Seq(1..n)
    BY <1>1, <2>1
  <2>3. Append(up[h - 1], h) \in Seq(1..n)
    BY <2>1, <2>2
  <2> QED BY <1>1, <1>2, <1>4, <2>2, <2>3
<1> QED BY <1>3, <1>4

LEMMA PositionsAre ==
  ASSUME NEW oks, Len(oks) \in Nat
  PROVE  Positions(oks) \in Seq(1..Len(oks))
<1> DEFINE n == Len(oks)
           up == CHOOSE u : Counts(oks, n, u)
<1>1. Counts(oks, n, up)
  BY CountExists
<1>2. Positions(oks) = up[n]
  BY DEF Positions, Counts
<1> HIDE DEF up
<1> QED BY <1>1, <1>2, CountStays

-----------------------------------------------------------------------------
(* What Finalize has seen to.                                              *)

Adders == StoreKinds \cup {"id"}

\* Every rule that n refers to has a name, and no choice below it is of nothing.
Known(n) ==
  \A m \in Below[n] : /\ Item[m].kind \in RefKinds => Item[m].name \in ToSet(names)
                      /\ Item[m].kind = "or" => Item[m].kids # <<>>

\* The rule for the values that n adds is there.
Takes(rs, n) ==
  Item[n].kind \in Adders =>
    index[n] \in 1..Len(rs) /\ rs[index[n]].live /\ rs[index[n]].keep

Settled(n) == (Item[n].kind = "or" => inline[n].choice # <<>>) /\ Takes(Root, n)
Ready(n) == Known(n) => \A m \in Below[n] : Settled(m)

\* Places in n items; those of the shortest are places in choice or in the items.
Ranged(choice, shortest, n) ==
  choice \in Seq(1..n) /\ shortest \in Seq(1..n) /\ Len(choice) <= n
RuleRanged(r) == Ranged(r.choice, r.shortest, Len(r.items))

InlineOK ==
  /\ inline = [n \in OrNodes |-> [choice |-> inline[n].choice, shortest |-> inline[n].shortest]]
  /\ \A n \in OrNodes : Ranged(inline[n].choice, inline[n].shortest, Len(Item[n].kids))

RootOK ==
  /\ Len(Root) = Len(names)
  /\ \A i \in 1..Len(Root) :
       /\ RuleRanged(Root[i])
       /\ \A j \in 1..Len(Root[i].items) : Root[i].items[j].node \in Used

NamesOK == \A n \in NameNodes : index[n] # -1 => Item[n].name \in ToSet(names)

\* A rule that comes back after it was pruned is one for values.
PrunedOK ==
  \A i \in fin.pruned : i \in 1..Len(Root) /\ Root[i].live => Root[i].keep /\ Root[i].items = <<>>

FinOK ==
  /\ fin = [pass |-> fin.pass, at |-> fin.at, changes |-> fin.changes, changed |-> fin.changed,
            toPrune |-> fin.toPrune, pruned |-> fin.pruned, depths |-> fin.depths]
  /\ fin.pass \in {"add", "reach", "depth", "done"} /\ fin.changes \in BOOLEAN
  /\ fin.pass = "add" => fin.pruned = {}
  /\ fin.pass = "done" => ~fin.changes
  /\ fin.pass = "depth" /\ ~fin.changes => fin.toPrune = {}

\* A call of CalcReachability, and what it found as long as nothing has changed.
CallOK(call) ==
  /\ call = [node |-> call.node, at |-> call.at, choice |-> call.choice]
  /\ call.at \in 1..(Len(VisitItems(call)) + 1)
  /\ call.choice \in Seq(1..(call.at - 1)) /\ Len(call.choice) <= call.at - 1
  /\ call.node # NoNode => call.node \in Used /\ Takes(Root, call.node)
Passed(call) ==
  /\ \A j \in 1..(call.at - 1) : Ready(VisitItems(call)[j])
  /\ (\A j \in 1..(call.at - 1) : Known(VisitItems(call)[j])) => Len(call.choice) = call.at - 1

VisitsOK ==
  /\ AnySeq(visits)
  /\ visits # <<>> => fin.pass = "reach" /\ fin.at \in 1..Len(Root) /\ Root[fin.at].live
  /\ \A k \in 1..Len(visits) :
       /\ CallOK(visits[k]) /\ (~fin.changes => Passed(visits[k]))
       /\ visits[k].node = NoNode <=> k = Len(visits)
  /\ \A k \in 1..(Len(visits) - 1) :
       LET outer == visits[k + 1] IN
       outer.at <= Len(VisitItems(outer)) /\ visits[k].node = VisitItems(outer)[outer.at]

\* A rule that this turn of Finalize has been through.
Turned(i) ==
  Root[i].live =>
    /\ Root[i].keep \/ Root[i].choice # <<>> \/ (fin.pass = "reach" /\ i \in fin.toPrune)
    /\ \A j \in 1..Len(Root[i].items) : Ready(Root[i].items[j].node)

TurnOK ==
  ~fin.changes /\ fin.pass # "add" =>
    \A i \in 1..Len(Root) : (fin.pass = "reach" => i < fin.at) => Turned(i)

FinInv == FinOK /\ InlineOK /\ RootOK /\ NamesOK /\ PrunedOK /\ VisitsOK /\ TurnOK

-----------------------------------------------------------------------------
(* What stays.                                                             *)

\* Rules for values stay and no rule goes.
KeepsRules(rs, rs2) ==
  /\ Len(rs) \in Nat /\ Len(rs2) \in Nat /\ Len(rs) <= Len(rs2)
  /\ \A i \in 1..Len(rs) : rs[i].live /\ rs[i].keep => rs2[i].live /\ rs2[i].keep

LEMMA TakesStays ==
  ASSUME NEW n, NEW rs, NEW rs2, KeepsRules(rs, rs2), Takes(rs, n), index'[n] = index[n]
  PROVE  Item[n].kind \in Adders =>
           index'[n] \in 1..Len(rs2) /\ rs2[index'[n]].live /\ rs2[index'[n]].keep
BY DEF Takes, KeepsRules

LEMMA ReadyStays ==
  ASSUME names' = names, \A m \in Nodes : Known(m) /\ Settled(m) => Settled(m)', NEW n \in Nodes, Ready(n)
  PROVE  Ready(n)'
<1> SUFFICES ASSUME Known(n)', NEW m \in Below[n] PROVE Settled(m)'
  BY DEF Ready
<1>1. Known(n)
  BY DEF Known
<1>2. Settled(m)
  BY <1>1 DEF Ready
<1>3. m \in Nodes /\ Below[m] \subseteq Below[n]
  BY BelowNests
<1>4. Known(m)
  BY <1>1, <1>3 DEF Known
<1> QED BY <1>2, <1>3, <1>4

LEMMA VisitItemsAre ==
  ASSUME GrammarInv, RootOK, NEW call,
         call.node # NoNode => call.node \in Used,
         call.node = NoNode => fin.at \in 1..Len(Root)
  PROVE  /\ VisitItems(call) \in Seq(Used) /\ Len(VisitItems(call)) \in Nat
         /\ call.node # NoNode => VisitItems(call) = Item[call.node].kids
         /\ call.node = NoNode =>
              /\ Len(VisitItems(call)) = Len(Root[fin.at].items)
              /\ \A j \in 1..Len(Root[fin.at].items) : VisitItems(call)[j] = Root[fin.at].items[j].node
<1>1. CASE call.node # NoNode
  <2>1. VisitItems(call) = Item[call.node].kids
    BY <1>1 DEF VisitItems
  <2>2. Item[call.node].kids \in Seq(Used)
    BY <1>1, KidIsUsed DEF GrammarInv
  <2> QED BY <1>1, <2>1, <2>2
<1>2. CASE call.node = NoNode
  <2> DEFINE items == Root[fin.at].items
  <2>1. VisitItems(call) = [j \in DOMAIN items |-> items[j].node]
    BY <1>2 DEF VisitItems, RootItems
  <2>2. items \in Seq(Entry(Used))
    BY <1>2, RootIsOK DEF RuleList, RuleOK
  <2>3. \A j \in 1..Len(items) : items[j].node \in Used
    BY <1>2 DEF RootOK
  <2> HIDE DEF items
  <2>4. DOMAIN items = 1..Len(items) /\ Len(items) \in Nat
    BY <2>2
  <2> QED BY <1>2, <2>1, <2>3, <2>4 DEF items
<1> QED BY <1>1, <1>2

LEMMA LiveRule ==
  ASSUME NEW ns, AnySeq(ns), NEW rs, AnySeq(rs), Len(rs) = Len(ns), NEW name,
         NEW e, e = Ensured([names |-> ns, rules |-> rs], name), NEW i, i = IndexOf(e.names, name)
  PROVE  /\ AnySeq(e.names) /\ AnySeq(e.rules) /\ Len(e.rules) = Len(e.names) /\ Len(e.rules) \in Nat
         /\ Len(rs) <= Len(e.rules)
         /\ i \in 1..Len(e.rules) /\ e.rules[i].live
         /\ ToSet(ns) \cup {name} \subseteq ToSet(e.names)
         /\ \A k \in 1..Len(e.rules) :
              \/ k \in 1..Len(rs) /\ e.rules[k] = rs[k]
              \/ k = i /\ e.rules[k] = NewOr /\ (k \in 1..Len(rs) => ~rs[k].live)
<1> DEFINE was == IndexOf(ns, name)
<1>0. /\ Len(ns) \in Nat /\ DOMAIN ns = 1..Len(ns) /\ DOMAIN rs = 1..Len(rs)
      /\ was \in 0..Len(ns) /\ (name \in ToSet(ns) => was \in 1..Len(ns))
  BY SeqFacts, IndexIs
<1>00. NewOr.live
  BY DEF NewOr, Or
<1>1. CASE was = 0
  <2> DEFINE more == Append(ns, name)
             rules == Append(rs, NewOr)
  <2>1. e = [names |-> more, rules |-> rules]
    BY <1>1 DEF Ensured
  <2>2. /\ AnySeq(more) /\ Len(more) = Len(ns) + 1 /\ more[Len(ns) + 1] = name
        /\ \A k \in 1..Len(ns) : more[k] = ns[k]
    BY Appended
  <2>3. /\ AnySeq(rules) /\ Len(rules) = Len(rs) + 1 /\ rules[Len(rs) + 1] = NewOr
        /\ \A k \in 1..Len(rs) : rules[k] = rs[k]
    BY Appended
  <2> HIDE DEF more, rules
  <2>4. DOMAIN more = 1..Len(more)
    BY <2>2, SeqFacts
  <2>5. name \notin ToSet(ns)
    BY <1>0, <1>1
  <2>6. \A k \in 1..Len(ns) : ns[k] # name
    BY <2>5, <1>0 DEF ToSet
  <2>7. ToSet(ns) \cup {name} \subseteq ToSet(more)
    BY <1>0, <2>2, <2>4 DEF ToSet
  <2>8. i = Len(ns) + 1
    <3>1. i \in 1..Len(more) /\ more[i] = name
      <4>1. name \in ToSet(more) /\ \E k \in 1..Len(more) : more[k] = name
        BY <1>0, <2>2, <2>7
      <4>2. i = CHOOSE k \in 1..Len(more) : more[k] = name
        BY <2>1, <4>1 DEF IndexOf
      <4> QED BY <4>1, <4>2
    <3>2. i \notin 1..Len(ns)
      BY <2>2, <2>6, <3>1
    <3> QED BY <1>0, <2>2, <3>1, <3>2
  <2>9. \A k \in 1..Len(rules) : k \in 1..Len(rs) \/ k = Len(rs) + 1
    BY <1>0, <2>3
  <2> QED BY <1>0, <1>00, <2>1, <2>2, <2>3, <2>7, <2>8, <2>9
<1>2. CASE was # 0
  <2>1. name \in ToSet(ns)
    BY <1>2 DEF IndexOf
  <2>2. CASE rs[was].live
    <3>1. e = [names |-> ns, rules |-> rs]
      BY <1>2, <2>2 DEF Ensured
    <3>2. i = was
      BY <3>1
    <3> HIDE DEF was
    <3> QED BY <1>0, <1>2, <2>1, <2>2, <3>1, <3>2
  <2>3. CASE ~rs[was].live
    <3> DEFINE rules == [rs EXCEPT ![was] = NewOr]
    <3>1. e = [names |-> ns, rules |-> rules]
      BY <1>2, <2>3 DEF Ensured
    <3>2. i = was
      BY <3>1
    <3> HIDE DEF was
    <3>3. /\ AnySeq(rules) /\ Len(rules) = Len(rs)
          /\ \A k \in 1..Len(rs) : rules[k] = IF k = was THEN NewOr ELSE rs[k]
      <4>1. PICK S : rs \in Seq(S)
        BY DEF AnySeq
      <4>2. rules = [k \in 1..Len(rs) |-> IF k = was THEN NewOr ELSE rs[k]] /\ Len(rs) \in Nat
        BY <4>1
      <4> HIDE DEF rules
      <4>3. rules \in Seq(S \cup {NewOr}) /\ Len(rules) = Len(rs)
        BY <4>1, <4>2
      <4> QED BY <4>2, <4>3 DEF AnySeq
    <3> HIDE DEF rules
    <3> QED BY <1>0, <1>00, <1>2, <2>1, <2>3, <3>1, <3>2, <3>3
  <2> QED BY <2>2, <2>3
<1> QED BY <1>1, <1>2

LEMMA LiveRuleIsThere ==
  ASSUME NEW ns, AnySeq(ns), NEW rs, AnySeq(rs), Len(rs) = Len(ns), NEW name,
         NEW e, e = Ensured([names |-> ns, rules |-> rs], name), NEW i, i = IndexOf(e.names, name)
  PROVE  i \in 1..Len(e.rules) /\ e.rules[i].live
BY LiveRule

LEMMA LiveRuleIsNamed ==
  ASSUME NEW ns, AnySeq(ns), NEW rs, AnySeq(rs), Len(rs) = Len(ns), NEW name,
         NEW e, e = Ensured([names |-> ns, rules |-> rs], name)
  PROVE  ToSet(ns) \cup {name} \subseteq ToSet(e.names)
BY LiveRule

LEMMA LiveRuleIsAlone ==
  ASSUME NEW ns, AnySeq(ns), NEW rs, AnySeq(rs), Len(rs) = Len(ns), NEW name,
         NEW e, e = Ensured([names |-> ns, rules |-> rs], name), NEW i, i = IndexOf(e.names, name)
  PROVE  \A k \in 1..Len(e.rules) :
           \/ k \in 1..Len(rs) /\ e.rules[k] = rs[k]
           \/ k = i /\ e.rules[k] = NewOr /\ (k \in 1..Len(rs) => ~rs[k].live)
BY LiveRule

\* A call in progress whose items stay.
LEMMA CallStays ==
  ASSUME NEW call, CallOK(call), VisitItems(call)' = VisitItems(call), grammar' = grammar,
         \A n \in Nodes : Takes(Root, n) => Takes(Root, n)', grammar \in Grammars
  PROVE  CallOK(call)'
<1>1. Used' = Used /\ Used \subseteq Nodes
  BY UsedIsClosed DEF Used
<1> QED BY <1>1 DEF CallOK

LEMMA PassedStays ==
  ASSUME NEW call, CallOK(call), Passed(call), VisitItems(call)' = VisitItems(call), names' = names,
         VisitItems(call) \in Seq(Nodes), \A n \in Nodes : Ready(n) => Ready(n)'
  PROVE  Passed(call)'
<1>1. \A n : Known(n)' <=> Known(n)
  BY DEF Known
<1>2. \A j \in 1..(call.at - 1) : VisitItems(call)[j] \in Nodes
  BY DEF CallOK
<1>3. ASSUME NEW j \in 1..(call.at - 1)
      PROVE  Ready(VisitItems(call)[j])' /\ (Known(VisitItems(call)[j])' <=> Known(VisitItems(call)[j]))
  <2>1. PICK n \in Nodes : n = VisitItems(call)[j]
    BY <1>2
  <2>2. Ready(n)' /\ (Known(n)' <=> Known(n))
    BY <1>1, <2>1 DEF Passed
  <2>3. VisitItems(call)'[j] = n
    BY <2>1
  <2> QED BY <2>1, <2>2, <2>3
<1> QED BY <1>3 DEF Passed

-----------------------------------------------------------------------------
(* The steps of Finalize.                                                  *)

LEMMA PlacesGrow ==
  ASSUME NEW n \in Nat, NEW m \in Nat, n <= m, NEW s \in Seq(1..n)
  PROVE  s \in Seq(1..m)
<1>1. 1..n \subseteq 1..m
  OBVIOUS
<1> QED BY <1>1

LEMMA RangesGrow ==
  ASSUME NEW n \in Nat, NEW m \in Nat, n <= m, NEW choice, NEW shortest, Ranged(choice, shortest, n)
  PROVE  Ranged(choice, shortest, m)
<1>1. choice \in Seq(1..m) /\ shortest \in Seq(1..m)
  BY PlacesGrow DEF Ranged
<1>2. Len(choice) <= m
  BY DEF Ranged
<1> QED BY <1>1, <1>2 DEF Ranged

LEMMA NewIsRanged == RuleRanged(NewOr) /\ RuleRanged(NoRule) /\ NewOr.items = <<>> /\ ~NoRule.live
BY DEF RuleRanged, Ranged, NewOr, NoRule, Or

LEMMA AddRuleTurns ==
  ASSUME GrammarInv, GrammarInv', FinInv, AddRule
  PROVE  FinInv'
<1>1. /\ fin.pass = "add" /\ UNCHANGED <<grammar, inline, index, visits>>
      /\ visits = <<>> /\ fin.pruned = {}
  BY DEF AddRule, FinInv, FinOK, VisitsOK
<1>2. Used' = Used
  BY <1>1 DEF Used
<1>3. VisitsOK' /\ InlineOK'
  <2>1. VisitsOK'
    BY <1>1, NoItems DEF VisitsOK
  <2> QED BY <1>1, <2>1 DEF InlineOK, FinInv
<1>4. CASE fin.at > Len(grammar)
  <2>1. UNCHANGED <<names, scopes>> /\ fin' = [fin EXCEPT !.pass = "reach", !.at = 1]
    BY <1>4 DEF AddRule
  <2>2. /\ fin'.pass = "reach" /\ fin'.at = 1 /\ fin'.pruned = fin.pruned /\ FinOK'
    BY <2>1 DEF FinInv, FinOK
  <2>3. Root' = Root
    BY <2>1 DEF Root
  <2>4. RootOK' /\ NamesOK' /\ PrunedOK'
    BY <1>1, <1>2, <2>1, <2>2, <2>3 DEF FinInv, RootOK, NamesOK, PrunedOK
  <2>5. TurnOK'
    <3>1. \A i \in 1..Len(Root') : ~ (i < fin'.at)
      BY <2>2
    <3> QED BY <2>2, <3>1 DEF TurnOK
  <2> QED BY <1>3, <2>2, <2>4, <2>5 DEF FinInv
<1>5. CASE ~ (fin.at > Len(grammar))
  <2> DEFINE call == grammar[fin.at]
             r == AddedRule([names |-> names, rules |-> Root], call)
             e == Ensured([names |-> names, rules |-> Root], call.name)
             i == IndexOf(e.names, call.name)
  <2>1. names' = r.names /\ scopes' = <<r.rules>> /\ fin' = [fin EXCEPT !.at = @ + 1]
    BY <1>5 DEF AddRule
  <2>2. /\ fin'.pass = "add" /\ fin'.pruned = {} /\ FinOK' /\ Root' = r.rules
    BY <1>1, <2>1 DEF FinInv, FinOK, Root
  <2>3. call.node \in Used
    <3>1. Len(grammar) \in Nat
      BY GrammarIsSeq, SeqFacts DEF GrammarInv
    <3>2. fin.at \in 1..Len(grammar)
      BY <3>1, <1>5 DEF GrammarInv
    <3> QED BY <3>2, UsedIsClosed DEF GrammarInv
  <2>4. r = [e EXCEPT !.rules[i].items = Append(@, StaticEntry(call.node))]
    BY DEF AddedRule
  <2>5. AnySeq(names) /\ AnySeq(Root) /\ Len(Root) = Len(names)
    BY RootIsOK DEF GrammarInv, RuleList, FinInv, RootOK
  <2>6. e = [names |-> e.names, rules |-> e.rules]
    <3> DEFINE name == call.name
    <3> HIDE DEF name
    <3>1. \A z : z = Ensured([names |-> names, rules |-> Root], name) =>
            z = [names |-> z.names, rules |-> z.rules]
      BY <2>5, RootIsOK, EnsuredRule
    <3> QED BY <3>1 DEF name
  <2>7. /\ AnySeq(e.rules) /\ Len(e.rules) = Len(e.names) /\ Len(e.rules) \in Nat
        /\ i \in 1..Len(e.rules)
        /\ ToSet(names) \cup {call.name} \subseteq ToSet(e.names)
        /\ \A k \in 1..Len(e.rules) : (k \in 1..Len(Root) /\ e.rules[k] = Root[k]) \/ e.rules[k] = NewOr
    <3> DEFINE name == call.name
    <3> HIDE DEF name
    <3>1. \A z, x : z = Ensured([names |-> names, rules |-> Root], name) /\ x = IndexOf(z.names, name) =>
            /\ AnySeq(z.rules) /\ Len(z.rules) = Len(z.names) /\ Len(z.rules) \in Nat
            /\ x \in 1..Len(z.rules)
            /\ ToSet(names) \cup {name} \subseteq ToSet(z.names)
            /\ \A k \in 1..Len(z.rules) : (k \in 1..Len(Root) /\ z.rules[k] = Root[k]) \/ z.rules[k] = NewOr
      BY <2>5, LiveRule
    <3> QED BY <3>1 DEF name
  <2> HIDE DEF e, i, r, call
  <2> DEFINE x == [e.rules[i] EXCEPT !.items = Append(@, StaticEntry(call.node))]
             rules == [e.rules EXCEPT ![i] = x]
  <2>8. r.names = e.names /\ r.rules = rules
    <3>1. r = [names |-> e.names, rules |-> rules]
      BY <2>4, <2>6
    <3> QED BY <3>1
  <2>9. /\ Len(rules) = Len(e.rules)
        /\ \A k \in 1..Len(e.rules) : rules[k] = IF k = i THEN x ELSE e.rules[k]
    <3>1. PICK S : e.rules \in Seq(S)
      BY <2>7 DEF AnySeq
    <3> HIDE DEF x
    <3> QED BY <3>1
  <2>10. ASSUME NEW k \in 1..Len(e.rules)
         PROVE  /\ RuleOK(Used, e.rules[k]) /\ RuleRanged(e.rules[k])
                /\ \A j \in 1..Len(e.rules[k].items) : e.rules[k].items[j].node \in Used
    <3>1. CASE k \in 1..Len(Root) /\ e.rules[k] = Root[k]
      BY <3>1, RootIsOK DEF RuleList, FinInv, RootOK
    <3>2. CASE e.rules[k] = NewOr
      BY <3>2, NewIsRanged, NewRules
    <3> QED BY <2>7, <3>1, <3>2
  <2>11. /\ RuleRanged(x)
         /\ \A j \in 1..Len(x.items) : x.items[j].node \in Used
    <3> DEFINE was == e.rules[i]
               entry == StaticEntry(call.node)
    <3>1. /\ RuleOK(Used, was) /\ RuleRanged(was)
          /\ \A j \in 1..Len(was.items) : was.items[j].node \in Used
      BY <2>7, <2>10
    <3>2. /\ x.items = Append(was.items, entry) /\ x.choice = was.choice /\ x.shortest = was.shortest
          /\ AnySeq(was.items)
      BY <3>1 DEF RuleOK, AnySeq
    <3>3. entry.node = call.node
      BY DEF StaticEntry
    <3> HIDE DEF x, was, entry
    <3>4. /\ Len(was.items) \in Nat /\ Len(x.items) = Len(was.items) + 1
          /\ \A j \in 1..Len(was.items) : x.items[j] = was.items[j]
          /\ x.items[Len(was.items) + 1] = entry
      BY <3>2, Appended
    <3>5. RuleRanged(x)
      BY <3>1, <3>2, <3>4, RangesGrow DEF RuleRanged
    <3>6. \A j \in 1..Len(x.items) : j \in 1..Len(was.items) \/ j = Len(was.items) + 1
      BY <3>4
    <3> QED BY <2>3, <3>1, <3>3, <3>4, <3>5, <3>6
  <2> HIDE DEF x, rules
  <2>12. RootOK'
    <3>1. Len(Root') = Len(names')
      BY <2>1, <2>2, <2>7, <2>8, <2>9
    <3>2. ASSUME NEW k \in 1..Len(rules)
          PROVE  /\ RuleRanged(rules[k])
                 /\ \A j \in 1..Len(rules[k].items) : rules[k].items[j].node \in Used
      BY <2>9, <2>10, <2>11
    <3> QED BY <1>2, <2>2, <2>8, <3>1, <3>2 DEF RootOK
  <2>13. NamesOK' /\ PrunedOK' /\ TurnOK'
    <3>1. ToSet(names) \subseteq ToSet(names')
      BY <2>1, <2>7, <2>8
    <3> QED BY <1>1, <2>2, <3>1 DEF FinInv, NamesOK, PrunedOK, TurnOK
  <2> QED BY <1>3, <2>2, <2>12, <2>13 DEF FinInv
<1> QED BY <1>4, <1>5

\* A step that keeps the names, the indices, the choices and the rules for values.
LEMMA RootStays ==
  ASSUME names' = names, index' = index, KeepsRules(Root, Root'),
         \A n \in OrNodes : inline'[n].choice = inline[n].choice
  PROVE  \A n \in Nodes : (Takes(Root, n) => Takes(Root, n)') /\ (Ready(n) => Ready(n)')
<1>1. ASSUME NEW n \in Nodes, Takes(Root, n)
      PROVE  Takes(Root, n)'
  <2>1. PICK rs, rs2 : rs = Root /\ rs2 = Root'
    OBVIOUS
  <2>2. KeepsRules(rs, rs2) /\ Takes(rs, n)
    BY <1>1, <2>1
  <2>3. Item[n].kind \in Adders => index'[n] \in 1..Len(rs2) /\ rs2[index'[n]].live /\ rs2[index'[n]].keep
    BY <2>2, TakesStays
  <2> QED BY <2>1, <2>3 DEF Takes
<1>2. \A n \in Nodes : Settled(n) => Settled(n)'
  BY <1>1 DEF Settled, OrNodes
<1> QED BY <1>1, <1>2, ReadyStays

LEMMA RootReplaced ==
  ASSUME AnySeq(Root), NEW i \in 1..Len(Root), NEW x,
         scopes' = <<[Root EXCEPT ![i] = x]>>
  PROVE  /\ Len(Root) \in Nat /\ Len(Root') = Len(Root)
         /\ \A k \in 1..Len(Root) : Root'[k] = IF k = i THEN x ELSE Root[k]
<1>1. PICK S : Root \in Seq(S)
  BY DEF AnySeq
<1>2. Root' = [Root EXCEPT ![i] = x]
  BY DEF Root
<1> QED BY <1>1, <1>2

LEMMA RootPruned ==
  ASSUME AnySeq(Root), NEW S, scopes' = <<Pruned(Root, S)>>
  PROVE  /\ Len(Root) \in Nat /\ Len(Root') = Len(Root)
         /\ \A k \in 1..Len(Root) : Root'[k] = IF k \in S THEN NoRule ELSE Root[k]
<1>1. PICK T : Root \in Seq(T)
  BY DEF AnySeq
<1>2. Root' = Pruned(Root, S)
  BY DEF Root
<1> QED BY <1>1, <1>2 DEF Pruned

\* What every step needs to know.
LEMMA Start ==
  ASSUME GrammarInv, FinInv
  PROVE  /\ AnySeq(Root) /\ Len(Root) \in Nat /\ AnySeq(names) /\ Len(Root) = Len(names)
         /\ \A i \in 1..Len(Root) : RuleOK(Used, Root[i]) /\ RuleRanged(Root[i])
         /\ \A i \in 1..Len(Root) : \A j \in 1..Len(Root[i].items) : Root[i].items[j].node \in Used
         /\ Used \subseteq Nodes /\ NoNode \notin Used /\ fin.at \in Nat \ {0} /\ FinOK
<1>1. AnySeq(Root) /\ \A i \in 1..Len(Root) : RuleOK(Used, Root[i])
  BY RootIsOK DEF RuleList
<1>2. Len(Root) \in Nat
  BY <1>1, SeqFacts
<1> QED BY <1>1, <1>2, UsedIsClosed DEF GrammarInv, FinInv, RootOK

\* The turn goes on while rules and items stay ready.
LEMMA TurnedStays ==
  ASSUME GrammarInv, FinInv, \A n \in Nodes : Ready(n) => Ready(n)',
         NEW i \in 1..Len(Root), Turned(i), Root'[i].live => Root[i].live, Root[i].keep => Root'[i].keep,
         Root'[i].choice = Root[i].choice, Root'[i].items = Root[i].items,
         fin.pass = "reach" /\ i \in fin.toPrune => fin'.pass = "reach" /\ i \in fin'.toPrune
  PROVE  Turned(i)'
<1>1. ASSUME Root[i].live, NEW j \in 1..Len(Root[i].items)
      PROVE  Ready(Root[i].items[j].node)'
  <2>1. PICK n : n = Root[i].items[j].node
    OBVIOUS
  <2>2. n \in Nodes /\ Ready(n)
    BY <1>1, <2>1, Start DEF Turned
  <2>3. Ready(n)'
    BY <2>2
  <2>4. n = Root'[i].items[j].node
    BY <2>1
  <2> QED BY <2>3, <2>4
<1>2. Root[i].live => Root[i].keep \/ Root[i].choice # <<>> \/ (fin.pass = "reach" /\ i \in fin.toPrune)
  BY DEF Turned
<1> QED BY <1>1, <1>2 DEF Turned

LEMMA ReachRuleTurns ==
  ASSUME GrammarInv, FinInv, ReachRule
  PROVE  FinInv'
<1>1. /\ fin.pass = "reach" /\ visits = <<>> /\ fin.at <= Len(Root)
      /\ UNCHANGED <<grammar, names, scopes, inline, index>>
  BY DEF ReachRule
<1>2. Root' = Root /\ Used' = Used /\ fin.at \in 1..Len(Root)
  BY <1>1, Start DEF Root, Used
<1>3. InlineOK' /\ RootOK' /\ NamesOK'
  BY <1>1, <1>2 DEF FinInv, InlineOK, RootOK, NamesOK
<1>4. \A n \in Nodes : (Takes(Root, n) => Takes(Root, n)') /\ (Ready(n) => Ready(n)')
  <2>1. KeepsRules(Root, Root')
    BY <1>2, Start DEF KeepsRules
  <2> QED BY <1>1, <2>1, RootStays
<1>5. CASE ~Root[fin.at].live \/ fin.at \in fin.pruned
  <2>1. fin' = [fin EXCEPT !.at = @ + 1] /\ visits' = visits
    BY <1>5 DEF ReachRule
  <2>2. /\ fin'.pass = "reach" /\ fin'.at = fin.at + 1 /\ fin'.pruned = fin.pruned
        /\ fin'.toPrune = fin.toPrune /\ fin'.changes = fin.changes /\ FinOK'
    BY <1>1, <2>1, Start DEF FinOK
  <2>3. VisitsOK'
    BY <1>1, <2>1, NoItems DEF VisitsOK
  <2>4. PrunedOK'
    BY <1>2, <2>2 DEF FinInv, PrunedOK
  <2>5. Turned(fin.at)
    BY <1>2, <1>5, NoItems DEF FinInv, PrunedOK, Turned
  <2>6. TurnOK'
    <3> SUFFICES ASSUME ~fin.changes, NEW i \in 1..Len(Root), i < fin.at + 1 PROVE Turned(i)'
      BY <1>2, <2>2 DEF TurnOK
    <3>1. Turned(i)
      <4>1. i < fin.at \/ i = fin.at
        BY Start
      <4> QED BY <4>1, <1>1, <2>5 DEF FinInv, TurnOK
    <3> QED BY <1>2, <1>4, <2>2, <3>1, TurnedStays
  <2> QED BY <1>3, <2>2, <2>3, <2>4, <2>6 DEF FinInv
<1>6. CASE ~ (~Root[fin.at].live \/ fin.at \in fin.pruned)
  <2> DEFINE call == Visit(NoNode)
  <2>1. fin' = fin /\ visits' = <<call>>
    BY <1>6 DEF ReachRule
  <2>2. call = [node |-> NoNode, at |-> 1, choice |-> <<>>]
    BY DEF Visit
  <2> HIDE DEF call
  <2>3. AnySeq(visits') /\ Len(visits') = 1 /\ visits'[1] = call
    BY <2>1, ShortSeq
  <2>4. VisitItems(call)' = VisitItems(call) /\ Len(VisitItems(call)) \in Nat
    <3>1. VisitItems(call)' = VisitItems(call)
      BY <1>2, <2>1 DEF VisitItems, RootItems
    <3> QED BY <1>2, <2>2, <3>1, VisitItemsAre DEF FinInv
  <2>5. CallOK(call)' /\ Passed(call)'
    BY <2>2, <2>4, NoItems DEF CallOK, Passed
  <2>6. VisitsOK'
    BY <1>1, <1>2, <1>6, <2>1, <2>2, <2>3, <2>5 DEF VisitsOK
  <2>7. FinOK' /\ PrunedOK'
    BY <1>2, <2>1 DEF FinInv, FinOK, PrunedOK
  <2>8. TurnOK'
    <3> SUFFICES ASSUME ~fin.changes, NEW i \in 1..Len(Root), i < fin.at PROVE Turned(i)'
      BY <1>1, <1>2, <2>1 DEF TurnOK
    <3>1. Turned(i)
      BY <1>1 DEF FinInv, TurnOK
    <3> QED BY <1>2, <1>4, <2>1, <3>1, TurnedStays
  <2> QED BY <1>3, <2>6, <2>7, <2>8 DEF FinInv
<1> QED BY <1>5, <1>6

LEMMA ReachRuleEndTurns ==
  ASSUME GrammarInv, FinInv, ReachRuleEnd
  PROVE  FinInv'
<1> DEFINE i == fin.at
           call == Head(visits)
           x == [Root[i] EXCEPT !.choice = call.choice]
           toPrune == IF Root[i].keep \/ call.choice # <<>> THEN fin.toPrune ELSE fin.toPrune \cup {i}
<1>1. /\ visits # <<>> /\ Visited(call) /\ call.node = NoNode
      /\ scopes' = <<[Root EXCEPT ![i].choice = call.choice]>>
      /\ fin' = [fin EXCEPT !.at = @ + 1, !.toPrune = toPrune]
      /\ visits' = <<>> /\ UNCHANGED <<grammar, names, inline, index>>
  BY DEF ReachRuleEnd
<1>2. fin.pass = "reach" /\ i \in 1..Len(Root) /\ Root[i].live
  BY <1>1 DEF FinInv, VisitsOK
<1>3. CallOK(call) /\ (~fin.changes => Passed(call))
  <2>1. AnySeq(visits) /\ Len(visits) \in Nat \ {0} /\ call = visits[1]
    <3>1. PICK S : visits \in Seq(S)
      BY DEF FinInv, VisitsOK, AnySeq
    <3> QED BY <1>1, <3>1 DEF AnySeq
  <2>2. 1 \in 1..Len(visits)
    BY <2>1
  <2> QED BY <2>1, <2>2 DEF FinInv, VisitsOK
<1> HIDE DEF call
<1>4. /\ VisitItems(call) \in Seq(Used) /\ Len(VisitItems(call)) \in Nat
      /\ Len(VisitItems(call)) = Len(Root[i].items)
      /\ \A j \in 1..Len(Root[i].items) : VisitItems(call)[j] = Root[i].items[j].node
  BY <1>1, <1>2, VisitItemsAre DEF FinInv
<1>5. call.at = Len(Root[i].items) + 1 /\ Len(Root[i].items) \in Nat
  BY <1>1, <1>3, <1>4 DEF Visited, Stops, CallOK
<1>6. /\ x.live = Root[i].live /\ x.keep = Root[i].keep /\ x.items = Root[i].items
      /\ x.choice = call.choice /\ x.shortest = Root[i].shortest
  <2>1. RuleOK(Used, Root[i])
    BY <1>2, Start
  <2> QED BY <2>1 DEF RuleOK
<1>7. scopes' = <<[Root EXCEPT ![i] = x]>>
  BY <1>1
<1> HIDE DEF x
<1>8. /\ Len(Root) \in Nat /\ Len(Root') = Len(Root)
      /\ \A k \in 1..Len(Root) : Root'[k] = IF k = i THEN x ELSE Root[k]
  BY <1>2, <1>7, Start, RootReplaced
<1>9. Used' = Used
  BY <1>1 DEF Used
<1>10. /\ fin'.pass = "reach" /\ fin'.at = i + 1 /\ fin'.pruned = fin.pruned
       /\ fin'.toPrune = toPrune /\ fin'.changes = fin.changes /\ FinOK'
  <2> HIDE DEF toPrune
  <2> QED BY <1>1, <1>2, Start DEF FinOK
<1>11. RuleRanged(x)
  <2>1. call.choice \in Seq(1..Len(Root[i].items)) /\ Len(call.choice) <= Len(Root[i].items)
    <3>1. call.at - 1 = Len(Root[i].items)
      BY <1>5
    <3> QED BY <1>3, <3>1 DEF CallOK
  <2>2. Root[i].shortest \in Seq(1..Len(Root[i].items))
    BY <1>2, Start DEF RuleRanged, Ranged
  <2> QED BY <1>6, <2>1, <2>2 DEF RuleRanged, Ranged
<1>12. InlineOK' /\ NamesOK' /\ VisitsOK'
  <2>1. VisitsOK'
    BY <1>1, NoItems DEF VisitsOK
  <2> QED BY <1>1, <2>1 DEF FinInv, InlineOK, NamesOK
<1>13. RootOK' /\ PrunedOK'
  <2>1. RootOK'
    BY <1>1, <1>6, <1>8, <1>9, <1>11, Start DEF RootOK
  <2>2. PrunedOK'
    BY <1>6, <1>8, <1>10 DEF FinInv, PrunedOK
  <2> QED BY <2>1, <2>2
<1>14. \A n \in Nodes : (Takes(Root, n) => Takes(Root, n)') /\ (Ready(n) => Ready(n)')
  <2>1. KeepsRules(Root, Root')
    BY <1>6, <1>8 DEF KeepsRules
  <2> QED BY <1>1, <2>1, RootStays
<1>15. TurnOK'
  <2> SUFFICES ASSUME ~fin.changes, NEW k \in 1..Len(Root), k < i + 1 PROVE Turned(k)'
    BY <1>8, <1>10 DEF TurnOK
  <2>1. CASE k = i
    <3>1. Root'[k].keep \/ Root'[k].choice # <<>> \/ k \in fin'.toPrune
      BY <1>6, <1>8, <1>10, <2>1
    <3>2. Root'[k].items = Root[k].items /\ k \in 1..Len(Root)
      BY <1>6, <1>8, <2>1
    <3>3. ASSUME NEW j \in 1..Len(Root[k].items)
          PROVE  Ready(Root[k].items[j].node)'
      <4>1. PICK n : n = Root[k].items[j].node
        OBVIOUS
      <4>2. j \in 1..(call.at - 1) /\ VisitItems(call)[j] = n
        BY <1>4, <1>5, <2>1, <4>1
      <4>3. n \in Nodes /\ Ready(n)
        BY <1>3, <3>2, <4>1, <4>2, Start DEF Passed
      <4>4. Ready(n)'
        BY <1>14, <4>3
      <4>5. n = Root'[k].items[j].node
        BY <3>2, <4>1
      <4> QED BY <4>4, <4>5
    <3> QED BY <1>10, <3>1, <3>2, <3>3 DEF Turned
  <2>2. CASE k # i
    <3>1. Turned(k)
      <4>1. k < fin.at
        BY <2>2, Start
      <4> QED BY <1>2, <4>1 DEF FinInv, TurnOK
    <3>2. k \in fin.toPrune => k \in fin'.toPrune
      BY <1>10
    <3>3. Root'[k] = Root[k]
      BY <1>8, <2>2
    <3> QED BY <1>10, <1>14, <3>1, <3>2, <3>3, TurnedStays
  <2> QED BY <2>1, <2>2
<1> QED BY <1>10, <1>12, <1>13, <1>15 DEF FinInv

\* Rules are pruned: then the turn has changed something.
LEMMA PrunedTurns ==
  ASSUME GrammarInv, FinInv, NEW S, scopes' = <<Pruned(Root, S)>>, visits = <<>>,
         UNCHANGED <<grammar, names, inline, index, visits>>, FinOK',
         fin'.pruned = fin.pruned \/ fin'.pruned = fin.pruned \cup S,
         ~fin'.changes /\ fin'.pass # "reach" => S = {} /\ \A i \in 1..Len(Root) : Turned(i),
         fin.pass = "reach" => fin.toPrune = S,
         fin'.pass = "reach" => fin'.at = 1
  PROVE  FinInv'
<1>1. /\ Len(Root) \in Nat /\ Len(Root') = Len(Root)
      /\ \A k \in 1..Len(Root) : Root'[k] = IF k \in S THEN NoRule ELSE Root[k]
  BY Start, RootPruned
<1>2. Used' = Used
  BY DEF Used
<1>3. InlineOK' /\ NamesOK' /\ VisitsOK'
  BY NoItems DEF FinInv, InlineOK, NamesOK, VisitsOK
<1>4. RootOK'
  <2>1. ASSUME NEW k \in 1..Len(Root)
        PROVE  /\ RuleRanged(Root'[k])
               /\ \A j \in 1..Len(Root'[k].items) : Root'[k].items[j].node \in Used
    <3>1. CASE k \in S
      BY <1>1, <3>1, NewIsRanged DEF NoRule, Or
    <3>2. CASE k \notin S
      BY <1>1, <3>2, Start
    <3> QED BY <3>1, <3>2
  <2>2. Len(Root') = Len(names')
    BY <1>1, Start
  <2>3. \A k \in 1..Len(Root') : k \in 1..Len(Root)
    BY <1>1
  <2> QED BY <1>2, <2>1, <2>2, <2>3 DEF RootOK
<1>5. PrunedOK'
  <2> SUFFICES ASSUME NEW i \in fin'.pruned, i \in 1..Len(Root), Root'[i].live
               PROVE  Root'[i].keep /\ Root'[i].items = <<>>
    BY <1>1 DEF PrunedOK
  <2>1. i \notin S /\ Root'[i] = Root[i]
    BY <1>1, NewIsRanged
  <2>2. i \in fin.pruned
    BY <2>1
  <2> QED BY <2>1, <2>2 DEF FinInv, PrunedOK
<1>6. TurnOK'
  <2>1. CASE fin'.pass = "reach"
    <3>1. \A i \in 1..Len(Root') : ~ (i < fin'.at)
      BY <1>1, <2>1
    <3> QED BY <2>1, <3>1 DEF TurnOK
  <2>2. CASE fin'.pass # "reach" /\ ~fin'.changes
    <3>1. S = {} /\ (\A k \in 1..Len(Root) : Root'[k] = Root[k]) /\ \A i \in 1..Len(Root) : Turned(i)
      BY <1>1, <2>2
    <3>2. KeepsRules(Root, Root')
      BY <1>1, <3>1 DEF KeepsRules
    <3>3. \A n \in Nodes : (Takes(Root, n) => Takes(Root, n)') /\ (Ready(n) => Ready(n)')
      BY <3>2, RootStays
    <3>4. ASSUME NEW i \in 1..Len(Root)
          PROVE  Turned(i)'
      <4>1. ~ (fin.pass = "reach" /\ i \in fin.toPrune)
        BY <3>1
      <4>2. Turned(i) /\ Root'[i] = Root[i]
        BY <3>1
      <4> QED BY <3>3, <4>1, <4>2, TurnedStays
    <3> QED BY <1>1, <3>4 DEF TurnOK
  <2> QED BY <2>1, <2>2 DEF TurnOK
<1> QED BY <1>3, <1>4, <1>5, <1>6 DEF FinInv

LEMMA ReachEndTurns ==
  ASSUME GrammarInv, FinInv, ReachEnd
  PROVE  FinInv'
<1> DEFINE depths == [i \in DOMAIN Root |-> IF i \in DOMAIN fin.depths THEN fin.depths[i] ELSE -1]
           changes == fin.changes \/ fin.toPrune # {}
<1>1. /\ fin.pass = "reach" /\ visits = <<>> /\ fin.at > Len(Root)
      /\ scopes' = <<Pruned(Root, fin.toPrune)>>
      /\ fin' = [fin EXCEPT !.pass = "depth", !.at = 1, !.changes = changes,
                            !.pruned = @ \cup fin.toPrune, !.toPrune = {}, !.changed = FALSE,
                            !.depths = depths]
      /\ UNCHANGED <<grammar, names, inline, index, visits>>
  BY DEF ReachEnd
<1>2. changes \in BOOLEAN
  OBVIOUS
<1> HIDE DEF depths
<1>3. /\ fin'.pass = "depth" /\ fin'.changes = changes /\ fin'.pruned = fin.pruned \cup fin.toPrune
      /\ FinOK'
  <2> HIDE DEF changes
  <2> QED BY <1>1, <1>2, Start DEF FinOK
<1>4. ~fin'.changes => fin.toPrune = {} /\ \A i \in 1..Len(Root) : Turned(i)
  <2>1. \A i \in 1..Len(Root) : i < fin.at
    BY <1>1, Start
  <2> QED BY <1>1, <1>3, <2>1 DEF FinInv, TurnOK
<1> QED BY <1>1, <1>3, <1>4, PrunedTurns

LEMMA DepthEndTurns ==
  ASSUME GrammarInv, FinInv, DepthEnd
  PROVE  FinInv'
<1>1. /\ fin.pass = "depth" /\ UNCHANGED <<grammar, names, inline, index, visits>> /\ visits = <<>>
  BY DEF DepthEnd, FinInv, VisitsOK
<1>2. ~fin.changes => fin.toPrune = {} /\ \A i \in 1..Len(Root) : Turned(i)
  BY <1>1 DEF FinInv, FinOK, TurnOK
<1>3. CASE fin.changed
  <2>1. fin' = [fin EXCEPT !.at = 1, !.changed = FALSE, !.toPrune = {}] /\ UNCHANGED scopes
    BY <1>3 DEF DepthEnd
  <2>2. /\ fin'.pass = "depth" /\ fin'.changes = fin.changes /\ fin'.pruned = fin.pruned
        /\ FinOK' /\ Root' = Root
    BY <1>1, <2>1, Start DEF FinOK, Root
  <2>3. /\ InlineOK' /\ NamesOK' /\ VisitsOK' /\ PrunedOK' /\ RootOK'
    <3>1. Used' = Used
      BY <1>1 DEF Used
    <3>2. VisitsOK'
      BY <1>1, NoItems DEF VisitsOK
    <3> QED BY <1>1, <2>2, <3>1, <3>2 DEF FinInv, InlineOK, NamesOK, PrunedOK, RootOK
  <2>4. \A n \in Nodes : (Takes(Root, n) => Takes(Root, n)') /\ (Ready(n) => Ready(n)')
    <3>1. KeepsRules(Root, Root')
      BY <2>2, Start DEF KeepsRules
    <3> QED BY <1>1, <3>1, RootStays
  <2>5. TurnOK'
    <3> SUFFICES ASSUME ~fin.changes, NEW i \in 1..Len(Root) PROVE Turned(i)'
      BY <2>2 DEF TurnOK
    <3>1. Turned(i)
      BY <1>2
    <3> QED BY <1>1, <2>2, <2>4, <3>1, TurnedStays
  <2> QED BY <2>2, <2>3, <2>5 DEF FinInv
<1>4. CASE ~fin.changed
  <2> DEFINE pass == IF fin.changes THEN "reach" ELSE "done"
  <2>1. /\ scopes' = <<Pruned(Root, fin.toPrune)>>
        /\ fin' = [fin EXCEPT !.pass = pass, !.at = 1, !.changes = FALSE, !.toPrune = {}]
    BY <1>4 DEF DepthEnd
  <2>2. pass \in {"reach", "done"}
    OBVIOUS
  <2>3. /\ fin'.pass = pass /\ fin'.changes = FALSE /\ fin'.pruned = fin.pruned /\ fin'.at = 1
        /\ FinOK'
    <3> HIDE DEF pass
    <3> QED BY <1>1, <2>1, <2>2, Start DEF FinOK
  <2> QED BY <1>1, <1>2, <2>1, <2>3, PrunedTurns
<1> QED BY <1>3, <1>4

LEMMA ShortestIsRanged ==
  ASSUME NEW choice, NEW shortest, NEW n \in Nat, Ranged(choice, shortest, n), NEW kids, NEW v
  PROVE  ShortestOf(choice, kids, v) \in Seq(1..n)
<1> DEFINE lens == [i \in 1..Len(choice) |-> CalcRefDepth(kids[choice[i]], v)]
           oks == [i \in 1..Len(choice) |-> lens[i] = MinIn(ToSet(lens))]
<1>1. ShortestOf(choice, kids, v) = Positions(oks)
  BY DEF ShortestOf
<1>2. Len(choice) \in Nat /\ Len(choice) <= n
  BY DEF Ranged
<1> HIDE DEF lens
<1>3. Len(oks) = Len(choice)
  BY <1>2
<1> HIDE DEF oks
<1>4. Positions(oks) \in Seq(1..Len(choice))
  BY <1>2, <1>3, PositionsAre
<1> QED BY <1>1, <1>2, <1>4, PlacesGrow

LEMMA DepthRuleTurns ==
  ASSUME GrammarInv, FinInv, at = "finalize", DepthRule
  PROVE  FinInv'
<1> DEFINE i == fin.at
           or == Root[i]
           kids == RootItems(i)
           shortest == IF or.keep THEN or.shortest ELSE ShortestOf(or.choice, kids, View)
           depth == IF or.keep THEN 0
                    ELSE MinIn({Inf} \cup {CalcRefDepth(kids[j], View) : j \in ToSet(or.choice)})
           deep == IF or.keep THEN {}
                   ELSE UNION {DepthVisits(kids[j], View) : j \in ToSet(or.choice)}
           changed == fin.changed \/ fin.depths[i] # depth \/ Len(or.shortest) # Len(shortest)
           prune == ~changed /\ depth = Inf /\ ~or.keep
           changes == fin.changes \/ prune
           toPrune == IF prune THEN fin.toPrune \cup {i} ELSE fin.toPrune
           x == [or EXCEPT !.shortest = shortest]
<1>1. /\ fin.pass = "depth" /\ fin.at <= Len(Root) /\ visits = <<>>
      /\ UNCHANGED <<grammar, names, index, visits>>
  BY DEF DepthRule, FinInv, VisitsOK
<1>2. i \in 1..Len(Root) /\ Used' = Used
  BY <1>1, Start DEF Used
<1>3. NamesOK' /\ VisitsOK'
  <2>1. VisitsOK'
    BY <1>1, NoItems DEF VisitsOK
  <2> QED BY <1>1, <2>1 DEF FinInv, NamesOK
<1>4. CASE ~or.live
  <2>1. fin' = [fin EXCEPT !.at = @ + 1] /\ UNCHANGED <<scopes, inline>>
    BY <1>4 DEF DepthRule
  <2>2. /\ fin'.pass = "depth" /\ fin'.changes = fin.changes /\ fin'.pruned = fin.pruned
        /\ FinOK' /\ Root' = Root
    BY <1>1, <2>1, Start DEF FinOK, Root
  <2>3. /\ InlineOK' /\ PrunedOK' /\ RootOK'
    BY <1>1, <1>2, <2>1, <2>2 DEF FinInv, InlineOK, PrunedOK, RootOK
  <2>4. \A n \in Nodes : (Takes(Root, n) => Takes(Root, n)') /\ (Ready(n) => Ready(n)')
    <3>1. KeepsRules(Root, Root')
      BY <2>2, Start DEF KeepsRules
    <3> QED BY <1>1, <2>1, <3>1, RootStays
  <2>5. TurnOK'
    <3> SUFFICES ASSUME ~fin.changes, NEW k \in 1..Len(Root) PROVE Turned(k)'
      BY <2>2 DEF TurnOK
    <3>1. Turned(k)
      BY <1>1 DEF FinInv, TurnOK
    <3> QED BY <1>1, <2>2, <2>4, <3>1, TurnedStays
  <2> QED BY <1>3, <2>2, <2>3, <2>5 DEF FinInv
<1>5. CASE or.live
  <2>1. /\ scopes' = [scopes EXCEPT ![1][i].shortest = shortest]
        /\ inline' = [n \in OrNodes |->
                        IF n \in deep
                        THEN [inline[n] EXCEPT !.shortest =
                                ShortestOf(inline[n].choice, Item[n].kids, View)]
                        ELSE inline[n]]
        /\ fin' = [fin EXCEPT !.at = @ + 1, !.depths[i] = depth, !.changed = changed,
                              !.changes = changes, !.toPrune = toPrune]
    BY <1>5 DEF DepthRule
  <2>2. changes \in BOOLEAN /\ (~changes => ~fin.changes /\ toPrune = fin.toPrune)
    OBVIOUS
  <2> HIDE DEF depth, deep, changed, prune, changes, toPrune
  <2>3. /\ fin'.pass = "depth" /\ fin'.changes = changes /\ fin'.pruned = fin.pruned
        /\ fin'.toPrune = toPrune /\ FinOK'
    BY <1>1, <2>1, <2>2, Start DEF FinOK
  <2>4. RuleOK(Used, or) /\ RuleRanged(or)
    BY <1>2, Start
  <2>5. shortest \in Seq(1..Len(or.items))
    <3>1. Len(or.items) \in Nat
      BY <2>4 DEF RuleOK
    <3>2. Ranged(or.choice, or.shortest, Len(or.items))
      BY <2>4 DEF RuleRanged
    <3> HIDE DEF or, kids
    <3>3. ShortestOf(or.choice, kids, View) \in Seq(1..Len(or.items))
      BY <3>1, <3>2, ShortestIsRanged
    <3> QED BY <3>2, <3>3 DEF Ranged
  <2>6. scopes' = <<[Root EXCEPT ![i] = x]>>
    <3> DEFINE rs == [Root EXCEPT ![i] = x]
    <3>1. scopes' = [scopes EXCEPT ![1] = rs]
      BY <2>1 DEF Root
    <3> HIDE DEF rs
    <3>2. AnySeq(scopes) /\ Len(scopes) = 1
      BY DEF GrammarInv, ScopesOK
    <3>3. [scopes EXCEPT ![1] = rs] = <<rs>>
      BY <3>2, ReplacedOnly
    <3> QED BY <3>1, <3>3 DEF rs
  <2> HIDE DEF shortest
  <2>7. /\ x.live = or.live /\ x.keep = or.keep /\ x.items = or.items /\ x.choice = or.choice
        /\ RuleRanged(x)
    <3>1. /\ x.live = or.live /\ x.keep = or.keep /\ x.items = or.items /\ x.choice = or.choice
          /\ x.shortest = shortest
      BY <2>4 DEF RuleOK
    <3> HIDE DEF x
    <3> QED BY <2>4, <2>5, <3>1 DEF RuleRanged, Ranged
  <2> HIDE DEF x
  <2>8. /\ Len(Root) \in Nat /\ Len(Root') = Len(Root)
        /\ \A k \in 1..Len(Root) : Root'[k] = IF k = i THEN x ELSE Root[k]
    BY <1>2, <2>6, Start, RootReplaced
  <2>9. InlineOK' /\ \A n \in OrNodes : inline'[n].choice = inline[n].choice
    <3>1. ASSUME NEW n \in OrNodes
          PROVE  /\ inline'[n] = [choice |-> inline'[n].choice, shortest |-> inline'[n].shortest]
                 /\ inline'[n].choice = inline[n].choice
                 /\ Ranged(inline'[n].choice, inline'[n].shortest, Len(Item[n].kids))
      <4> DEFINE s == ShortestOf(inline[n].choice, Item[n].kids, View)
      <4>1. /\ inline[n] = [choice |-> inline[n].choice, shortest |-> inline[n].shortest]
            /\ Ranged(inline[n].choice, inline[n].shortest, Len(Item[n].kids))
        BY DEF FinInv, InlineOK
      <4>2. Len(Item[n].kids) \in Nat
        <5>1. Item[n].kids \in Seq(Nodes)
          BY GrammarAssumption DEF OrNodes
        <5> QED BY <5>1
      <4>3. s \in Seq(1..Len(Item[n].kids))
        BY <4>1, <4>2, ShortestIsRanged
      <4>4. inline'[n] = IF n \in deep THEN [inline[n] EXCEPT !.shortest = s] ELSE inline[n]
        BY <2>1
      <4> HIDE DEF s
      <4> QED BY <4>1, <4>3, <4>4 DEF Ranged
    <3>2. inline' = [n \in OrNodes |-> inline'[n]]
      <4> DEFINE new(n) == IF n \in deep
                           THEN [inline[n] EXCEPT !.shortest =
                                   ShortestOf(inline[n].choice, Item[n].kids, View)]
                           ELSE inline[n]
      <4>1. inline' = [n \in OrNodes |-> new(n)]
        BY <2>1
      <4> HIDE DEF new
      <4> QED BY <4>1
    <3>3. inline' = [n \in OrNodes |-> [choice |-> inline'[n].choice, shortest |-> inline'[n].shortest]]
      BY <3>1, <3>2
    <3> QED BY <3>1, <3>3 DEF InlineOK
  <2>10. RootOK' /\ PrunedOK'
    <3>1. RootOK'
      BY <1>1, <1>2, <2>7, <2>8, Start DEF RootOK
    <3>2. PrunedOK'
      BY <2>3, <2>7, <2>8 DEF FinInv, PrunedOK
    <3> QED BY <3>1, <3>2
  <2>11. \A n \in Nodes : (Takes(Root, n) => Takes(Root, n)') /\ (Ready(n) => Ready(n)')
    <3>1. KeepsRules(Root, Root')
      BY <2>7, <2>8 DEF KeepsRules
    <3> QED BY <1>1, <2>9, <3>1, RootStays
  <2>12. TurnOK'
    <3> SUFFICES ASSUME ~changes, NEW k \in 1..Len(Root) PROVE Turned(k)'
      BY <2>3, <2>8 DEF TurnOK
    <3>1. Turned(k)
      BY <1>1, <2>2 DEF FinInv, TurnOK
    <3>2. /\ Root'[k].live = Root[k].live /\ Root'[k].keep = Root[k].keep
          /\ Root'[k].choice = Root[k].choice /\ Root'[k].items = Root[k].items
      BY <2>7, <2>8
    <3> QED BY <1>1, <2>11, <3>1, <3>2, TurnedStays
  <2> QED BY <1>3, <2>3, <2>9, <2>10, <2>12 DEF FinInv
<1> QED BY <1>4, <1>5

\* A rule for the values of n is there from now on.
LEMMA RuleIsEnsured ==
  ASSUME GrammarInv, FinInv, NEW n \in Used, Item[n].kind \in Adders,
         NEW e, e = Ensured([names |-> names, rules |-> Root], Item[n].name),
         NEW i, i = IndexOf(e.names, Item[n].name), grammar' = grammar,
         names' = e.names, scopes' = <<[e.rules EXCEPT ![i].keep = TRUE]>>,
         index' = [index EXCEPT ![n] = i]
  PROVE  /\ Len(Root') = Len(names') /\ Len(Root') \in Nat /\ Len(Root) <= Len(Root')
         /\ i \in 1..Len(Root') /\ Root'[i].live /\ Root'[i].keep
         /\ \A k \in 1..Len(Root) : Root[k].live =>
              /\ Root'[k].live /\ Root'[k].items = Root[k].items /\ Root'[k].choice = Root[k].choice
              /\ Root[k].keep => Root'[k].keep
         /\ \A k \in 1..Len(Root') : (k \in 1..Len(Root) /\ Root[k].live) \/
              (Root'[k].live => Root'[k].keep /\ Root'[k].items = <<>>)
         /\ RootOK' /\ NamesOK'
<1> DEFINE rules == [e.rules EXCEPT ![i].keep = TRUE]
<1>1. Root' = rules
  BY DEF Root
<1>2. /\ AnySeq(e.rules) /\ Len(e.rules) = Len(e.names) /\ Len(e.rules) \in Nat
      /\ Len(Root) <= Len(e.rules) /\ i \in 1..Len(e.rules) /\ e.rules[i].live
      /\ ToSet(names) \cup {Item[n].name} \subseteq ToSet(e.names)
      /\ \A k \in 1..Len(e.rules) :
           \/ k \in 1..Len(Root) /\ e.rules[k] = Root[k]
           \/ k = i /\ e.rules[k] = NewOr /\ (k \in 1..Len(Root) => ~Root[k].live)
  <2>1. PICK ns, rs, name : ns = names /\ rs = Root /\ name = Item[n].name
    OBVIOUS
  <2>2. AnySeq(ns) /\ AnySeq(rs) /\ Len(rs) = Len(ns)
    BY <2>1, Start
  <2>3. e = Ensured([names |-> ns, rules |-> rs], name) /\ i = IndexOf(e.names, name)
    BY <2>1
  <2>4. /\ AnySeq(e.names) /\ AnySeq(e.rules) /\ Len(e.rules) = Len(e.names) /\ Len(e.rules) \in Nat
        /\ Len(rs) <= Len(e.rules)
    BY <2>2, <2>3, LiveRule
  <2>5. i \in 1..Len(e.rules) /\ e.rules[i].live
    BY <2>2, <2>3, LiveRuleIsThere
  <2>6. ToSet(ns) \cup {name} \subseteq ToSet(e.names)
    BY <2>2, <2>3, LiveRuleIsNamed
  <2>7. \A k \in 1..Len(e.rules) :
          \/ k \in 1..Len(rs) /\ e.rules[k] = rs[k]
          \/ k = i /\ e.rules[k] = NewOr /\ (k \in 1..Len(rs) => ~rs[k].live)
    BY <2>2, <2>3, LiveRuleIsAlone
  <2> QED BY <2>1, <2>4, <2>5, <2>6, <2>7
<1> DEFINE x == [e.rules[i] EXCEPT !.keep = TRUE]
<1>3. /\ Len(rules) = Len(e.rules)
      /\ \A k \in 1..Len(e.rules) : rules[k] = IF k = i THEN x ELSE e.rules[k]
  <2>1. rules = [e.rules EXCEPT ![i] = x]
    OBVIOUS
  <2> HIDE DEF rules, x
  <2>2. PICK S : e.rules \in Seq(S)
    BY <1>2 DEF AnySeq
  <2> QED BY <2>1, <2>2
<1>4. ASSUME NEW k \in 1..Len(e.rules)
      PROVE  /\ RuleOK(Used, e.rules[k]) /\ RuleRanged(e.rules[k])
             /\ \A j \in 1..Len(e.rules[k].items) : e.rules[k].items[j].node \in Used
  <2>1. CASE k \in 1..Len(Root) /\ e.rules[k] = Root[k]
    BY <2>1, Start
  <2>2. CASE e.rules[k] = NewOr
    <3>1. RuleOK(Used, NewOr) /\ RuleRanged(NewOr) /\ NewOr.items = <<>>
      BY NewIsRanged, NewRules
    <3> QED BY <2>2, <3>1
  <2> QED BY <1>2, <2>1, <2>2
<1>5. /\ x.live = e.rules[i].live /\ x.keep = TRUE /\ x.items = e.rules[i].items
      /\ x.choice = e.rules[i].choice /\ x.shortest = e.rules[i].shortest
  <2>1. RuleOK(Used, e.rules[i])
    BY <1>2, <1>4
  <2> QED BY <2>1 DEF RuleOK
<1> HIDE DEF x, rules
<1>6. Len(Root') = Len(names') /\ Len(Root') \in Nat /\ Len(Root) <= Len(Root') /\ i \in 1..Len(Root')
  BY <1>1, <1>2, <1>3
<1>7. Root'[i].live /\ Root'[i].keep
  BY <1>1, <1>2, <1>3, <1>5
<1>8. ASSUME NEW k \in 1..Len(Root), Root[k].live
      PROVE  /\ Root'[k].live /\ Root'[k].items = Root[k].items /\ Root'[k].choice = Root[k].choice
             /\ Root[k].keep => Root'[k].keep
  <2>1. k \in 1..Len(e.rules) /\ e.rules[k] = Root[k]
    BY <1>2, <1>8, Start
  <2> QED BY <1>1, <1>3, <1>5, <1>8, <2>1
<1>9. ASSUME NEW k \in 1..Len(Root'), ~ (k \in 1..Len(Root) /\ Root[k].live), Root'[k].live
      PROVE  Root'[k].keep /\ Root'[k].items = <<>>
  <2>1. k \in 1..Len(e.rules)
    BY <1>1, <1>3
  <2>2. CASE k \in 1..Len(Root) /\ e.rules[k] = Root[k]
    <3>1. k # i
      BY <1>2, <1>9, <2>2
    <3>2. Root'[k] = Root[k]
      BY <1>1, <1>3, <2>1, <2>2, <3>1
    <3> QED BY <1>9, <2>2, <3>2
  <2>3. CASE k = i /\ e.rules[k] = NewOr
    BY <1>1, <1>3, <1>5, <2>1, <2>3, NewIsRanged
  <2> QED BY <1>2, <2>1, <2>2, <2>3
<1>10. RootOK'
  <2>1. ASSUME NEW k \in 1..Len(Root')
        PROVE  /\ RuleRanged(Root'[k])
               /\ \A j \in 1..Len(Root'[k].items) : Root'[k].items[j].node \in Used
    <3>1. k \in 1..Len(e.rules)
      BY <1>1, <1>3
    <3>2. Root'[k] = IF k = i THEN x ELSE e.rules[k]
      BY <1>1, <1>3, <3>1
    <3>3. /\ RuleRanged(e.rules[k])
          /\ \A j \in 1..Len(e.rules[k].items) : e.rules[k].items[j].node \in Used
      BY <1>4, <3>1
    <3> QED BY <1>5, <3>2, <3>3 DEF RuleRanged
  <2>2. Used' = Used
    BY DEF Used
  <2> QED BY <1>6, <2>1, <2>2 DEF RootOK
<1>11. NamesOK'
  <2>1. index \in [NameNodes -> {-1} \cup 1..Len(names)]
    BY DEF GrammarInv, Indexed
  <2>2. \A m \in NameNodes : index'[m] = IF m = n THEN i ELSE index[m]
    BY <2>1
  <2> QED BY <1>2, <2>2 DEF FinInv, NamesOK
<1> QED BY <1>6, <1>7, <1>8, <1>9, <1>10, <1>11

\* The call of CalcReachability on top, and the item that it comes to.
LEMMA TopCall ==
  ASSUME GrammarInv, FinInv, visits # <<>>
  PROVE  /\ AnySeq(visits) /\ Len(visits) \in Nat \ {0} /\ Head(visits) = visits[1]
         /\ fin.pass = "reach" /\ fin.at \in 1..Len(Root) /\ Root[fin.at].live
         /\ \A k \in 1..Len(visits) :
              /\ CallOK(visits[k]) /\ (~fin.changes => Passed(visits[k]))
              /\ VisitItems(visits[k]) \in Seq(Used) /\ Len(VisitItems(visits[k])) \in Nat
<1>1. AnySeq(visits) /\ fin.pass = "reach" /\ fin.at \in 1..Len(Root) /\ Root[fin.at].live
  BY DEF FinInv, VisitsOK
<1>2. Len(visits) \in Nat \ {0} /\ Head(visits) = visits[1]
  BY <1>1 DEF AnySeq
<1>3. ASSUME NEW k \in 1..Len(visits)
      PROVE  /\ CallOK(visits[k]) /\ (~fin.changes => Passed(visits[k]))
             /\ VisitItems(visits[k]) \in Seq(Used) /\ Len(VisitItems(visits[k])) \in Nat
  <2>1. PICK call : call = visits[k]
    OBVIOUS
  <2>2. CallOK(call) /\ (~fin.changes => Passed(call))
    BY <2>1 DEF FinInv, VisitsOK
  <2>3. call.node # NoNode => call.node \in Used
    BY <2>2 DEF CallOK
  <2>4. VisitItems(call) \in Seq(Used) /\ Len(VisitItems(call)) \in Nat
    BY <1>1, <2>3, VisitItemsAre DEF FinInv
  <2> QED BY <2>1, <2>2, <2>4
<1> QED BY <1>1, <1>2, <1>3

\* What ReachItem does before the call.
ItemStays ==
  /\ FinOK' /\ InlineOK' /\ RootOK' /\ NamesOK' /\ PrunedOK' /\ TurnOK'
  /\ fin'.pass = "reach" /\ fin'.at = fin.at /\ (~fin'.changes => ~fin.changes /\ names' = names)
  /\ Len(Root) <= Len(Root') /\ Len(Root') \in Nat
  /\ Root'[fin.at].live /\ Root'[fin.at].items = Root[fin.at].items
  /\ \A n \in Nodes : (Takes(Root, n) => Takes(Root, n)') /\ (names' = names => (Ready(n) => Ready(n)'))

LEMMA PlainItem ==
  ASSUME GrammarInv, FinInv, visits # <<>>, UNCHANGED <<grammar, inline, names, scopes, index, fin>>
  PROVE  ItemStays
<1>1. Root' = Root /\ Used' = Used
  BY DEF Root, Used
<1>2. fin.pass = "reach" /\ fin.at \in 1..Len(Root) /\ Root[fin.at].live /\ Len(Root) \in Nat
  BY TopCall, Start
<1>3. FinOK' /\ InlineOK' /\ RootOK' /\ NamesOK' /\ PrunedOK'
  BY <1>1 DEF FinInv, FinOK, InlineOK, RootOK, NamesOK, PrunedOK
<1>4. \A n \in Nodes : (Takes(Root, n) => Takes(Root, n)') /\ (Ready(n) => Ready(n)')
  <2>1. KeepsRules(Root, Root')
    BY <1>1, Start DEF KeepsRules
  <2> QED BY <2>1, RootStays
<1>5. TurnOK'
  <2> SUFFICES ASSUME ~fin.changes, NEW i \in 1..Len(Root), i < fin.at PROVE Turned(i)'
    BY <1>1, <1>2 DEF TurnOK
  <2>1. Turned(i)
    BY <1>2 DEF FinInv, TurnOK
  <2> QED BY <1>1, <1>4, <2>1, TurnedStays
<1> QED BY <1>1, <1>2, <1>3, <1>4, <1>5 DEF ItemStays

LEMMA AdderItem ==
  ASSUME GrammarInv, FinInv, visits # <<>>, NEW n \in Used, Item[n].kind \in Adders,
         NEW e, e = Ensured([names |-> names, rules |-> Root], Item[n].name),
         NEW i, i = IndexOf(e.names, Item[n].name), UNCHANGED <<grammar, inline>>,
         names' = e.names, scopes' = <<[e.rules EXCEPT ![i].keep = TRUE]>>,
         index' = [index EXCEPT ![n] = i], fin' = [fin EXCEPT !.changes = @ \/ e.names # names]
  PROVE  ItemStays /\ Takes(Root, n)'
<1>1. /\ Len(Root') = Len(names') /\ Len(Root') \in Nat /\ Len(Root) <= Len(Root')
      /\ i \in 1..Len(Root') /\ Root'[i].live /\ Root'[i].keep
      /\ \A k \in 1..Len(Root) : Root[k].live =>
           /\ Root'[k].live /\ Root'[k].items = Root[k].items /\ Root'[k].choice = Root[k].choice
           /\ Root[k].keep => Root'[k].keep
      /\ \A k \in 1..Len(Root') : (k \in 1..Len(Root) /\ Root[k].live) \/
           (Root'[k].live => Root'[k].keep /\ Root'[k].items = <<>>)
      /\ RootOK' /\ NamesOK'
  BY RuleIsEnsured
<1>2. fin.pass = "reach" /\ fin.at \in 1..Len(Root) /\ Root[fin.at].live /\ Len(Root) \in Nat
  BY TopCall, Start
<1>3. /\ FinOK' /\ fin'.pass = "reach" /\ fin'.at = fin.at /\ fin'.toPrune = fin.toPrune
      /\ fin'.pruned = fin.pruned /\ (~fin'.changes => ~fin.changes /\ names' = names)
  <2>1. fin' = [fin EXCEPT !.changes = fin.changes \/ names' # names]
    OBVIOUS
  <2> QED BY <1>2, <2>1 DEF FinInv, FinOK
<1>4. InlineOK'
  BY DEF FinInv, InlineOK
<1>5. PrunedOK'
  <2> SUFFICES ASSUME NEW k \in fin.pruned, k \in 1..Len(Root'), Root'[k].live
               PROVE  Root'[k].keep /\ Root'[k].items = <<>>
    BY <1>3 DEF PrunedOK
  <2>1. CASE k \in 1..Len(Root) /\ Root[k].live
    BY <1>1, <2>1 DEF FinInv, PrunedOK
  <2> QED BY <1>1, <2>1
<1>6. n \in NameNodes /\ \A m \in NameNodes : index'[m] = IF m = n THEN i ELSE index[m]
  <2>1. n \in Nodes
    BY UsedIsClosed DEF GrammarInv
  <2>2. n \in NameNodes
    BY <2>1 DEF NameNodes, Adders
  <2>3. DOMAIN index = NameNodes
    BY DEF GrammarInv, Indexed
  <2>4. index = [m \in NameNodes |-> index[m]]
    BY DEF GrammarInv, Indexed
  <2> QED BY <2>2, <2>3, <2>4
<1>7. Takes(Root, n)'
  BY <1>1, <1>6 DEF Takes
<1>8. ASSUME NEW m \in Nodes, Takes(Root, m)
      PROVE  Takes(Root, m)'
  <2>1. CASE m = n
    BY <1>7, <2>1
  <2>2. CASE m # n /\ Item[m].kind \in Adders
    <3>1. m \in NameNodes /\ index'[m] = index[m]
      BY <1>6, <2>2 DEF NameNodes, Adders
    <3>2. index[m] \in 1..Len(Root) /\ Root[index[m]].live /\ Root[index[m]].keep
      BY <1>8, <2>2 DEF Takes
    <3>3. index[m] \in 1..Len(Root') /\ Root'[index[m]].live /\ Root'[index[m]].keep
      <4>1. PICK k : k = index[m]
        OBVIOUS
      <4> QED BY <4>1, <1>1, <1>2, <3>2
    <3> QED BY <3>1, <3>3 DEF Takes
  <2>3. CASE Item[m].kind \notin Adders
    BY <2>3 DEF Takes
  <2> QED BY <2>1, <2>2, <2>3
<1>9. ASSUME names' = names, NEW m \in Nodes, Ready(m)
      PROVE  Ready(m)'
  <2>1. \A k \in Nodes : Settled(k) => Settled(k)'
    BY <1>8 DEF Settled
  <2> QED BY <1>9, <2>1, ReadyStays
<1>10. TurnOK'
  <2> SUFFICES ASSUME ~fin'.changes, NEW k \in 1..Len(Root), k < fin.at PROVE Turned(k)'
    BY <1>1, <1>2, <1>3 DEF TurnOK
  <2>1. Turned(k)
    BY <1>2, <1>3 DEF FinInv, TurnOK
  <2>2. \A m \in Nodes : Ready(m) => Ready(m)'
    BY <1>3, <1>9
  <2>3. CASE Root[k].live
    <3>1. /\ Root'[k].live => Root[k].live
          /\ Root[k].keep => Root'[k].keep
          /\ Root'[k].choice = Root[k].choice /\ Root'[k].items = Root[k].items
      BY <1>1, <2>3
    <3>2. fin.pass = "reach" /\ k \in fin.toPrune => fin'.pass = "reach" /\ k \in fin'.toPrune
      BY <1>3
    <3> QED BY <2>1, <2>2, <2>3, <3>1, <3>2, TurnedStays
  <2>4. CASE ~Root[k].live
    <3>1. k \in 1..Len(Root')
      BY <1>1, <1>2
    <3>2. Root'[k].live => Root'[k].keep /\ Root'[k].items = <<>>
      BY <1>1, <2>4, <3>1
    <3> QED BY <3>2, NoItems DEF Turned
  <2> QED BY <2>3, <2>4
<1>11. Root'[fin.at].live /\ Root'[fin.at].items = Root[fin.at].items
  BY <1>1, <1>2
<1> QED BY <1>1, <1>3, <1>4, <1>5, <1>7, <1>8, <1>9, <1>10, <1>11 DEF ItemStays

LEMMA Prefixed ==
  ASSUME NEW x, NEW w, AnySeq(w)
  PROVE  /\ AnySeq(<<x>> \o w) /\ Len(w) \in Nat /\ Len(<<x>> \o w) = Len(w) + 1
         /\ (<<x>> \o w)[1] = x /\ \A k \in 1..Len(w) : (<<x>> \o w)[k + 1] = w[k]
         /\ \A k \in 1..(Len(w) + 1) : k = 1 \/ (k - 1 \in 1..Len(w) /\ (<<x>> \o w)[k] = w[k - 1])
<1>1. PICK S : w \in Seq(S)
  BY DEF AnySeq
<1>2. w \in Seq(S \cup {x}) /\ <<x>> \in Seq(S \cup {x}) /\ Len(w) \in Nat
  BY <1>1
<1>3. <<x>> \o w \in Seq(S \cup {x}) /\ Len(<<x>> \o w) = Len(w) + 1
  BY <1>2
<1>4. (<<x>> \o w)[1] = x /\ \A k \in 1..Len(w) : (<<x>> \o w)[k + 1] = w[k]
  BY <1>2
<1>5. \A k \in 1..(Len(w) + 1) : k = 1 \/ (k - 1 \in 1..Len(w) /\ (<<x>> \o w)[k] = w[k - 1])
  BY <1>2
<1> QED BY <1>2, <1>3, <1>4, <1>5 DEF AnySeq

\* A call in progress stays as it is.
LEMMA VisitStays ==
  ASSUME GrammarInv, FinInv, grammar' = grammar, fin'.at = fin.at, Root'[fin.at].items = Root[fin.at].items,
         \A n \in Nodes : (Takes(Root, n) => Takes(Root, n)') /\ (names' = names => (Ready(n) => Ready(n)')),
         ~fin'.changes => ~fin.changes /\ names' = names,
         NEW k \in 1..Len(visits), NEW call, call = visits[k], visits # <<>>
  PROVE  /\ VisitItems(call)' = VisitItems(call) /\ VisitItems(call) \in Seq(Used)
         /\ CallOK(call)' /\ (~fin'.changes => Passed(call)')
<1>1. /\ CallOK(call) /\ (~fin.changes => Passed(call)) /\ VisitItems(call) \in Seq(Used)
      /\ Used \subseteq Nodes
  BY TopCall, Start
<1>2. VisitItems(call)' = VisitItems(call)
  BY DEF VisitItems, RootItems
<1>3. CallOK(call)'
  BY <1>1, <1>2, CallStays DEF GrammarInv
<1>4. ASSUME ~fin'.changes
      PROVE  Passed(call)'
  <2>1. Passed(call) /\ names' = names /\ \A n \in Nodes : Ready(n) => Ready(n)'
    BY <1>1, <1>4
  <2>2. VisitItems(call) \in Seq(Nodes)
    BY <1>1
  <2> QED BY <1>1, <1>2, <2>1, <2>2, PassedStays
<1> QED BY <1>1, <1>2, <1>3, <1>4

LEMMA ReachItemTurns ==
  ASSUME GrammarInv, FinInv, ReachItem
  PROVE  FinInv'
<1>1. PICK call, n, e, i :
        /\ call = Head(visits) /\ n = VisitItems(call)[call.at]
        /\ e = Ensured([names |-> names, rules |-> Root], Item[n].name)
        /\ i = IndexOf(e.names, Item[n].name)
  OBVIOUS
<1>2. /\ visits # <<>> /\ ~Visited(call) /\ visits' = <<Visit(n)>> \o visits
      /\ UNCHANGED <<grammar, inline>>
      /\ IF Item[n].kind \in Adders
         THEN /\ names' = e.names
              /\ scopes' = <<[e.rules EXCEPT ![i].keep = TRUE]>>
              /\ index' = [index EXCEPT ![n] = i]
              /\ fin' = [fin EXCEPT !.changes = @ \/ e.names # names]
         ELSE UNCHANGED <<names, scopes, index, fin>>
  BY <1>1 DEF ReachItem, Adders
<1>3. /\ AnySeq(visits) /\ Len(visits) \in Nat \ {0} /\ call = visits[1] /\ 1 \in 1..Len(visits)
      /\ fin.pass = "reach" /\ fin.at \in 1..Len(Root) /\ Root[fin.at].live
      /\ CallOK(call) /\ VisitItems(call) \in Seq(Used) /\ Len(VisitItems(call)) \in Nat
  <2>1. /\ AnySeq(visits) /\ Len(visits) \in Nat \ {0} /\ call = visits[1]
        /\ fin.pass = "reach" /\ fin.at \in 1..Len(Root) /\ Root[fin.at].live
    BY <1>1, <1>2, TopCall
  <2>2. 1 \in 1..Len(visits)
    BY <2>1
  <2>3. /\ CallOK(visits[1]) /\ VisitItems(visits[1]) \in Seq(Used)
        /\ Len(VisitItems(visits[1])) \in Nat
    BY <1>2, <2>2, TopCall
  <2> QED BY <2>1, <2>2, <2>3
<1>4. call.at \in 1..Len(VisitItems(call)) /\ n \in Used /\ n \in Nodes /\ n # NoNode
  <2>1. call.at \in 1..Len(VisitItems(call))
    BY <1>2, <1>3 DEF Visited, CallOK
  <2>2. n \in Used
    BY <1>1, <1>3, <2>1
  <2> QED BY <2>1, <2>2, Start
<1>5. ItemStays /\ (Item[n].kind \in Adders => Takes(Root, n)')
  <2>1. CASE Item[n].kind \in Adders
    <3>1. /\ names' = e.names /\ scopes' = <<[e.rules EXCEPT ![i].keep = TRUE]>>
          /\ index' = [index EXCEPT ![n] = i]
          /\ fin' = [fin EXCEPT !.changes = @ \/ e.names # names]
      BY <1>2, <2>1
    <3>2. /\ e = Ensured([names |-> names, rules |-> Root], Item[n].name)
          /\ i = IndexOf(e.names, Item[n].name)
      BY <1>1
    <3> QED BY <1>2, <1>4, <2>1, <3>1, <3>2, AdderItem
  <2>2. CASE Item[n].kind \notin Adders
    BY <1>2, <2>2, PlainItem
  <2> QED BY <2>1, <2>2
<1>6. /\ FinOK' /\ InlineOK' /\ RootOK' /\ NamesOK' /\ PrunedOK' /\ TurnOK'
      /\ fin'.pass = "reach" /\ fin'.at = fin.at /\ (~fin'.changes => ~fin.changes /\ names' = names)
      /\ Len(Root) <= Len(Root') /\ Len(Root') \in Nat
      /\ Root'[fin.at].live /\ Root'[fin.at].items = Root[fin.at].items
      /\ \A m \in Nodes : (Takes(Root, m) => Takes(Root, m)') /\ (names' = names => (Ready(m) => Ready(m)'))
  BY <1>5 DEF ItemStays
<1>7. /\ AnySeq(visits') /\ Len(visits') = Len(visits) + 1 /\ visits'[1] = Visit(n)
      /\ \A k \in 1..Len(visits) : visits'[k + 1] = visits[k]
      /\ \A k \in 1..Len(visits') : k = 1 \/ (k - 1 \in 1..Len(visits) /\ visits'[k] = visits[k - 1])
  BY <1>2, <1>3, Prefixed
<1>8. ASSUME NEW k \in 1..Len(visits), NEW c, c = visits[k]
      PROVE  /\ VisitItems(c)' = VisitItems(c) /\ VisitItems(c) \in Seq(Used)
             /\ CallOK(c)' /\ (~fin'.changes => Passed(c)')
  BY <1>2, <1>6, <1>8, VisitStays
<1>9. ASSUME NEW c, c = Visit(n)
      PROVE  CallOK(c)' /\ Passed(c)' /\ c.node = n
  <2>1. c = [node |-> n, at |-> 1, choice |-> <<>>] /\ c.node = n /\ c.at = 1 /\ c.choice = <<>>
    BY <1>9 DEF Visit
  <2>2. VisitItems(c)' = Item[n].kids
    BY <1>4, <2>1 DEF VisitItems
  <2>3. Item[n].kids \in Seq(Used) /\ Len(Item[n].kids) \in Nat
    <3>1. Item[n].kids \in Seq(Used)
      BY <1>4, KidIsUsed DEF GrammarInv
    <3> QED BY <3>1
  <2>4. Used' = Used
    BY <1>2 DEF Used
  <2>5. Takes(Root, n)'
    <3>1. CASE Item[n].kind \in Adders
      BY <1>5, <3>1
    <3>2. CASE Item[n].kind \notin Adders
      BY <3>2 DEF Takes
    <3> QED BY <3>1, <3>2
  <2>6. <<>> \in Seq(1..(1 - 1)) /\ Len(<<>>) = 0
    OBVIOUS
  <2>7. CallOK(c)'
    BY <1>4, <2>1, <2>2, <2>3, <2>4, <2>5, <2>6 DEF CallOK
  <2>8. Passed(c)'
    BY <2>1, <2>6 DEF Passed
  <2> QED BY <2>1, <2>7, <2>8
<1>10. VisitsOK'
  <2>1. ASSUME NEW k \in 1..Len(visits'), NEW c, c = visits'[k]
        PROVE  /\ CallOK(c)' /\ (~fin'.changes => Passed(c)')
               /\ c.node = NoNode <=> k = Len(visits')
    <3>1. CASE k = 1
      <4>1. c = Visit(n) /\ k # Len(visits')
        BY <1>3, <1>7, <2>1, <3>1
      <4>2. CallOK(c)' /\ Passed(c)' /\ c.node = n
        BY <1>9, <4>1
      <4> QED BY <1>4, <4>1, <4>2
    <3>2. CASE k # 1
      <4>1. PICK j \in 1..Len(visits) : j = k - 1 /\ c = visits[j]
        BY <1>7, <2>1, <3>2
      <4>2. CallOK(c)' /\ (~fin'.changes => Passed(c)')
        BY <1>8, <4>1
      <4>3. visits[j].node = NoNode <=> j = Len(visits)
        BY <4>1 DEF FinInv, VisitsOK
      <4>4. j = Len(visits) <=> k = Len(visits')
        BY <1>3, <1>7, <2>1, <4>1
      <4> QED BY <4>1, <4>2, <4>3, <4>4
    <3> QED BY <3>1, <3>2
  <2>2. ASSUME NEW k \in 1..(Len(visits') - 1), NEW outer, outer = visits'[k + 1]
        PROVE  /\ outer.at <= Len(VisitItems(outer)')
               /\ visits'[k].node = VisitItems(outer)'[outer.at]
    <3>1. k \in 1..Len(visits) /\ outer = visits[k]
      BY <1>3, <1>7, <2>2
    <3>2. VisitItems(outer)' = VisitItems(outer)
      BY <1>8, <3>1
    <3>3. CASE k = 1
      <4>1. outer = call /\ visits'[k].node = n
        <5>1. Visit(n).node = n
          BY DEF Visit
        <5> QED BY <1>3, <1>7, <3>1, <3>3, <5>1
      <4> QED BY <1>1, <1>3, <1>4, <3>2, <4>1
    <3>4. CASE k # 1
      <4>1. PICK j \in 1..(Len(visits) - 1) : k = j + 1 /\ visits'[k] = visits[j]
        BY <1>3, <1>7, <2>2, <3>1, <3>4
      <4>2. outer = visits[j + 1]
        BY <3>1, <4>1
      <4>3. outer.at <= Len(VisitItems(outer)) /\ visits[j].node = VisitItems(outer)[outer.at]
        BY <4>1, <4>2 DEF FinInv, VisitsOK
      <4> QED BY <3>2, <4>1, <4>3
    <3> QED BY <3>3, <3>4
  <2> QED BY <1>3, <1>6, <1>7, <2>1, <2>2 DEF VisitsOK
<1> QED BY <1>6, <1>10 DEF FinInv

\* A call that is over and its caller.
LEMMA ReturningCall ==
  ASSUME GrammarInv, FinInv, visits # <<>>, Visited(Head(visits)), Head(visits).node # NoNode
  PROVE  /\ Len(visits) \in Nat /\ Len(visits) >= 2 /\ Head(visits) = visits[1]
         /\ Head(Tail(visits)) = visits[2]
         /\ visits[2].at \in 1..Len(VisitItems(visits[2]))
         /\ visits[1].node = VisitItems(visits[2])[visits[2].at]
<1>1. /\ AnySeq(visits) /\ Len(visits) \in Nat \ {0} /\ Head(visits) = visits[1]
      /\ \A k \in 1..Len(visits) : CallOK(visits[k])
  BY TopCall
<1>2. 1 \in 1..Len(visits)
  BY <1>1
<1>3. 1 # Len(visits)
  BY <1>1, <1>2 DEF FinInv, VisitsOK
<1>4. Len(visits) >= 2 /\ 1 \in 1..(Len(visits) - 1) /\ 2 \in 1..Len(visits)
  <2>1. \A z \in Nat \ {0} : z # 1 => z >= 2 /\ 1 \in 1..(z - 1) /\ 2 \in 1..z
    OBVIOUS
  <2>2. Len(visits) \in Nat \ {0} /\ Len(visits) # 1
    BY <1>1, <1>3
  <2> QED BY <2>1, <2>2
<1>5. Head(Tail(visits)) = visits[2]
  <2>1. PICK S : visits \in Seq(S)
    BY <1>1 DEF AnySeq
  <2> QED BY <1>4, <2>1
<1>6. visits[1 + 1].at <= Len(VisitItems(visits[1 + 1]))
      /\ visits[1].node = VisitItems(visits[1 + 1])[visits[1 + 1].at]
  BY <1>4 DEF FinInv, VisitsOK
<1>7. visits[2].at \in Nat \ {0} /\ Len(VisitItems(visits[2])) \in Nat
  <2>1. CallOK(visits[2]) /\ Len(VisitItems(visits[2])) \in Nat
    BY <1>4, TopCall
  <2>2. visits[2].at \in 1..(Len(VisitItems(visits[2])) + 1)
    BY <2>1 DEF CallOK
  <2> QED BY <2>1, <2>2
<1> QED BY <1>1, <1>4, <1>5, <1>6, <1>7

\* Its kids are done: what it is about is ready unless this turn adds a rule.
LEMMA CallIsOver ==
  ASSUME GrammarInv, FinInv, NEW k \in 1..Len(visits), NEW call, call = visits[k], visits # <<>>,
         Visited(call), call.node # NoNode
  PROVE  /\ Item[call.node].kind = "or" =>
              /\ call.choice \in Seq(1..Len(Item[call.node].kids))
              /\ Len(call.choice) <= Len(Item[call.node].kids)
         /\ ~fin.changes /\ Known(call.node) =>
              /\ Len(call.choice) = Len(Item[call.node].kids)
              /\ \A m \in KidsOf(call.node) : Known(m) /\ Ready(m)
<1> DEFINE kids == Item[call.node].kids
<1>1. CallOK(call) /\ (~fin.changes => Passed(call))
  BY TopCall
<1>2. call.node \in Used /\ call.node \in Nodes
  BY <1>1, Start DEF CallOK
<1>3. VisitItems(call) = kids /\ kids \in Seq(Used) /\ Len(kids) \in Nat
  <2>1. kids \in Seq(Used)
    BY <1>2, KidIsUsed DEF GrammarInv
  <2> QED BY <2>1 DEF VisitItems
<1> HIDE DEF kids
<1>4. /\ call.at \in 1..(Len(kids) + 1)
      /\ call.choice \in Seq(1..(call.at - 1)) /\ Len(call.choice) <= call.at - 1
      /\ Len(call.choice) \in Nat
  BY <1>1, <1>3 DEF CallOK
<1>5. call.at > Len(kids) \/ Stops(call)
  BY <1>3 DEF Visited
<1>6. ASSUME Item[call.node].kind = "or"
      PROVE  call.choice \in Seq(1..Len(kids)) /\ Len(call.choice) <= Len(kids)
  <2>1. call.at = Len(kids) + 1
    BY <1>3, <1>4, <1>5, <1>6 DEF Stops
  <2>2. call.at - 1 = Len(kids)
    BY <1>3, <2>1
  <2> QED BY <1>4, <2>2
<1>7. ASSUME ~fin.changes, Known(call.node)
      PROVE  Len(call.choice) = Len(kids) /\ \A m \in KidsOf(call.node) : Known(m) /\ Ready(m)
  <2>1. ASSUME NEW m \in KidsOf(call.node)
        PROVE  Known(m)
    <3>1. m \in Below[call.node]
      BY <1>2, BelowIsClosed DEF Closed
    <3>2. Below[m] \subseteq Below[call.node]
      BY <1>2, <3>1, BelowNests
    <3> QED BY <1>7, <3>2 DEF Known
  <2>2. \A j \in 1..Len(kids) : kids[j] \in KidsOf(call.node)
    BY <1>3 DEF KidsOf, ToSet, kids
  <2>3. \A j \in 1..(call.at - 1) : j \in 1..Len(kids) /\ VisitItems(call)[j] = kids[j]
    BY <1>3, <1>4
  <2>4. Len(call.choice) = call.at - 1
    BY <1>1, <1>7, <2>1, <2>2, <2>3 DEF Passed
  <2>5. call.at = Len(kids) + 1
    BY <1>3, <1>4, <1>5, <2>4 DEF Stops
  <2>6. ASSUME NEW m \in KidsOf(call.node)
        PROVE  Ready(m)
    <3>1. PICK j \in 1..Len(kids) : m = kids[j]
      BY <1>3 DEF KidsOf, ToSet, kids
    <3>2. j \in 1..(call.at - 1) /\ VisitItems(call)[j] = m
      BY <1>3, <2>5, <3>1
    <3>3. Ready(VisitItems(call)[j])
      BY <1>1, <1>7, <3>2 DEF Passed
    <3> QED BY <3>2, <3>3
  <2>7. Len(call.choice) = Len(kids)
    BY <1>3, <2>4, <2>5
  <2> QED BY <2>1, <2>6, <2>7
<1> QED BY <1>6, <1>7 DEF kids

LEMMA VerdictIs ==
  ASSUME GrammarInv, NEW call, call.node \in Nodes, Known(call.node),
         Len(call.choice) = Len(Item[call.node].kids)
  PROVE  Verdict(call) /\ (Item[call.node].kind = "or" => call.choice # <<>>)
<1> DEFINE n == call.node
<1>1. n \in Below[n]
  BY BelowIsClosed
<1>2. /\ Item[n].kind \in RefKinds => Item[n].name \in ToSet(names)
      /\ Item[n].kind = "or" => Item[n].kids # <<>>
  BY <1>1 DEF Known
<1>3. Item[n].kind \in RefKinds => IndexOf(names, Item[n].name) # 0
  <2>1. AnySeq(names)
    BY DEF GrammarInv
  <2>2. ASSUME NEW name \in ToSet(names)
        PROVE  IndexOf(names, name) # 0
    <3>1. Len(names) \in Nat /\ IndexOf(names, name) \in 1..Len(names)
      BY <2>1, IndexIs, SeqFacts
    <3> QED BY <3>1
  <2> QED BY <1>2, <2>2
<1>4. Item[n].kind = "or" => call.choice # <<>>
  <2>1. AnySeq(Item[n].kids)
    BY GrammarAssumption DEF AnySeq
  <2>2. Item[n].kind = "or" => Len(Item[n].kids) # 0
    BY <1>2, <2>1, SeqFacts
  <2> QED BY <2>2, NoItems
<1> QED BY <1>3, <1>4 DEF Verdict

LEMMA CallReturned ==
  ASSUME NEW x, NEW w, AnySeq(w), Len(w) >= 2
  PROVE  /\ AnySeq(<<x>> \o Tail(Tail(w))) /\ Len(<<x>> \o Tail(Tail(w))) = Len(w) - 1
         /\ (<<x>> \o Tail(Tail(w)))[1] = x
         /\ \A k \in 2..(Len(w) - 1) : (<<x>> \o Tail(Tail(w)))[k] = w[k + 1]
<1>1. PICK S : w \in Seq(S)
  BY DEF AnySeq
<1>2. w \in Seq(S \cup {x}) /\ <<x>> \in Seq(S \cup {x}) /\ Len(w) \in Nat
  BY <1>1
<1>3. PICK t : t = Tail(Tail(w))
  OBVIOUS
<1>4. t \in Seq(S \cup {x}) /\ Len(t) = Len(w) - 2 /\ \A k \in 1..(Len(w) - 2) : t[k] = w[k + 2]
  <2>1. PICK u : u = Tail(w)
    OBVIOUS
  <2>2. u \in Seq(S \cup {x}) /\ Len(u) = Len(w) - 1 /\ \A k \in 1..(Len(w) - 1) : u[k] = w[k + 1]
    BY <1>2, <2>1
  <2>3. t = Tail(u)
    BY <1>3, <2>1
  <2> QED BY <1>2, <2>2, <2>3
<1>5. <<x>> \o t \in Seq(S \cup {x}) /\ Len(<<x>> \o t) = Len(w) - 1 /\ (<<x>> \o t)[1] = x
  BY <1>2, <1>4
<1>6. ASSUME NEW k \in 2..(Len(w) - 1)
      PROVE  (<<x>> \o t)[k] = w[k + 1]
  <2>1. k - 1 \in 1..(Len(w) - 2) /\ (k - 1) + 2 = k + 1
    BY <1>2
  <2>2. (<<x>> \o t)[k] = t[k - 1]
    BY <1>2, <1>4, <2>1
  <2> QED BY <1>4, <2>1, <2>2
<1> QED BY <1>3, <1>5, <1>6 DEF AnySeq

LEMMA ReachReturnTurns ==
  ASSUME GrammarInv, FinInv, ReachReturn
  PROVE  FinInv'
<1>1. PICK call, outer, n, x :
        /\ call = Head(visits) /\ outer = Head(Tail(visits)) /\ n = call.node
        /\ x = [outer EXCEPT !.at = @ + 1,
                             !.choice = IF Verdict(call) THEN Append(@, outer.at) ELSE @]
  OBVIOUS
<1>2. /\ visits # <<>> /\ Visited(call) /\ n # NoNode
      /\ visits' = <<x>> \o Tail(Tail(visits))
      /\ inline' = (IF Item[n].kind = "or" THEN [inline EXCEPT ![n].choice = call.choice] ELSE inline)
      /\ index' = (IF Item[n].kind \in RefKinds /\ Verdict(call)
                   THEN [index EXCEPT ![n] = IndexOf(names, Item[n].name)] ELSE index)
      /\ UNCHANGED <<grammar, names, scopes, fin>>
  BY <1>1 DEF ReachReturn
<1>3. /\ AnySeq(visits) /\ Len(visits) \in Nat /\ Len(visits) >= 2
      /\ call = visits[1] /\ outer = visits[2]
      /\ outer.at \in 1..Len(VisitItems(outer)) /\ n = VisitItems(outer)[outer.at]
      /\ 1 \in 1..Len(visits) /\ 2 \in 1..Len(visits)
  <2>1. /\ Visited(Head(visits)) /\ Head(visits).node # NoNode
    BY <1>1, <1>2
  <2>2. /\ Len(visits) \in Nat /\ Len(visits) >= 2 /\ Head(visits) = visits[1]
        /\ Head(Tail(visits)) = visits[2]
        /\ visits[2].at \in 1..Len(VisitItems(visits[2]))
        /\ visits[1].node = VisitItems(visits[2])[visits[2].at]
    BY <1>2, <2>1, ReturningCall
  <2> QED BY <1>1, <1>2, <2>2, TopCall
<1>4. /\ CallOK(call) /\ CallOK(outer) /\ (~fin.changes => Passed(outer))
      /\ VisitItems(outer) \in Seq(Used) /\ Len(VisitItems(outer)) \in Nat
  <2>1. CallOK(visits[1])
    BY <1>2, <1>3, TopCall
  <2>2. CallOK(visits[2]) /\ (~fin.changes => Passed(visits[2]))
        /\ VisitItems(visits[2]) \in Seq(Used) /\ Len(VisitItems(visits[2])) \in Nat
    BY <1>2, <1>3, TopCall
  <2> QED BY <1>3, <2>1, <2>2
<1>5. /\ n \in Used /\ n \in Nodes /\ Takes(Root, n) /\ Used \subseteq Nodes
      /\ fin.pass = "reach" /\ fin.at \in 1..Len(Root) /\ Root[fin.at].live /\ Len(Root) \in Nat
  BY <1>1, <1>2, <1>4, Start, TopCall DEF CallOK
<1>6. /\ Item[n].kind = "or" =>
           /\ call.choice \in Seq(1..Len(Item[n].kids))
           /\ Len(call.choice) <= Len(Item[n].kids)
      /\ ~fin.changes /\ Known(n) =>
           /\ Len(call.choice) = Len(Item[n].kids)
           /\ \A m \in KidsOf(n) : Known(m) /\ Ready(m)
  BY <1>1, <1>2, <1>3, CallIsOver
<1>7. ~fin.changes /\ Known(n) => Verdict(call) /\ (Item[n].kind = "or" => call.choice # <<>>)
  BY <1>1, <1>5, <1>6, VerdictIs
<1>8. Root' = Root /\ Used' = Used /\ fin' = fin
  BY <1>2 DEF Root, Used
<1>9. FinOK' /\ RootOK' /\ PrunedOK'
  BY <1>2, <1>8 DEF FinInv, FinOK, RootOK, PrunedOK
<1>10. NamesOK'
  <2> SUFFICES ASSUME NEW m \in NameNodes, index'[m] # -1 PROVE Item[m].name \in ToSet(names)
    BY <1>2 DEF NamesOK
  <2>1. CASE index'[m] = index[m]
    BY <2>1 DEF FinInv, NamesOK
  <2>2. CASE index'[m] # index[m]
    <3>1. m = n /\ Item[n].kind \in RefKinds /\ Verdict(call)
      BY <1>2, <2>2
    <3>2. IndexOf(names, Item[n].name) # 0
      <4>1. PICK kind : kind = Item[n].kind
        OBVIOUS
      <4>2. kind \in RefKinds /\ kind # "or" /\ kind # "opt"
        BY <3>1, <4>1 DEF RefKinds
      <4> QED BY <1>1, <3>1, <4>1, <4>2 DEF Verdict
    <3> QED BY <3>1, <3>2 DEF IndexOf
  <2> QED BY <2>1, <2>2
<1>11. ASSUME NEW m \in OrNodes
       PROVE  /\ inline'[m] = [choice |-> inline'[m].choice, shortest |-> inline'[m].shortest]
              /\ inline'[m].shortest = inline[m].shortest
              /\ m = n => inline'[m].choice = call.choice
              /\ m # n => inline'[m].choice = inline[m].choice
  <2>1. inline[m] = [choice |-> inline[m].choice, shortest |-> inline[m].shortest]
    BY DEF FinInv, InlineOK
  <2>2. DOMAIN inline = OrNodes
    BY DEF FinInv, InlineOK
  <2>3. CASE m = n
    <3>1. Item[n].kind = "or"
      BY <2>3 DEF OrNodes
    <3>2. inline'[m] = [inline[m] EXCEPT !.choice = call.choice]
      BY <1>2, <2>2, <2>3, <3>1
    <3> QED BY <2>1, <2>3, <3>2
  <2>4. CASE m # n
    <3>1. inline'[m] = inline[m]
      BY <1>2, <2>4
    <3> QED BY <2>1, <2>4, <3>1
  <2> QED BY <2>3, <2>4
<1>12. InlineOK'
  <2>1. DOMAIN inline' = OrNodes /\ inline' = [m \in DOMAIN inline' |-> inline'[m]]
    BY <1>2 DEF FinInv, InlineOK
  <2>2. ASSUME NEW m \in OrNodes
        PROVE  /\ inline'[m] = [choice |-> inline'[m].choice, shortest |-> inline'[m].shortest]
               /\ Ranged(inline'[m].choice, inline'[m].shortest, Len(Item[m].kids))
    <3>1. Ranged(inline[m].choice, inline[m].shortest, Len(Item[m].kids))
      BY DEF FinInv, InlineOK
    <3>2. CASE m = n
      BY <1>6, <1>11, <3>1, <3>2 DEF Ranged, OrNodes
    <3>3. CASE m # n
      BY <1>11, <3>1, <3>3
    <3> QED BY <3>2, <3>3
  <2> QED BY <2>1, <2>2 DEF InlineOK
<1>13. ASSUME NEW m \in Nodes, Takes(Root, m)
       PROVE  Takes(Root, m)'
  <2>1. CASE Item[m].kind \in Adders
    <3>1. ~ (m = n /\ Item[n].kind \in RefKinds)
      BY <2>1 DEF Adders, StoreKinds, RefKinds
    <3>2. index'[m] = index[m]
      BY <1>2, <3>1
    <3> QED BY <1>8, <1>13, <3>2 DEF Takes
  <2>2. CASE Item[m].kind \notin Adders
    BY <2>2 DEF Takes
  <2> QED BY <2>1, <2>2
<1>14. ASSUME ~fin.changes, NEW m \in Nodes, Known(m), Settled(m)
       PROVE  Settled(m)'
  <2>1. ASSUME Item[m].kind = "or"
        PROVE  inline'[m].choice # <<>>
    <3>1. m \in OrNodes
      BY <2>1 DEF OrNodes
    <3>2. CASE m = n
      BY <1>7, <1>11, <1>14, <2>1, <3>1, <3>2
    <3>3. CASE m # n
      BY <1>11, <1>14, <2>1, <3>1, <3>3 DEF Settled
    <3> QED BY <3>2, <3>3
  <2>2. Takes(Root, m)'
    BY <1>13, <1>14 DEF Settled
  <2> QED BY <2>1, <2>2 DEF Settled
<1>15. ASSUME ~fin.changes, NEW m \in Nodes, Ready(m)
       PROVE  Ready(m)'
  BY <1>2, <1>14, <1>15, ReadyStays
<1>16. ASSUME ~fin.changes
       PROVE  Ready(n)'
  <2> SUFFICES ASSUME Known(n)', NEW m \in Below[n] PROVE Settled(m)'
    BY DEF Ready
  <2>1. Known(n)
    BY <1>2 DEF Known
  <2>2. m \in Nodes /\ (m = n \/ \E k \in KidsOf(n) : m \in Below[k])
    BY <1>5, BelowIs, BelowNests
  <2>3. CASE m = n
    <3>1. Item[n].kind = "or" => inline'[n].choice # <<>>
      <4>1. Item[n].kind = "or" => n \in OrNodes /\ inline'[n].choice = call.choice
        BY <1>5, <1>11 DEF OrNodes
      <4> QED BY <1>7, <1>16, <2>1, <4>1
    <3>2. Takes(Root, n)'
      BY <1>5, <1>13
    <3> QED BY <2>3, <3>1, <3>2 DEF Settled
  <2>4. ASSUME NEW k \in KidsOf(n), m \in Below[k]
        PROVE  Settled(m)'
    <3>1. Known(k) /\ Ready(k) /\ k \in Nodes
      BY <1>5, <1>6, <1>16, <2>1, KidsAreNodes
    <3>2. Settled(m)
      BY <2>4, <3>1 DEF Ready
    <3>3. Known(m)
      <4>1. Below[m] \subseteq Below[k]
        BY <2>4, <3>1, BelowNests
      <4> QED BY <3>1, <4>1 DEF Known
    <3> QED BY <1>14, <1>16, <2>2, <3>2, <3>3
  <2> QED BY <2>2, <2>3, <2>4
<1>17. TurnOK'
  <2> SUFFICES ASSUME ~fin.changes, NEW k \in 1..Len(Root), k < fin.at PROVE Turned(k)'
    BY <1>5, <1>8 DEF TurnOK
  <2>1. Turned(k)
    BY <1>5 DEF FinInv, TurnOK
  <2>2. \A m \in Nodes : Ready(m) => Ready(m)'
    BY <1>15
  <2>3. /\ Root'[k].live => Root[k].live
        /\ Root[k].keep => Root'[k].keep
        /\ Root'[k].choice = Root[k].choice /\ Root'[k].items = Root[k].items
        /\ fin.pass = "reach" /\ k \in fin.toPrune => fin'.pass = "reach" /\ k \in fin'.toPrune
    BY <1>8
  <2> QED BY <2>1, <2>2, <2>3, TurnedStays
<1>18. ASSUME NEW c, VisitItems(c)' # VisitItems(c)
       PROVE  FALSE
  BY <1>8, <1>18 DEF VisitItems, RootItems
<1>19. /\ x = [node |-> outer.node, at |-> outer.at + 1,
               choice |-> IF Verdict(call) THEN Append(outer.choice, outer.at) ELSE outer.choice]
       /\ VisitItems(x) = VisitItems(outer)
  <2>1. outer = [node |-> outer.node, at |-> outer.at, choice |-> outer.choice]
    BY <1>4 DEF CallOK
  <2>2. x = [node |-> outer.node, at |-> outer.at + 1,
             choice |-> IF Verdict(call) THEN Append(outer.choice, outer.at) ELSE outer.choice]
    BY <1>1, <2>1
  <2> QED BY <2>2 DEF VisitItems
<1>20. /\ outer.choice \in Seq(1..(outer.at - 1)) /\ Len(outer.choice) <= outer.at - 1
       /\ outer.at \in Nat \ {0} /\ Len(outer.choice) \in Nat
       /\ outer.node # NoNode => outer.node \in Used /\ Takes(Root, outer.node)
  <2>1. outer.choice \in Seq(1..(outer.at - 1)) /\ Len(outer.choice) <= outer.at - 1
        /\ (outer.node # NoNode => outer.node \in Used /\ Takes(Root, outer.node))
    BY <1>4 DEF CallOK
  <2> QED BY <1>3, <1>4, <2>1
<1>21. x.choice \in Seq(1..outer.at) /\ Len(x.choice) <= outer.at
  <2>1. outer.choice \in Seq(1..outer.at)
    <3>1. outer.at - 1 \in Nat /\ outer.at \in Nat /\ outer.at - 1 <= outer.at
      BY <1>20
    <3> QED BY <1>20, <3>1, PlacesGrow
  <2>2. CASE Verdict(call)
    <3>1. x.choice = Append(outer.choice, outer.at) /\ outer.at \in 1..outer.at
      BY <1>19, <1>20, <2>2
    <3> QED BY <1>20, <2>1, <3>1
  <2>3. CASE ~Verdict(call)
    BY <1>19, <1>20, <2>1, <2>3
  <2> QED BY <2>2, <2>3
<1>22. CallOK(x)'
  <2>1. VisitItems(x)' = VisitItems(outer)
    BY <1>18, <1>19
  <2>2. x = [node |-> x.node, at |-> x.at, choice |-> x.choice] /\ x.at = outer.at + 1 /\ x.node = outer.node
    BY <1>19
  <2>3. x.at \in 1..(Len(VisitItems(outer)) + 1) /\ x.at - 1 = outer.at
    BY <1>3, <1>4, <1>20, <2>2
  <2>4. x.node # NoNode => x.node \in Used' /\ Takes(Root, x.node)'
    <3> SUFFICES ASSUME x.node # NoNode, NEW m, m = x.node PROVE m \in Used' /\ Takes(Root, m)'
      OBVIOUS
    <3>1. m \in Used /\ Takes(Root, m) /\ m \in Nodes
      BY <1>5, <1>20, <2>2
    <3> QED BY <1>8, <1>13, <3>1
  <2> QED BY <1>21, <2>1, <2>2, <2>3, <2>4 DEF CallOK
<1>23. ASSUME ~fin.changes
       PROVE  Passed(x)'
  <2>1. /\ VisitItems(x)' = VisitItems(outer) /\ x.at - 1 = outer.at
        /\ \A m : Known(m)' <=> Known(m)
    BY <1>2, <1>18, <1>19, <1>20 DEF Known
  <2>2. ASSUME NEW j \in 1..outer.at, NEW m, m = VisitItems(outer)[j]
        PROVE  Ready(m)'
    <3>1. m \in Nodes
      BY <1>3, <1>4, <1>5, <2>2
    <3>2. CASE j = outer.at
      BY <1>3, <1>16, <1>23, <2>2, <3>2
    <3>3. CASE j # outer.at
      <4>1. j \in 1..(outer.at - 1)
        BY <1>20, <3>3
      <4>2. Ready(m)
        BY <1>4, <1>23, <2>2, <4>1 DEF Passed
      <4> QED BY <1>15, <1>23, <3>1, <4>2
    <3> QED BY <3>2, <3>3
  <2>3. ASSUME \A j \in 1..outer.at : Known(VisitItems(outer)[j])
        PROVE  Len(x.choice) = outer.at
    <3>1. \A j \in 1..(outer.at - 1) : j \in 1..outer.at
      BY <1>20
    <3>2. Len(outer.choice) = outer.at - 1
      BY <1>4, <1>23, <2>3, <3>1 DEF Passed
    <3>3. outer.at \in 1..outer.at
      BY <1>20
    <3>4. Known(n)
      BY <1>3, <2>3, <3>3
    <3>5. x.choice = Append(outer.choice, outer.at)
      BY <1>7, <1>19, <1>23, <3>4
    <3> QED BY <1>20, <3>2, <3>5
  <2>4. \A j \in 1..outer.at : Ready(VisitItems(x)[j])'
    <3> SUFFICES ASSUME NEW j \in 1..outer.at PROVE Ready(VisitItems(x)[j])'
      OBVIOUS
    <3>1. PICK m : m = VisitItems(outer)[j]
      OBVIOUS
    <3>2. Ready(m)'
      BY <2>2, <3>1
    <3>3. VisitItems(x)'[j] = m
      BY <2>1, <3>1
    <3> QED BY <3>2, <3>3
  <2>5. (\A j \in 1..outer.at : Known(VisitItems(x)[j])') => Len(x.choice) = outer.at
    <3> SUFFICES ASSUME \A j \in 1..outer.at : Known(VisitItems(x)[j])'
                 PROVE  \A j \in 1..outer.at : Known(VisitItems(outer)[j])
      BY <2>3
    <3> SUFFICES ASSUME NEW j \in 1..outer.at PROVE Known(VisitItems(outer)[j])
      OBVIOUS
    <3>1. PICK m : m = VisitItems(outer)[j]
      OBVIOUS
    <3>2. VisitItems(x)'[j] = m
      BY <2>1, <3>1
    <3>3. Known(m)'
      BY <3>2
    <3> QED BY <2>1, <3>1, <3>3
  <2> QED BY <2>1, <2>4, <2>5 DEF Passed
<1>24. ASSUME NEW k \in 1..Len(visits), NEW c, c = visits[k]
       PROVE  CallOK(c)' /\ (~fin.changes => Passed(c)')
  <2>1. /\ CallOK(c) /\ (~fin.changes => Passed(c)) /\ VisitItems(c) \in Seq(Nodes)
        /\ VisitItems(c)' = VisitItems(c)
    <3>1. CallOK(c) /\ (~fin.changes => Passed(c)) /\ VisitItems(c) \in Seq(Used)
      BY <1>2, <1>24, TopCall
    <3> QED BY <1>5, <1>18, <3>1
  <2>2. CallOK(c)'
    <3>1. \A m \in Nodes : Takes(Root, m) => Takes(Root, m)'
      BY <1>13
    <3>2. grammar' = grammar /\ grammar \in Grammars
      BY <1>2 DEF GrammarInv
    <3> QED BY <2>1, <3>1, <3>2, CallStays
  <2>3. ASSUME ~fin.changes
        PROVE  Passed(c)'
    <3>1. (\A m \in Nodes : Ready(m) => Ready(m)') /\ names' = names /\ Passed(c)
      BY <1>2, <1>15, <2>1, <2>3
    <3> QED BY <2>1, <3>1, PassedStays
  <2> QED BY <2>2, <2>3
<1>25. /\ AnySeq(visits') /\ Len(visits') = Len(visits) - 1 /\ visits'[1] = x
       /\ \A k \in 2..(Len(visits) - 1) : visits'[k] = visits[k + 1]
  <2>1. /\ AnySeq(<<x>> \o Tail(Tail(visits))) /\ Len(<<x>> \o Tail(Tail(visits))) = Len(visits) - 1
        /\ (<<x>> \o Tail(Tail(visits)))[1] = x
        /\ \A k \in 2..(Len(visits) - 1) : (<<x>> \o Tail(Tail(visits)))[k] = visits[k + 1]
    BY <1>3, CallReturned
  <2>2. PICK v : v = visits' /\ v = <<x>> \o Tail(Tail(visits))
    BY <1>2
  <2> QED BY <2>1, <2>2
<1>26. VisitsOK'
  <2>1. ASSUME NEW k \in 1..Len(visits'), NEW c, c = visits'[k]
        PROVE  /\ CallOK(c)' /\ (~fin'.changes => Passed(c)')
               /\ c.node = NoNode <=> k = Len(visits')
    <3>1. CASE k = 1
      <4>1. c = x /\ c.node = outer.node
        BY <1>19, <1>25, <2>1, <3>1
      <4>2. outer.node = NoNode <=> 2 = Len(visits)
        BY <1>3 DEF FinInv, VisitsOK
      <4>3. 2 = Len(visits) <=> k = Len(visits')
        BY <1>3, <1>25, <3>1
      <4> QED BY <1>8, <1>22, <1>23, <4>1, <4>2, <4>3
    <3>2. CASE k # 1
      <4>1. k \in 2..(Len(visits) - 1) /\ k + 1 \in 1..Len(visits)
        BY <1>3, <1>25, <3>2
      <4>2. c = visits[k + 1]
        BY <1>25, <2>1, <4>1
      <4>3. c.node = NoNode <=> k + 1 = Len(visits)
        BY <4>1, <4>2 DEF FinInv, VisitsOK
      <4>4. k + 1 = Len(visits) <=> k = Len(visits')
        BY <1>3, <1>25, <4>1
      <4>5. CallOK(c)' /\ (~fin.changes => Passed(c)')
        BY <1>24, <4>1, <4>2
      <4> QED BY <1>8, <4>3, <4>4, <4>5
    <3> QED BY <3>1, <3>2
  <2>2. ASSUME NEW k \in 1..(Len(visits') - 1), NEW c, c = visits'[k + 1]
        PROVE  /\ c.at <= Len(VisitItems(c)')
               /\ visits'[k].node = VisitItems(c)'[c.at]
    <3>1. PICK j : j = k + 1 /\ j \in 2..(Len(visits) - 1) /\ j \in 1..(Len(visits) - 1)
      BY <1>3, <1>25
    <3>2. c = visits[j + 1] /\ VisitItems(c)' = VisitItems(c)
      BY <1>18, <1>25, <2>2, <3>1
    <3>3. c.at <= Len(VisitItems(c)) /\ visits[j].node = VisitItems(c)[c.at]
      BY <3>1, <3>2 DEF FinInv, VisitsOK
    <3>4. visits'[k].node = visits[j].node
      <4>1. CASE k = 1
        BY <1>3, <1>19, <1>25, <3>1, <4>1
      <4>2. CASE k # 1
        <5>1. k \in 2..(Len(visits) - 1)
          BY <3>1, <4>2
        <5> QED BY <1>25, <3>1, <5>1
      <4> QED BY <4>1, <4>2
    <3> QED BY <3>2, <3>3, <3>4
  <2> QED BY <1>5, <1>8, <1>25, <2>1, <2>2 DEF VisitsOK
<1> QED BY <1>9, <1>10, <1>12, <1>17, <1>26 DEF FinInv

LEMMA FinalizeTurns ==
  ASSUME GrammarInv, GrammarInv', FinInv, Finalize, at = "finalize"
  PROVE  FinInv'
<1>1. ASSUME AddRule PROVE FinInv'
  BY <1>1, AddRuleTurns
<1>2. ASSUME ReachRule \/ ReachRuleEnd \/ ReachEnd PROVE FinInv'
  BY <1>2, ReachRuleTurns, ReachRuleEndTurns, ReachEndTurns
<1>3. ASSUME ReachItem \/ ReachReturn PROVE FinInv'
  BY <1>3, ReachItemTurns, ReachReturnTurns
<1>4. ASSUME DepthRule \/ DepthEnd PROVE FinInv'
  BY <1>4, DepthRuleTurns, DepthEndTurns
<1> QED BY <1>1, <1>2, <1>3, <1>4 DEF Finalize

LEMMA InitTurns == Init => FinInv
<1> SUFFICES ASSUME Init PROVE FinInv
  OBVIOUS
<1> USE DEF Init, GrammarInit
<1>1. FinOK
  BY DEF FinOK
<1>2. InlineOK
  <2>1. inline = [n \in OrNodes |-> [choice |-> <<>>, shortest |-> <<>>]]
    OBVIOUS
  <2>2. \A n \in OrNodes : Len(Item[n].kids) \in Nat
    <3>1. \A n \in Nodes : Item[n].kids \in Seq(Nodes)
      BY GrammarAssumption
    <3> QED BY <3>1 DEF OrNodes
  <2>3. \A z \in Nat : Ranged(<<>>, <<>>, z)
    BY DEF Ranged
  <2> QED BY <2>1, <2>2, <2>3 DEF InlineOK
<1>3. Root = <<>> /\ Len(Root) = 0
  BY DEF Root
<1>4. RootOK
  BY <1>3 DEF RootOK
<1>5. NamesOK
  BY DEF NamesOK
<1>6. PrunedOK
  BY DEF PrunedOK
<1>7. VisitsOK
  <2>1. visits = <<>> /\ AnySeq(visits) /\ Len(visits) = 0
    BY NoItems
  <2> QED BY <2>1 DEF VisitsOK
<1>8. TurnOK
  BY DEF TurnOK
<1> QED BY <1>1, <1>2, <1>4, <1>5, <1>6, <1>7, <1>8 DEF FinInv

LEMMA FinalizeRests == ASSUME FinInv, UNCHANGED gramVars PROVE FinInv'
<1>1. UNCHANGED <<grammar, names, index, inline, scopes, visits, fin>>
  BY DEF gramVars
<1>2. Used' = Used /\ Root' = Root
  BY <1>1 DEF Used, Root
<1>3. FinOK'
  BY <1>1 DEF FinInv, FinOK
<1>4. InlineOK' /\ RootOK' /\ NamesOK' /\ PrunedOK'
  BY <1>1, <1>2 DEF FinInv, InlineOK, RootOK, NamesOK, PrunedOK
<1>5. /\ \A n : Ready(n)' <=> Ready(n)
      /\ \A n : Known(n)' <=> Known(n)
      /\ \A n : Takes(Root, n)' <=> Takes(Root, n)
  BY <1>1, <1>2 DEF Ready, Known, Settled, Takes
<1>6. \A c : VisitItems(c)' = VisitItems(c)
  BY <1>1, <1>2 DEF VisitItems, RootItems
<1>7. /\ \A c : CallOK(c)' <=> CallOK(c)
      /\ \A c : Passed(c)' <=> Passed(c)
  BY <1>2, <1>5, <1>6 DEF CallOK, Passed
<1>8. VisitsOK'
  BY <1>1, <1>2, <1>6, <1>7 DEF FinInv, VisitsOK
<1>9. \A i : Turned(i)' <=> Turned(i)
  BY <1>1, <1>2, <1>5 DEF Turned
<1>10. TurnOK'
  BY <1>1, <1>2, <1>9 DEF FinInv, TurnOK
<1> QED BY <1>3, <1>4, <1>8, <1>10 DEF FinInv
=============================================================================
