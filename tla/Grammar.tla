------------------------------ MODULE Grammar ------------------------------
(***************************************************************************)
(* Rules, their manager and the two analyses that Rules::Finalize repeats  *)
(* until nothing changes: which alternatives can be reached (calc::Reach)  *)
(* and which lead to the least nesting (calc::RefDepth).  libresmack.      *)
(*                                                                         *)
(* An item is a node of a fixed table: its kind, its items and, for kinds  *)
(* that name one, a rule.  The text of a node is the node.  Rule indices   *)
(* count from 1.                                                           *)
(***************************************************************************)
EXTENDS Integers, FiniteSets, SequencesExt

CONSTANTS
  Item,       \* [node -> [kind, kids, name]]
  Names,      \* names of rules
  Grammars,   \* the AddRule calls of each grammar: sequences of [name, node]
  Height      \* of a node over those without items: C++ builds an item from its items

Nodes == DOMAIN Item
NoNode == ""

Kinds == {"raw", "draw", "or", "and", "and_s", "ref", "scoped", "opt", "id",
          "store", "set", "istore", "iset", "scope", "push", "pop",
          "pre", "post", "capture", "captured", "flush", "flushed"}
RefKinds == {"ref", "scoped"}
StoreKinds == {"store", "set", "istore", "iset"}
Wrappers == StoreKinds \cup {"opt", "scope", "pre", "post", "capture", "flushed"}

OrNodes == {n \in Nodes : Item[n].kind = "or"}
NameNodes == {n \in Nodes : Item[n].kind \in RefKinds \cup StoreKinds \cup {"id"}}

ASSUME GrammarAssumption ==
  /\ NoNode \notin Nodes
  /\ \A n \in Nodes : Item[n] \in [kind: Kinds, kids: Seq(Nodes), name: Names \cup {""}]
  /\ \A n \in Nodes : Item[n].kind \in Wrappers => Len(Item[n].kids) = 1
  /\ Height \in [Nodes -> Nat]
  /\ \A n \in Nodes : \A k \in DOMAIN Item[n].kids : Height[Item[n].kids[k]] < Height[n]
  /\ Grammars \subseteq Seq([name: Names, node: Nodes])
  /\ IsFiniteSet(Names)

VARIABLES
  grammar,   \* the grammar that ResmackGrammarInit adds
  names,     \* rule_idx_to_name_ and its inverse, one pair for all scopes
  scopes,    \* rule managers from the root to ctx.rules: a rule per index
  inline,    \* choice_indices_ and shortest_indices_ of the inline Or items
  index,     \* rule_idx_ of the items that name a rule; -1 is not set
  visits,    \* the calls of CalcReachability in progress, innermost first
  fin        \* ResmackGrammarInit, Rules::Finalize and its two calculators

gramVars == <<grammar, names, scopes, inline, index, visits, fin>>

\* An entry of an Or is an item of the grammar or a Raw added at run time.
StaticEntry(n) == [node |-> n, text |-> <<>>]
RawEntry(t) == [node |-> NoNode, text |-> t]

Or(live, keep) == [live |-> live, keep |-> keep, items |-> <<>>, choice |-> <<>>, shortest |-> <<>>]
NoRule == Or(FALSE, FALSE)
NewOr == Or(TRUE, FALSE)

\* The positions where oks holds, in order.
Positions(oks) ==
  LET upTo[k \in 0..Len(oks)] ==
        CASE k = 0          -> <<>>
          [] k > 0 /\ oks[k] -> Append(upTo[k - 1], k)
          [] OTHER          -> upTo[k - 1]
  IN  upTo[Len(oks)]

-----------------------------------------------------------------------------
(* The rule manager.                                                       *)

IndexOf(ns, name) == IF name \in ToSet(ns) THEN CHOOSE i \in 1..Len(ns) : ns[i] = name ELSE 0

\* GetRule at the scope s; also ValidRule.
ValidRule(s, i) == i \in 1..Len(scopes[s]) /\ scopes[s][i].live

\* Ensure of the root by name: r has names and rules.
Ensured(r, name) ==
  LET i == IndexOf(r.names, name) IN
  IF i = 0 THEN [r EXCEPT !.names = Append(@, name), !.rules = Append(@, NewOr)]
  ELSE IF r.rules[i].live THEN r
  ELSE [r EXCEPT !.rules[i] = NewOr]

\* Rules::AddRule by name, then Or::AddItem.
AddedRule(r, call) ==
  LET e == Ensured(r, call.name) IN
  [e EXCEPT !.rules[IndexOf(e.names, call.name)].items = Append(@, StaticEntry(call.node))]

Root == scopes[1]
RootItems(i) == [j \in DOMAIN Root[i].items |-> Root[i].items[j].node]

\* One call of ResmackGrammarInit, or its end.
AddRule ==
  /\ fin.pass = "add"
  /\ IF fin.at > Len(grammar)
     THEN fin' = [fin EXCEPT !.pass = "reach", !.at = 1] /\ UNCHANGED <<names, scopes>>
     ELSE LET r == AddedRule([names |-> names, rules |-> Root], grammar[fin.at]) IN
          /\ names' = r.names /\ scopes' = <<r.rules>>
          /\ fin' = [fin EXCEPT !.at = @ + 1]
  /\ UNCHANGED <<grammar, inline, index, visits>>

-----------------------------------------------------------------------------
(* calc::Reach.  A call in progress has the place in its items and the     *)
(* places of those that can be reached; it is about a node or, with        *)
(* NoNode, about the rule at fin.at.                                       *)

Visit(n) == [node |-> n, at |-> 1, choice |-> <<>>]
VisitItems(call) == IF call.node = NoNode THEN RootItems(fin.at) ELSE Item[call.node].kids

\* And and the items with one item stop at the first that cannot be reached.
Stops(call) ==
  /\ call.node # NoNode /\ Item[call.node].kind # "or"
  /\ Len(call.choice) < call.at - 1
Visited(call) == call.at > Len(VisitItems(call)) \/ Stops(call)

\* One turn of Reach::Calc's loop begins; the loop sees rules that it adds itself.
ReachRule ==
  /\ fin.pass = "reach" /\ visits = <<>> /\ fin.at <= Len(Root)
  /\ IF ~Root[fin.at].live \/ fin.at \in fin.pruned
     THEN fin' = [fin EXCEPT !.at = @ + 1] /\ UNCHANGED visits
     ELSE visits' = <<Visit(NoNode)>> /\ UNCHANGED fin
  /\ UNCHANGED <<grammar, names, scopes, inline, index>>

\* CalcReachability of the next item is called.  Items that add values while
\* inputs are built first see to a rule for these (Reach::Ensure).
ReachItem ==
  /\ visits # <<>> /\ ~Visited(Head(visits))
  /\ LET n == VisitItems(Head(visits))[Head(visits).at]
         e == Ensured([names |-> names, rules |-> Root], Item[n].name)
         i == IndexOf(e.names, Item[n].name) IN
     /\ visits' = <<Visit(n)>> \o visits
     /\ IF Item[n].kind \in StoreKinds \cup {"id"}
        THEN /\ names' = e.names
             /\ scopes' = <<[e.rules EXCEPT ![i].keep = TRUE]>>
             /\ index' = [index EXCEPT ![n] = i]
             /\ fin' = [fin EXCEPT !.changes = @ \/ e.names # names]
        ELSE UNCHANGED <<names, scopes, index, fin>>
  /\ UNCHANGED <<grammar, inline>>

\* Faulty: an Opt is left out with its item.
VerdictStrict(call) ==
  LET kind == Item[call.node].kind IN
  CASE kind \in RefKinds -> IndexOf(names, Item[call.node].name) # 0
    [] kind = "or"       -> call.choice # <<>>
    [] OTHER             -> Len(call.choice) = Len(Item[call.node].kids)

\* What CalcReachability returns; a pruned rule keeps its name and its index.
Verdict(call) ==
  LET kind == Item[call.node].kind IN
  CASE kind \in RefKinds -> IndexOf(names, Item[call.node].name) # 0
    [] kind = "or"       -> call.choice # <<>>
    [] kind = "opt"      -> TRUE
    [] OTHER             -> Len(call.choice) = Len(Item[call.node].kids)

ReachReturn ==
  /\ visits # <<>> /\ Visited(Head(visits)) /\ Head(visits).node # NoNode
  /\ LET call == Head(visits)
         n == call.node
         outer == Head(Tail(visits)) IN
     /\ visits' = <<[outer EXCEPT !.at = @ + 1,
                                  !.choice = IF Verdict(call) THEN Append(@, outer.at) ELSE @]>>
                  \o Tail(Tail(visits))
     /\ inline' = IF Item[n].kind = "or" THEN [inline EXCEPT ![n].choice = call.choice] ELSE inline
     /\ index' = IF Item[n].kind \in RefKinds /\ Verdict(call)
                 THEN [index EXCEPT ![n] = IndexOf(names, Item[n].name)] ELSE index
  /\ UNCHANGED <<grammar, names, scopes, fin>>

\* The turn of the loop ends.
ReachRuleEnd ==
  /\ visits # <<>> /\ Visited(Head(visits)) /\ Head(visits).node = NoNode
  /\ LET i == fin.at
         choice == Head(visits).choice IN
     /\ scopes' = <<[Root EXCEPT ![i].choice = choice]>>
     /\ fin' = [fin EXCEPT !.at = @ + 1,
                           !.toPrune = IF Root[i].keep \/ choice # <<>> THEN @ ELSE @ \cup {i}]
  /\ visits' = <<>>
  /\ UNCHANGED <<grammar, names, inline, index>>

-----------------------------------------------------------------------------
(* calc::RefDepth.                                                         *)

Inf == Cardinality(Names) + 1   \* INF_DEPTH: no chain of references is longer

\* v: names, inline choices and the depths_ map, as a sequence with Inf for none.
DepthOf(v, name) ==
  LET i == IndexOf(v.names, name) IN IF i \in DOMAIN v.depths THEN v.depths[i] ELSE Inf

MinIn(S) == CHOOSE x \in S : \A y \in S : x <= y
MaxIn(S) == CHOOSE x \in S : \A y \in S : x >= y

CalcRefDepth(n, v) ==
  LET depth[m \in Nodes] ==
        LET kids == Item[m].kids
            kind == Item[m].kind IN
        CASE kind \in RefKinds -> LET d == DepthOf(v, Item[m].name) IN IF d = Inf THEN Inf ELSE d + 1
          [] kind = "or"  -> MinIn({Inf} \cup {depth[kids[i]] : i \in ToSet(v.choice[m])})
          [] kind = "opt" -> 0
          [] OTHER        -> MaxIn({0} \cup {depth[k] : k \in ToSet(kids)})
  IN  depth[n]

\* shortest_indices_ has positions in choice_indices_, not in the items.
ShortestOf(choice, kids, v) ==
  LET lens == [i \in 1..Len(choice) |-> CalcRefDepth(kids[choice[i]], v)]
  IN Positions([i \in 1..Len(choice) |-> lens[i] = MinIn(ToSet(lens))])

\* The items that a call of CalcRefDepth on n visits.
DepthVisits(n, v) ==
  LET from[m \in Nodes] ==
        LET kids == Item[m].kids IN
        {m} \cup UNION {from[k] : k \in IF Item[m].kind = "or" THEN {kids[i] : i \in ToSet(v.choice[m])}
                                        ELSE ToSet(kids)}
  IN  from[n]

-----------------------------------------------------------------------------
(* Rules::Finalize.                                                        *)

\* The items of the grammar.
Below[n \in Nodes] == {n} \cup UNION {Below[k] : k \in ToSet(Item[n].kids)}
Items == [g \in Grammars |-> UNION {Below[call.node] : call \in ToSet(g)}]
Used == Items[grammar]
Uses(kinds) == \E n \in Used : Item[n].kind \in kinds

GrammarInit ==
  /\ grammar \in Grammars
  /\ names = <<>> /\ scopes = << <<>> >> /\ visits = <<>>
  /\ inline = [n \in OrNodes |-> [choice |-> <<>>, shortest |-> <<>>]]
  /\ index = [n \in NameNodes |-> -1]
  /\ fin = [pass |-> "add", at |-> 1, changes |-> FALSE, changed |-> FALSE,
            toPrune |-> {}, pruned |-> {}, depths |-> <<>>]

Pruned(rules, S) == [i \in DOMAIN rules |-> IF i \in S THEN NoRule ELSE rules[i]]

\* The end of Reach::Calc and the start of RefDepth::Calc.
ReachEnd ==
  /\ fin.pass = "reach" /\ visits = <<>> /\ fin.at > Len(Root)
  /\ scopes' = <<Pruned(Root, fin.toPrune)>>
  /\ fin' = [fin EXCEPT !.pass = "depth", !.at = 1, !.changes = @ \/ fin.toPrune # {},
                        !.pruned = @ \cup fin.toPrune, !.toPrune = {}, !.changed = FALSE,
                        !.depths = [i \in DOMAIN Root |-> IF i \in DOMAIN @ THEN @[i] ELSE -1]]
  /\ UNCHANGED <<grammar, names, inline, index, visits>>

View == [names |-> names, choice |-> [n \in OrNodes |-> inline[n].choice],
         depths |-> [i \in DOMAIN fin.depths |-> IF fin.depths[i] = -1 THEN Inf ELSE fin.depths[i]]]

\* One rule of a round of RefDepth::Calc.
DepthRule ==
  /\ fin.pass = "depth" /\ fin.at <= Len(Root)
  /\ LET i == fin.at
         or == Root[i]
         kids == RootItems(i)
         shortest == IF or.keep THEN or.shortest ELSE ShortestOf(or.choice, kids, View)
         depth == IF or.keep THEN 0
                  ELSE MinIn({Inf} \cup {CalcRefDepth(kids[j], View) : j \in ToSet(or.choice)})
         deep == IF or.keep THEN {}
                 ELSE UNION {DepthVisits(kids[j], View) : j \in ToSet(or.choice)}
         changed == fin.changed \/ fin.depths[i] # depth \/ Len(or.shortest) # Len(shortest)
         prune == ~changed /\ depth = Inf /\ ~or.keep IN
     IF ~or.live
     THEN fin' = [fin EXCEPT !.at = @ + 1] /\ UNCHANGED <<scopes, inline>>
     ELSE /\ scopes' = [scopes EXCEPT ![1][i].shortest = shortest]
          /\ inline' = [n \in OrNodes |->
                          IF n \in deep
                          THEN [inline[n] EXCEPT !.shortest =
                                  ShortestOf(inline[n].choice, Item[n].kids, View)]
                          ELSE inline[n]]
          /\ fin' = [fin EXCEPT !.at = @ + 1, !.depths[i] = depth, !.changed = changed,
                                !.changes = @ \/ prune,
                                !.toPrune = IF prune THEN @ \cup {i} ELSE @]
  /\ UNCHANGED <<grammar, names, index, visits>>

\* Faulty: one round.
DepthEndAtOnce ==
  /\ fin.pass = "depth" /\ fin.at > Len(Root)
  /\ scopes' = <<Pruned(Root, fin.toPrune)>>
  /\ fin' = [fin EXCEPT !.pass = IF fin.changes THEN "reach" ELSE "done", !.at = 1,
                        !.changes = FALSE, !.toPrune = {}]
  /\ UNCHANGED <<grammar, names, inline, index, visits>>

\* The next round, or the next turn of Finalize, or its end.
DepthEnd ==
  /\ fin.pass = "depth" /\ fin.at > Len(Root)
  /\ IF fin.changed
     THEN fin' = [fin EXCEPT !.at = 1, !.changed = FALSE, !.toPrune = {}] /\ UNCHANGED scopes
     ELSE /\ scopes' = <<Pruned(Root, fin.toPrune)>>
          /\ fin' = [fin EXCEPT !.pass = IF fin.changes THEN "reach" ELSE "done", !.at = 1,
                                !.changes = FALSE, !.toPrune = {}]
  /\ UNCHANGED <<grammar, names, inline, index, visits>>

Finalize ==
  \/ AddRule
  \/ ReachRule \/ ReachItem \/ ReachReturn \/ ReachRuleEnd \/ ReachEnd
  \/ DepthRule \/ DepthEnd

-----------------------------------------------------------------------------
(* Properties of the finished analysis.                                    *)

\* Whether an item can be built if the rules named in D can.
Fulfilled(n, D) ==
  LET ok[m \in Nodes] ==
        LET kids == ToSet(Item[m].kids) IN
        \/ Item[m].kind \in RefKinds /\ Item[m].name \in D
        \/ Item[m].kind = "or" /\ \E k \in kids : ok[k]
        \/ Item[m].kind = "opt"
        \/ Item[m].kind \notin RefKinds \cup {"or", "opt"} /\ \A k \in kids : ok[k]
  IN  ok[n]

Kept == {names[i] : i \in {j \in 1..Len(Root) : Root[j].live /\ Root[j].keep}}

\* The rules that can be built with fewer than d nested references.
Within[d \in 0..Inf] ==
  IF d = 0 THEN {}
  ELSE LET D == Within[d - 1]
       IN Kept \cup {call.name : call \in {c \in ToSet(grammar) : Fulfilled(c.node, D)}}

\* The names that grammar adds items to, and the name that an item adds values to.
Given == {call.name : call \in ToSet(grammar)}
Introduces(n) == IF Item[n].kind \in StoreKinds \cup {"id"} THEN {Item[n].name} ELSE {}

\* The names that a pass of Reach over n is sure to introduce: And stops behind an
\* item that may need more than the names given.
Adds(n) ==
  LET adds[m \in Nodes] ==
        LET kids == Item[m].kids IN
        Introduces(m) \cup
          UNION {adds[kids[k]] : k \in {k \in DOMAIN kids :
                    Item[m].kind # "or" => \A i \in 1..(k - 1) : Fulfilled(kids[i], Given)}}
  IN  adds[n]

\* The names that n refers to before they are introduced in n.
Needs(n) ==
  LET needs[m \in Nodes] ==
        LET kids == Item[m].kids IN
        (IF Item[m].kind \in RefKinds THEN {Item[m].name} ELSE {}) \cup
          UNION {needs[kids[k]] \ (Introduces(m) \cup UNION {Adds(kids[i]) : i \in 1..(k - 1)}) :
                 k \in DOMAIN kids}
  IN  needs[n]

\* The calls of AddRule whose items a pass visits before that of call p: it takes the
\* rules in the order in which they were named first.
FirstOf(name) == MinIn({p \in DOMAIN grammar : grammar[p].name = name})
Before(p) ==
  {q \in DOMAIN grammar : \/ FirstOf(grammar[q].name) < FirstOf(grammar[p].name)
                          \/ grammar[q].name = grammar[p].name /\ q < p}

\* No reference comes before the first item that introduces its rule, and of a rule
\* that collects values some given item can be reached, if any is given.
KnownInTime ==
  /\ \A p \in DOMAIN grammar :
       Needs(grammar[p].node) \cap ToSet(names) \subseteq
         Given \cup UNION {Adds(grammar[q].node) : q \in Before(p)}
  /\ \A name \in Kept \cap Given :
       \E call \in ToSet(grammar) : call.name = name /\ Fulfilled(call.node, Given)

\* Finalize keeps exactly the rules that can be built with finitely many
\* references (reach.cpp, ref_depth.cpp): two calculators that prune by different
\* criteria, alternate and see each other's pruning end in the least fixed point.
\* A rule is lost whose only reference is introduced later in the first pass, or goes to
\* a rule for values that is pruned for a while (reach.cpp:16-34), hence KnownInTime.
PruningIsExact ==
  fin.pass = "done" /\ KnownInTime =>
    LET buildable == Within[Inf]
    IN \A i \in DOMAIN names : Root[i].live <=> names[i] \in buildable

\* What RefDepth finds shortest among the alternatives of a rule, as positions among
\* those that can be reached, are the ones that can be built with the fewest nested
\* references, even though the depths of mutually recursive rules are found in
\* rounds (ref_depth.cpp:16-46).  If all can be reached they are the ones a build at
\* its limit chooses from; if not, Or::Build takes the positions for others (or.cpp:131).
ShortestIsLeast ==
  fin.pass = "done" /\ KnownInTime =>
    \A i \in DOMAIN names :
      LET or == Root[i]
          kids == RootItems(i)
          Buildable(d) == LET D == Within[d] IN {j \in DOMAIN kids : Fulfilled(kids[j], D)}
          least == {Buildable(d) : d \in 0..Inf} \ {{}} IN
      or.live /\ ~or.keep =>
        {or.choice[k] : k \in ToSet(or.shortest)} = {j \in DOMAIN kids : \A S \in least : j \in S}
=============================================================================
