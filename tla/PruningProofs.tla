---------------------------- MODULE PruningProofs ----------------------------
(***************************************************************************)
(* What Finalize leaves of a grammar, for every grammar: the rules that    *)
(* can be built and the shortest of their alternatives.                    *)
(*                                                                         *)
(* A reference is fulfilled if its rule has a name in the end, pruned or   *)
(* not.  E stands for those names: whatever superset of the names so far   *)
(* it is, as long as no reference to one of E comes too late, each pass of *)
(* Reach finds exactly what can be built from E (Exact).  RefDepth finds   *)
(* of each name in how many references it can be built, by rounds whose    *)
(* last changes nothing (DepthInv).                                        *)
(***************************************************************************)
EXTENDS ContextProofs

-----------------------------------------------------------------------------
(* Recursion over the items.                                               *)

\* A property that passes from the items of each node to the node holds of all.
LEMMA NodeInduction ==
  ASSUME NEW S, \A n \in Nodes : KidsOf(n) \subseteq S => n \in S
  PROVE  Nodes \subseteq S
<1> DEFINE H == {h \in Nat : \E n \in Nodes : h = Height[n] /\ n \notin S}
<1> SUFFICES ASSUME NEW n \in Nodes, n \notin S PROVE FALSE
  OBVIOUS
<1>1. Height \in [Nodes -> Nat]
  BY GrammarAssumption
<1>2. H \in SUBSET Nat /\ H # {}
  BY <1>1
<1>3. MinIn(H) \in H /\ \A y \in H : MinIn(H) <= y
  <2> HIDE DEF H
  <2> QED BY <1>2, Least
<1>4. PICK m \in Nodes : MinIn(H) = Height[m] /\ m \notin S
  BY <1>3
<1>5. ASSUME NEW k \in KidsOf(m)
      PROVE  k \in S
  <2>1. k \in Nodes /\ Height[k] < Height[m]
    BY KidsAreNodes
  <2>2. ~ (MinIn(H) <= Height[k])
    BY <1>1, <1>4, <2>1
  <2> QED BY <1>1, <1>3, <2>1, <2>2
<1> QED BY <1>4, <1>5

\* What G makes of the values at the items of n.
Local(V, G) ==
  /\ G \in [Nodes -> [[Nodes -> V] -> V]]
  /\ \A n \in Nodes : \A f, g \in [Nodes -> V] :
       (\A k \in KidsOf(n) : f[k] = g[k]) => G[n][f] = G[n][g]

\* f obeys G below the height h.
Obeys(V, G, h, f) == f \in [Nodes -> V] /\ \A n \in Nodes : Height[n] < h => f[n] = G[n][f]

LEMMA ObeyAlike ==
  ASSUME NEW V, NEW G, Local(V, G), NEW h \in Nat, NEW i \in Nat, i <= h,
         NEW f, NEW g, Obeys(V, G, h, f), Obeys(V, G, i, g)
  PROVE  \A n \in Nodes : Height[n] < i => f[n] = g[n]
<1> DEFINE S == {n \in Nodes : Height[n] < i => f[n] = g[n]}
<1>1. ASSUME NEW n \in Nodes, KidsOf(n) \subseteq S
      PROVE  n \in S
  <2> SUFFICES ASSUME Height[n] < i PROVE f[n] = g[n]
    OBVIOUS
  <2>1. Height \in [Nodes -> Nat]
    BY GrammarAssumption
  <2>2. \A k \in KidsOf(n) : k \in Nodes /\ Height[k] < i
    BY <2>1, KidsAreNodes
  <2>3. \A k \in KidsOf(n) : f[k] = g[k]
    BY <1>1, <2>2
  <2>4. f \in [Nodes -> V] /\ g \in [Nodes -> V]
    BY DEF Obeys
  <2>5. G[n][f] = G[n][g]
    BY <2>3, <2>4 DEF Local
  <2>6. Height[n] < h
    BY <2>1
  <2> QED BY <2>5, <2>6 DEF Obeys
<1> HIDE DEF S
<1>2. Nodes \subseteq S
  BY <1>1, NodeInduction
<1> QED BY <1>2 DEF S

LEMMA ObeyExists ==
  ASSUME NEW V, V # {}, NEW G, Local(V, G), NEW h \in Nat
  PROVE  \E f : Obeys(V, G, h, f)
<1> DEFINE H == {i \in Nat : ~ \E f : Obeys(V, G, i, f)}
<1> SUFFICES ASSUME H # {} PROVE FALSE
  OBVIOUS
<1>1. PICK i \in H : \A y \in H : i <= y
  <2>1. H \in SUBSET Nat
    OBVIOUS
  <2> HIDE DEF H
  <2> QED BY <2>1, Least
<1>2. i \in Nat /\ ~ \E f : Obeys(V, G, i, f)
  BY <1>1
<1>3. Height \in [Nodes -> Nat]
  BY GrammarAssumption
<1>4. CASE i = 0
  <2>1. PICK v \in V : TRUE
    OBVIOUS
  <2> DEFINE f == [n \in Nodes |-> v]
  <2>2. Obeys(V, G, 0, f)
    BY <1>3 DEF Obeys
  <2> QED BY <1>2, <1>4, <2>2
<1>5. CASE i # 0
  <2>1. i - 1 \in Nat /\ i - 1 \notin H
    BY <1>1, <1>2, <1>5
  <2>2. PICK g : Obeys(V, G, i - 1, g)
    BY <2>1
  <2> DEFINE f == [n \in Nodes |-> G[n][g]]
  <2>3. g \in [Nodes -> V] /\ f \in [Nodes -> V]
    BY <2>2 DEF Obeys, Local
  <2>4. ASSUME NEW n \in Nodes, Height[n] < i
        PROVE  f[n] = G[n][f]
    <3>1. ASSUME NEW k \in KidsOf(n)
          PROVE  f[k] = g[k]
      <4>1. k \in Nodes /\ Height[k] < i - 1
        BY <1>2, <1>3, <2>4, KidsAreNodes
      <4> QED BY <2>2, <4>1 DEF Obeys
    <3>2. f[n] = G[n][g]
      OBVIOUS
    <3> HIDE DEF f
    <3> QED BY <2>3, <3>1, <3>2 DEF Local
  <2> HIDE DEF f
  <2>5. Obeys(V, G, i, f)
    BY <2>3, <2>4 DEF Obeys
  <2> QED BY <1>2, <2>5
<1> QED BY <1>4, <1>5

\* A recursive definition over the items has a solution.
LEMMA Recursion ==
  ASSUME NEW V, V # {}, NEW G, Local(V, G)
  PROVE  \E F \in [Nodes -> V] : \A n \in Nodes : F[n] = G[n][F]
<1> DEFINE g(h) == CHOOSE f : Obeys(V, G, h, f)
           F == [n \in Nodes |-> g(Height[n] + 1)[n]]
<1>1. \A h \in Nat : Obeys(V, G, h, g(h))
  BY ObeyExists
<1> HIDE DEF g
<1>2. Height \in [Nodes -> Nat]
  BY GrammarAssumption
<1>3. F \in [Nodes -> V]
  BY <1>1, <1>2 DEF Obeys
<1>4. ASSUME NEW n \in Nodes
      PROVE  F[n] = G[n][F]
  <2> DEFINE f == g(Height[n] + 1)
  <2>1. Obeys(V, G, Height[n] + 1, f)
    BY <1>1, <1>2
  <2>2. F[n] = f[n]
    OBVIOUS
  <2> HIDE DEF f
  <2>3. ASSUME NEW k \in KidsOf(n)
        PROVE  F[k] = f[k]
    <3>1. k \in Nodes /\ Height[k] < Height[n] /\ Height[k] + 1 \in Nat /\ Height[n] + 1 \in Nat
      BY <1>2, KidsAreNodes
    <3>2. Obeys(V, G, Height[k] + 1, g(Height[k] + 1))
      BY <1>1, <3>1
    <3>3. Height[k] + 1 <= Height[n] + 1 /\ Height[k] < Height[k] + 1
      BY <1>2, <3>1
    <3>4. f[k] = g(Height[k] + 1)[k]
      BY <2>1, <3>1, <3>2, <3>3, ObeyAlike
    <3> QED BY <3>1, <3>4
  <2>4. f[n] = G[n][f] /\ f \in [Nodes -> V]
    BY <1>2, <2>1 DEF Obeys
  <2> HIDE DEF F
  <2>5. G[n][F] = G[n][f]
    BY <1>3, <2>3, <2>4 DEF Local
  <2> QED BY <2>2, <2>4, <2>5
<1> HIDE DEF F
<1> QED BY <1>3, <1>4

-----------------------------------------------------------------------------
(* What can be built.                                                      *)

FulfilledBy(ok, D) ==
  ok = [m \in Nodes |->
          LET kids == ToSet(Item[m].kids) IN
          \/ Item[m].kind \in RefKinds /\ Item[m].name \in D
          \/ Item[m].kind = "or" /\ \E k \in kids : ok[k]
          \/ Item[m].kind = "opt"
          \/ Item[m].kind \notin RefKinds \cup {"or", "opt"} /\ \A k \in kids : ok[k]]

LEMMA FulfilledIs ==
  ASSUME NEW D, NEW n \in Nodes
  PROVE  /\ Fulfilled(n, D) \in BOOLEAN
         /\ Item[n].kind \in RefKinds => (Fulfilled(n, D) <=> Item[n].name \in D)
         /\ Item[n].kind = "or" => (Fulfilled(n, D) <=> \E k \in KidsOf(n) : Fulfilled(k, D))
         /\ Item[n].kind = "opt" => Fulfilled(n, D)
         /\ Item[n].kind \notin RefKinds \cup {"or", "opt"} =>
              (Fulfilled(n, D) <=> \A k \in KidsOf(n) : Fulfilled(k, D))
<1> DEFINE B(m, f) ==
             \/ Item[m].kind \in RefKinds /\ Item[m].name \in D
             \/ Item[m].kind = "or" /\ \E k \in KidsOf(m) : f[k]
             \/ Item[m].kind = "opt"
             \/ Item[m].kind \notin RefKinds \cup {"or", "opt"} /\ \A k \in KidsOf(m) : f[k]
           G == [m \in Nodes |-> [f \in [Nodes -> BOOLEAN] |-> B(m, f)]]
           ok == CHOOSE f : FulfilledBy(f, D)
<1>1. Local(BOOLEAN, G)
  <2>1. \A m, f : B(m, f) \in BOOLEAN
    OBVIOUS
  <2>2. ASSUME NEW m \in Nodes, NEW f \in [Nodes -> BOOLEAN], NEW g \in [Nodes -> BOOLEAN],
               \A k \in KidsOf(m) : f[k] = g[k]
        PROVE  B(m, f) = B(m, g)
    <3>1. (\E k \in KidsOf(m) : f[k]) <=> (\E k \in KidsOf(m) : g[k])
      BY <2>2
    <3>2. (\A k \in KidsOf(m) : f[k]) <=> (\A k \in KidsOf(m) : g[k])
      BY <2>2
    <3> QED BY <3>1, <3>2
  <2>3. G \in [Nodes -> [[Nodes -> BOOLEAN] -> BOOLEAN]]
    <3> HIDE DEF B
    <3> QED BY <2>1
  <2>4. ASSUME NEW m \in Nodes, NEW f \in [Nodes -> BOOLEAN], NEW g \in [Nodes -> BOOLEAN],
               \A k \in KidsOf(m) : f[k] = g[k]
        PROVE  G[m][f] = G[m][g]
    <3>1. B(m, f) = B(m, g)
      BY <2>2, <2>4
    <3> HIDE DEF B
    <3> QED BY <3>1
  <2> HIDE DEF G
  <2> QED BY <2>3, <2>4 DEF Local
<1>2. PICK F \in [Nodes -> BOOLEAN] : \A m \in Nodes : F[m] = G[m][F]
  <2>1. PICK V, g : V = BOOLEAN /\ g = G
    OBVIOUS
  <2> HIDE DEF G, B, ok
  <2>2. V # {} /\ Local(V, g)
    BY <1>1, <2>1
  <2>3. \E F \in [Nodes -> V] : \A m \in Nodes : F[m] = g[m][F]
    BY <2>2, Recursion
  <2> QED BY <2>1, <2>3
<1>3. \A m \in Nodes : G[m][F] = B(m, F)
  <2> HIDE DEF B
  <2> QED OBVIOUS
<1>4. F = [m \in Nodes |-> B(m, F)]
  <2> HIDE DEF B, G
  <2> QED BY <1>2, <1>3
<1>5. FulfilledBy(F, D)
  BY <1>4 DEF FulfilledBy, KidsOf
<1>6. FulfilledBy(ok, D)
  BY <1>5
<1>7. \A m : Fulfilled(m, D) = ok[m]
  BY DEF Fulfilled, FulfilledBy
<1> HIDE DEF ok
<1>8. ok = [m \in Nodes |-> B(m, ok)]
  BY <1>6 DEF FulfilledBy, KidsOf
<1>9. ok[n] = B(n, ok)
  <2> HIDE DEF B
  <2> QED BY <1>8
<1> QED BY <1>7, <1>9 DEF RefKinds

LEMMA MoreIsFulfilled ==
  ASSUME NEW D, NEW E, D \subseteq E, NEW n \in Nodes, Fulfilled(n, D)
  PROVE  Fulfilled(n, E)
<1> DEFINE S == {m \in Nodes : Fulfilled(m, D) => Fulfilled(m, E)}
<1>1. ASSUME NEW m \in Nodes, KidsOf(m) \subseteq S
      PROVE  m \in S
  <2> SUFFICES ASSUME Fulfilled(m, D) PROVE Fulfilled(m, E)
    OBVIOUS
  <2>1. \A k \in KidsOf(m) : Fulfilled(k, D) => Fulfilled(k, E)
    BY <1>1
  <2>2. CASE Item[m].kind \in RefKinds
    BY <2>2, FulfilledIs
  <2>3. CASE Item[m].kind = "or"
    BY <2>1, <2>3, FulfilledIs
  <2>4. CASE Item[m].kind = "opt"
    BY <2>4, FulfilledIs
  <2>5. CASE Item[m].kind \notin RefKinds \cup {"or", "opt"}
    BY <2>1, <2>5, FulfilledIs
  <2> QED BY <2>2, <2>3, <2>4, <2>5
<1> HIDE DEF S
<1>2. Nodes \subseteq S
  BY <1>1, NodeInduction
<1> QED BY <1>2 DEF S

-----------------------------------------------------------------------------
(* How deep an item nests.                                                 *)

LEMMA InfIsNat == Inf \in Nat \ {0}
<1>1. Cardinality(Names) \in Nat
  BY GrammarAssumption, FS_CardinalityType
<1> QED BY <1>1 DEF Inf

LEMMA MaxIs ==
  ASSUME NEW b \in Nat, NEW S \in SUBSET (0..b), S # {}
  PROVE  MaxIn(S) \in S /\ \A y \in S : MaxIn(S) >= y
<1> DEFINE T == {u \in Nat : \A y \in S : u >= y}
<1>1. b \in T
  OBVIOUS
<1>2. PICK u \in T : \A y \in T : u <= y
  <2>1. T \in SUBSET Nat
    OBVIOUS
  <2> HIDE DEF T
  <2> QED BY <1>1, <2>1, Least
<1>3. u \in Nat /\ \A y \in S : u >= y
  BY <1>2
<1>4. ASSUME u \notin S
      PROVE  FALSE
  <2>1. \A y \in S : y \in Nat /\ u > y
    BY <1>3, <1>4
  <2>2. PICK z \in S : TRUE
    OBVIOUS
  <2>3. u - 1 \in Nat /\ \A y \in S : u - 1 >= y
    BY <1>3, <2>1, <2>2
  <2>4. u - 1 \in T
    BY <2>3
  <2> QED BY <1>2, <1>3, <2>4
<1>5. \E x \in S : \A y \in S : x >= y
  BY <1>3, <1>4
<1> QED BY <1>5 DEF MaxIn

\* Depths that are numbers or Inf and choices among an Or's items.
ViewOK(v) ==
  /\ \A name : DepthOf(v, name) \in 0..Inf
  /\ \A m \in OrNodes : ToSet(v.choice[m]) \subseteq 1..Len(Item[m].kids)

DepthBy(depth, v) ==
  depth = [m \in Nodes |->
        LET kids == Item[m].kids
            kind == Item[m].kind IN
        CASE kind \in RefKinds -> LET d == DepthOf(v, Item[m].name) IN IF d = Inf THEN Inf ELSE d + 1
          [] kind = "or"  -> MinIn({Inf} \cup {depth[kids[i]] : i \in ToSet(v.choice[m])})
          [] kind = "opt" -> 0
          [] OTHER        -> MaxIn({0} \cup {depth[k] : k \in ToSet(kids)})]

LEMMA KidsAre ==
  ASSUME NEW n \in Nodes
  PROVE  /\ Len(Item[n].kids) \in Nat /\ DOMAIN Item[n].kids = 1..Len(Item[n].kids)
         /\ \A k \in 1..Len(Item[n].kids) : Item[n].kids[k] \in KidsOf(n) /\ Item[n].kids[k] \in Nodes
         /\ \A m \in KidsOf(n) : \E k \in 1..Len(Item[n].kids) : m = Item[n].kids[k]
<1>1. Item[n].kids \in Seq(Nodes)
  BY GrammarAssumption
<1> QED BY <1>1 DEF KidsOf, ToSet

LEMMA CalcRefDepthIs ==
  ASSUME NEW v, ViewOK(v), NEW n \in Nodes
  PROVE  /\ CalcRefDepth(n, v) \in 0..Inf
         /\ Item[n].kind \in RefKinds =>
              CalcRefDepth(n, v) = IF DepthOf(v, Item[n].name) = Inf THEN Inf
                                   ELSE DepthOf(v, Item[n].name) + 1
         /\ Item[n].kind = "or" =>
              CalcRefDepth(n, v) =
                MinIn({Inf} \cup {CalcRefDepth(Item[n].kids[i], v) : i \in ToSet(v.choice[n])})
         /\ Item[n].kind = "opt" => CalcRefDepth(n, v) = 0
         /\ Item[n].kind \notin RefKinds \cup {"or", "opt"} =>
              CalcRefDepth(n, v) = MaxIn({0} \cup {CalcRefDepth(k, v) : k \in KidsOf(n)})
<1> DEFINE V == 0..Inf
           B(m, f) ==
             CASE Item[m].kind \in RefKinds ->
                    IF DepthOf(v, Item[m].name) = Inf THEN Inf ELSE DepthOf(v, Item[m].name) + 1
               [] Item[m].kind = "or"  ->
                    MinIn({Inf} \cup {f[Item[m].kids[i]] : i \in ToSet(v.choice[m])})
               [] Item[m].kind = "opt" -> 0
               [] OTHER -> MaxIn({0} \cup {f[k] : k \in KidsOf(m)})
           G == [m \in Nodes |-> [f \in [Nodes -> V] |-> B(m, f)]]
           depth == CHOOSE f : DepthBy(f, v)
<1>0. Inf \in Nat
  BY InfIsNat
<1>1. ASSUME NEW m \in Nodes, NEW f \in [Nodes -> V]
      PROVE  B(m, f) \in V
  <2>1. CASE Item[m].kind \in RefKinds
    <3>1. DepthOf(v, Item[m].name) \in 0..Inf
      BY DEF ViewOK
    <3>2. B(m, f) = IF DepthOf(v, Item[m].name) = Inf THEN Inf ELSE DepthOf(v, Item[m].name) + 1
      BY <2>1 DEF RefKinds
    <3> QED BY <1>0, <3>1, <3>2
  <2>2. CASE Item[m].kind = "or"
    <3> DEFINE S == {Inf} \cup {f[Item[m].kids[i]] : i \in ToSet(v.choice[m])}
    <3>1. B(m, f) = MinIn(S)
      BY <2>2 DEF RefKinds
    <3>2. ToSet(v.choice[m]) \subseteq 1..Len(Item[m].kids)
      BY <2>2 DEF ViewOK, OrNodes
    <3>3. S \subseteq V /\ Inf \in S
      BY <1>0, <3>2, KidsAre
    <3> HIDE DEF S
    <3>4. MinIn(S) \in S
      BY <1>0, <3>3, Least
    <3> QED BY <3>1, <3>3, <3>4
  <2>3. CASE Item[m].kind = "opt"
    <3>1. B(m, f) = 0
      BY <2>3 DEF RefKinds
    <3> QED BY <1>0, <3>1
  <2>4. CASE Item[m].kind \notin RefKinds \cup {"or", "opt"}
    <3> DEFINE S == {0} \cup {f[k] : k \in KidsOf(m)}
    <3>1. B(m, f) = MaxIn(S)
      BY <2>4
    <3>2. S \subseteq V /\ 0 \in S
      BY <1>0, KidsAreNodes
    <3> HIDE DEF S
    <3>3. MaxIn(S) \in S
      BY <1>0, <3>2, MaxIs
    <3> QED BY <3>1, <3>2, <3>3
  <2> QED BY <2>1, <2>2, <2>3, <2>4
<1>2. ASSUME NEW m \in Nodes, NEW f \in [Nodes -> V], NEW g \in [Nodes -> V],
             \A k \in KidsOf(m) : f[k] = g[k]
      PROVE  B(m, f) = B(m, g)
  <2>1. CASE Item[m].kind \in RefKinds
    BY <2>1 DEF RefKinds
  <2>2. CASE Item[m].kind = "or"
    <3>1. ToSet(v.choice[m]) \subseteq 1..Len(Item[m].kids)
      BY <2>2 DEF ViewOK, OrNodes
    <3>2. {f[Item[m].kids[i]] : i \in ToSet(v.choice[m])} = {g[Item[m].kids[i]] : i \in ToSet(v.choice[m])}
      BY <1>2, <3>1, KidsAre
    <3> QED BY <2>2, <3>2 DEF RefKinds
  <2>3. CASE Item[m].kind = "opt"
    BY <2>3 DEF RefKinds
  <2>4. CASE Item[m].kind \notin RefKinds \cup {"or", "opt"}
    <3>1. {f[k] : k \in KidsOf(m)} = {g[k] : k \in KidsOf(m)}
      BY <1>2
    <3> QED BY <2>4, <3>1
  <2> QED BY <2>1, <2>2, <2>3, <2>4
<1>3. Local(V, G)
  <2> HIDE DEF B, V
  <2>1. G \in [Nodes -> [[Nodes -> V] -> V]]
    BY <1>1
  <2>2. ASSUME NEW m \in Nodes, NEW f \in [Nodes -> V], NEW g \in [Nodes -> V],
               \A k \in KidsOf(m) : f[k] = g[k]
        PROVE  G[m][f] = G[m][g]
    <3>1. B(m, f) = B(m, g)
      BY <1>2, <2>2
    <3> QED BY <3>1
  <2> HIDE DEF G
  <2> QED BY <2>1, <2>2 DEF Local
<1>4. PICK F \in [Nodes -> V] : \A m \in Nodes : F[m] = G[m][F]
  <2>1. V # {}
    BY <1>0
  <2> HIDE DEF G, B, V
  <2> QED BY <1>3, <2>1, Recursion
<1>5. F = [m \in Nodes |-> B(m, F)]
  <2>1. \A m \in Nodes : G[m][F] = B(m, F)
    <3> HIDE DEF B, V
    <3> QED OBVIOUS
  <2> HIDE DEF B, G
  <2> QED BY <1>4, <2>1
<1>6. DepthBy(F, v)
  BY <1>5 DEF DepthBy, KidsOf
<1>7. DepthBy(depth, v)
  BY <1>6
<1>8. \A m : CalcRefDepth(m, v) = depth[m]
  BY DEF CalcRefDepth, DepthBy
<1> HIDE DEF depth
<1>9. depth = [m \in Nodes |-> B(m, depth)]
  BY <1>7 DEF DepthBy, KidsOf
<1>10. \A m \in Nodes : depth[m] = B(m, depth)
  <2> HIDE DEF B
  <2> QED BY <1>9
<1> DEFINE S == {m \in Nodes : depth[m] \in V}
<1>11. ASSUME NEW m \in Nodes, KidsOf(m) \subseteq S
       PROVE  m \in S
  <2> DEFINE f == [k \in Nodes |-> IF k \in KidsOf(m) THEN depth[k] ELSE 0]
             g == [k \in Nodes |-> B(k, depth)]
  <2>1. f \in [Nodes -> V]
    BY <1>0, <1>11
  <2>2. B(m, f) = B(m, depth)
    <3>1. \A k \in KidsOf(m) : f[k] = depth[k]
      BY KidsAreNodes
    <3> HIDE DEF f
    <3>2. CASE Item[m].kind \in RefKinds
      BY <3>2 DEF RefKinds
    <3>3. CASE Item[m].kind = "or"
      <4>1. ToSet(v.choice[m]) \subseteq 1..Len(Item[m].kids)
        BY <3>3 DEF ViewOK, OrNodes
      <4>2. \A i \in ToSet(v.choice[m]) : f[Item[m].kids[i]] = depth[Item[m].kids[i]]
        BY <3>1, <4>1, KidsAre
      <4>3. {f[Item[m].kids[i]] : i \in ToSet(v.choice[m])} = {depth[Item[m].kids[i]] : i \in ToSet(v.choice[m])}
        BY <4>2
      <4> QED BY <3>3, <4>3 DEF RefKinds
    <3>4. CASE Item[m].kind = "opt"
      BY <3>4 DEF RefKinds
    <3>5. CASE Item[m].kind \notin RefKinds \cup {"or", "opt"}
      <4>1. {f[k] : k \in KidsOf(m)} = {depth[k] : k \in KidsOf(m)}
        BY <3>1
      <4> QED BY <3>5, <4>1
    <3> QED BY <3>2, <3>3, <3>4, <3>5
  <2> HIDE DEF B, f, V
  <2>3. B(m, f) \in V
    BY <1>1, <2>1
  <2> QED BY <1>10, <2>2, <2>3
<1>12. depth[n] \in V
  <2> HIDE DEF S
  <2>1. Nodes \subseteq S
    BY <1>11, NodeInduction
  <2> QED BY <2>1 DEF S
<1>13. depth[n] = B(n, depth)
  <2> HIDE DEF B
  <2> QED BY <1>10
<1>14. Item[n].kind \in RefKinds =>
         depth[n] = IF DepthOf(v, Item[n].name) = Inf THEN Inf ELSE DepthOf(v, Item[n].name) + 1
  BY <1>13 DEF RefKinds
<1>15. Item[n].kind = "or" => depth[n] = MinIn({Inf} \cup {depth[Item[n].kids[i]] : i \in ToSet(v.choice[n])})
  BY <1>13 DEF RefKinds
<1>16. Item[n].kind = "opt" => depth[n] = 0
  BY <1>13 DEF RefKinds
<1>17. Item[n].kind \notin RefKinds \cup {"or", "opt"} => depth[n] = MaxIn({0} \cup {depth[k] : k \in KidsOf(n)})
  BY <1>13
<1> QED BY <1>8, <1>12, <1>14, <1>15, <1>16, <1>17

LEMMA LeastIs ==
  ASSUME NEW S \in SUBSET Nat, NEW x \in Nat, S # {}
  PROVE  MinIn(S) \in S /\ (MinIn(S) <= x <=> \E y \in S : y <= x)
<1>1. PICK z \in S : z = MinIn(S) /\ \A y \in S : z <= y
  BY Least
<1>2. \A y \in S : y \in Nat
  OBVIOUS
<1>3. z <= x <=> \E y \in S : y <= x
  BY <1>1, <1>2
<1> QED BY <1>1, <1>3

\* An item nests at most x deep iff what it is made of allows that.
LEMMA DepthAtMost ==
  ASSUME NEW v, ViewOK(v), NEW n \in Nodes, NEW x \in Nat, x < Inf
  PROVE  /\ CalcRefDepth(n, v) \in 0..Inf
         /\ Item[n].kind \in RefKinds =>
              (CalcRefDepth(n, v) <= x <=> DepthOf(v, Item[n].name) + 1 <= x)
         /\ Item[n].kind = "or" =>
              (CalcRefDepth(n, v) <= x <=>
                 \E i \in ToSet(v.choice[n]) : CalcRefDepth(Item[n].kids[i], v) <= x)
         /\ Item[n].kind = "opt" => CalcRefDepth(n, v) <= x
         /\ Item[n].kind \notin RefKinds \cup {"or", "opt"} =>
              (CalcRefDepth(n, v) <= x <=> \A k \in KidsOf(n) : CalcRefDepth(k, v) <= x)
<1>0. Inf \in Nat /\ \A m \in Nodes : CalcRefDepth(m, v) \in 0..Inf
  BY InfIsNat, CalcRefDepthIs
<1>1. ASSUME Item[n].kind \in RefKinds
      PROVE  CalcRefDepth(n, v) <= x <=> DepthOf(v, Item[n].name) + 1 <= x
  <2>1. DepthOf(v, Item[n].name) \in 0..Inf
    BY DEF ViewOK
  <2>2. CalcRefDepth(n, v) = IF DepthOf(v, Item[n].name) = Inf THEN Inf ELSE DepthOf(v, Item[n].name) + 1
    BY <1>1, CalcRefDepthIs
  <2> QED BY <1>0, <2>1, <2>2
<1>2. ASSUME Item[n].kind = "or"
      PROVE  CalcRefDepth(n, v) <= x <=>
               \E i \in ToSet(v.choice[n]) : CalcRefDepth(Item[n].kids[i], v) <= x
  <2> DEFINE S == {Inf} \cup {CalcRefDepth(Item[n].kids[i], v) : i \in ToSet(v.choice[n])}
  <2>1. CalcRefDepth(n, v) = MinIn(S)
    BY <1>2, CalcRefDepthIs
  <2>2. ToSet(v.choice[n]) \subseteq 1..Len(Item[n].kids)
    BY <1>2 DEF ViewOK, OrNodes
  <2>3. S \subseteq Nat /\ S # {}
    BY <1>0, <2>2, KidsAre
  <2>4. MinIn(S) <= x <=> \E y \in S : y <= x
    <3> HIDE DEF S
    <3> QED BY <2>3, LeastIs
  <2>5. ~ (Inf <= x)
    BY <1>0
  <2> QED BY <2>1, <2>4, <2>5
<1>3. ASSUME Item[n].kind = "opt"
      PROVE  CalcRefDepth(n, v) <= x
  <2>1. CalcRefDepth(n, v) = 0
    BY <1>3, CalcRefDepthIs
  <2> QED BY <2>1
<1>4. ASSUME Item[n].kind \notin RefKinds \cup {"or", "opt"}
      PROVE  CalcRefDepth(n, v) <= x <=> \A k \in KidsOf(n) : CalcRefDepth(k, v) <= x
  <2> DEFINE S == {0} \cup {CalcRefDepth(k, v) : k \in KidsOf(n)}
  <2>1. CalcRefDepth(n, v) = MaxIn(S)
    BY <1>4, CalcRefDepthIs
  <2>2. S \subseteq 0..Inf /\ 0 \in S
    BY <1>0, KidsAreNodes
  <2>3. MaxIn(S) \in S /\ \A y \in S : MaxIn(S) >= y
    <3> HIDE DEF S
    <3> QED BY <1>0, <2>2, MaxIs
  <2>4. \A k \in KidsOf(n) : CalcRefDepth(k, v) \in S
    OBVIOUS
  <2>5. MaxIn(S) = 0 \/ \E k \in KidsOf(n) : MaxIn(S) = CalcRefDepth(k, v)
    BY <2>3
  <2>6. MaxIn(S) \in 0..Inf
    BY <2>2, <2>3
  <2> HIDE DEF S
  <2>7. \A k \in KidsOf(n) : CalcRefDepth(k, v) \in 0..Inf /\ CalcRefDepth(k, v) <= MaxIn(S)
    BY <2>2, <2>3, <2>4, <2>6
  <2> QED BY <1>0, <2>1, <2>5, <2>6, <2>7
<1> QED BY <1>0, <1>1, <1>2, <1>3, <1>4

-----------------------------------------------------------------------------
(* The names that an item introduces and needs.                            *)

AnyName == Names \cup {""}

AddsBy(adds) ==
  adds = [m \in Nodes |->
        LET kids == Item[m].kids IN
        Introduces(m) \cup
          UNION {adds[kids[k]] : k \in {k \in DOMAIN kids :
                    Item[m].kind # "or" => \A i \in 1..(k - 1) : Fulfilled(kids[i], Given)}}]

\* The items of n that a pass comes to if what D names can be built: up to the first
\* that cannot.
Open(n, D) ==
  {k \in 1..Len(Item[n].kids) :
     Item[n].kind # "or" => \A i \in 1..(k - 1) : Fulfilled(Item[n].kids[i], D)}

LEMMA AddsIs ==
  ASSUME NEW n \in Nodes
  PROVE  Adds(n) = Introduces(n) \cup UNION {Adds(Item[n].kids[k]) : k \in Open(n, Given)}
<1> DEFINE V == SUBSET AnyName
           B(m, f) == Introduces(m) \cup UNION {f[Item[m].kids[k]] : k \in Open(m, Given)}
           G == [m \in Nodes |-> [f \in [Nodes -> V] |-> B(m, f)]]
           adds == CHOOSE f : AddsBy(f)
<1>1. ASSUME NEW m \in Nodes
      PROVE  \A k \in Open(m, Given) : Item[m].kids[k] \in KidsOf(m) /\ Item[m].kids[k] \in Nodes
  BY KidsAre DEF Open
<1>2. ASSUME NEW m \in Nodes
      PROVE  Introduces(m) \subseteq AnyName
  <2>1. Item[m] \in [kind: Kinds, kids: Seq(Nodes), name: Names \cup {""}]
    BY GrammarAssumption
  <2> QED BY <2>1 DEF Introduces, AnyName
<1>3. ASSUME NEW m \in Nodes, NEW f \in [Nodes -> V]
      PROVE  B(m, f) \in V
  BY <1>1, <1>2
<1>4. ASSUME NEW m \in Nodes, NEW f \in [Nodes -> V], NEW g \in [Nodes -> V],
             \A k \in KidsOf(m) : f[k] = g[k]
      PROVE  B(m, f) = B(m, g)
  <2>1. \A k \in Open(m, Given) : f[Item[m].kids[k]] = g[Item[m].kids[k]]
    BY <1>1, <1>4
  <2>2. {f[Item[m].kids[k]] : k \in Open(m, Given)} = {g[Item[m].kids[k]] : k \in Open(m, Given)}
    BY <2>1
  <2> QED BY <2>2
<1>5. Local(V, G)
  <2> HIDE DEF B, V
  <2>1. G \in [Nodes -> [[Nodes -> V] -> V]]
    BY <1>3
  <2>2. ASSUME NEW m \in Nodes, NEW f \in [Nodes -> V], NEW g \in [Nodes -> V],
               \A k \in KidsOf(m) : f[k] = g[k]
        PROVE  G[m][f] = G[m][g]
    <3>1. B(m, f) = B(m, g)
      BY <1>4, <2>2
    <3> QED BY <3>1
  <2> HIDE DEF G
  <2> QED BY <2>1, <2>2 DEF Local
<1>6. PICK F \in [Nodes -> V] : \A m \in Nodes : F[m] = G[m][F]
  <2>1. V # {}
    OBVIOUS
  <2> HIDE DEF G, B, V
  <2> QED BY <1>5, <2>1, Recursion
<1>7. F = [m \in Nodes |-> B(m, F)]
  <2>1. \A m \in Nodes : G[m][F] = B(m, F)
    <3> HIDE DEF B, V
    <3> QED OBVIOUS
  <2> HIDE DEF B, G
  <2> QED BY <1>6, <2>1
<1>8. \A f : AddsBy(f) <=> f = [m \in Nodes |-> B(m, f)]
  <2>1. ASSUME NEW f, NEW m \in Nodes
        PROVE  B(m, f) = (LET kids == Item[m].kids IN
                  Introduces(m) \cup
                    UNION {f[kids[k]] : k \in {k \in DOMAIN kids :
                       Item[m].kind # "or" => \A i \in 1..(k - 1) : Fulfilled(kids[i], Given)}})
    BY KidsAre DEF Open
  <2> HIDE DEF B
  <2> QED BY <2>1 DEF AddsBy
<1>9. AddsBy(adds)
  <2> HIDE DEF B
  <2> QED BY <1>7, <1>8
<1>10. \A m : Adds(m) = adds[m]
  BY DEF Adds, AddsBy
<1> HIDE DEF adds
<1>11. adds[n] = B(n, adds)
  <2>1. adds = [m \in Nodes |-> B(m, adds)]
    BY <1>8, <1>9
  <2> HIDE DEF B
  <2> QED BY <2>1
<1> QED BY <1>10, <1>11

\* What n introduces itself or in its items before the k-th.
Leads(n, k) == Introduces(n) \cup UNION {Adds(Item[n].kids[i]) : i \in 1..(k - 1)}

NeedsBy(needs) ==
  needs = [m \in Nodes |->
        LET kids == Item[m].kids IN
        (IF Item[m].kind \in RefKinds THEN {Item[m].name} ELSE {}) \cup
          UNION {needs[kids[k]] \ (Introduces(m) \cup UNION {Adds(kids[i]) : i \in 1..(k - 1)}) :
                 k \in DOMAIN kids}]

LEMMA NeedsIs ==
  ASSUME NEW n \in Nodes
  PROVE  /\ Item[n].kind \in RefKinds => Item[n].name \in Needs(n)
         /\ \A k \in 1..Len(Item[n].kids) : Needs(Item[n].kids[k]) \ Leads(n, k) \subseteq Needs(n)
<1> DEFINE V == SUBSET AnyName
           B(m, f) == (IF Item[m].kind \in RefKinds THEN {Item[m].name} ELSE {}) \cup
                        UNION {f[Item[m].kids[k]] \ Leads(m, k) : k \in 1..Len(Item[m].kids)}
           G == [m \in Nodes |-> [f \in [Nodes -> V] |-> B(m, f)]]
           needs == CHOOSE f : NeedsBy(f)
<1>1. ASSUME NEW m \in Nodes, NEW f \in [Nodes -> V]
      PROVE  B(m, f) \in V
  <2>1. Item[m] \in [kind: Kinds, kids: Seq(Nodes), name: Names \cup {""}]
    BY GrammarAssumption
  <2>2. Item[m].name \in AnyName
    BY <2>1 DEF AnyName
  <2>3. \A k \in 1..Len(Item[m].kids) : f[Item[m].kids[k]] \subseteq AnyName
    BY KidsAre
  <2> QED BY <2>2, <2>3
<1>2. ASSUME NEW m \in Nodes, NEW f \in [Nodes -> V], NEW g \in [Nodes -> V],
             \A k \in KidsOf(m) : f[k] = g[k]
      PROVE  B(m, f) = B(m, g)
  <2>1. \A k \in 1..Len(Item[m].kids) : f[Item[m].kids[k]] = g[Item[m].kids[k]]
    BY <1>2, KidsAre
  <2>2. {f[Item[m].kids[k]] \ Leads(m, k) : k \in 1..Len(Item[m].kids)}
          = {g[Item[m].kids[k]] \ Leads(m, k) : k \in 1..Len(Item[m].kids)}
    BY <2>1
  <2> QED BY <2>2
<1>3. Local(V, G)
  <2> HIDE DEF B, V
  <2>1. G \in [Nodes -> [[Nodes -> V] -> V]]
    BY <1>1
  <2>2. ASSUME NEW m \in Nodes, NEW f \in [Nodes -> V], NEW g \in [Nodes -> V],
               \A k \in KidsOf(m) : f[k] = g[k]
        PROVE  G[m][f] = G[m][g]
    <3>1. B(m, f) = B(m, g)
      BY <1>2, <2>2
    <3> QED BY <3>1
  <2> HIDE DEF G
  <2> QED BY <2>1, <2>2 DEF Local
<1>4. PICK F \in [Nodes -> V] : \A m \in Nodes : F[m] = G[m][F]
  <2>1. V # {}
    OBVIOUS
  <2> HIDE DEF G, B, V
  <2> QED BY <1>3, <2>1, Recursion
<1>5. F = [m \in Nodes |-> B(m, F)]
  <2>1. \A m \in Nodes : G[m][F] = B(m, F)
    <3> HIDE DEF B, V
    <3> QED OBVIOUS
  <2> HIDE DEF B, G
  <2> QED BY <1>4, <2>1
<1>6. \A f : NeedsBy(f) <=> f = [m \in Nodes |-> B(m, f)]
  <2>1. ASSUME NEW f, NEW m \in Nodes
        PROVE  B(m, f) = (LET kids == Item[m].kids IN
                  (IF Item[m].kind \in RefKinds THEN {Item[m].name} ELSE {}) \cup
                    UNION {f[kids[k]] \ (Introduces(m) \cup UNION {Adds(kids[i]) : i \in 1..(k - 1)}) :
                           k \in DOMAIN kids})
    BY KidsAre DEF Leads
  <2> HIDE DEF B
  <2> QED BY <2>1 DEF NeedsBy
<1>7. NeedsBy(needs)
  <2> HIDE DEF B
  <2> QED BY <1>5, <1>6
<1>8. \A m : Needs(m) = needs[m]
  BY DEF Needs, NeedsBy
<1> HIDE DEF needs
<1>9. needs[n] = B(n, needs)
  <2>1. needs = [m \in Nodes |-> B(m, needs)]
    BY <1>6, <1>7
  <2> HIDE DEF B
  <2> QED BY <2>1
<1> QED BY <1>8, <1>9

-----------------------------------------------------------------------------
(* What can be built with few references.                                  *)

WithinBy(W, kept, calls) ==
  W = [d \in 0..Inf |->
         IF d = 0 THEN {}
         ELSE LET D == W[d - 1]
              IN kept \cup {call.name : call \in {c \in ToSet(calls) : Fulfilled(c.node, D)}}]
WithinOf(kept, calls) == CHOOSE W : WithinBy(W, kept, calls)

LEMMA WithinSame == Within = WithinOf(Kept, grammar)
BY DEF Within, WithinOf, WithinBy

\* The names of what can be built if those in D can.
Next1(kept, calls, D) == kept \cup {call.name : call \in {c \in ToSet(calls) : Fulfilled(c.node, D)}}

UpTo(n, W, kept, calls) ==
  W = [d \in 0..n |-> IF d = 0 THEN {} ELSE Next1(kept, calls, W[d - 1])]

LEMMA WithinExists ==
  ASSUME NEW kept, NEW calls, NEW n \in Nat
  PROVE  \E W : UpTo(n, W, kept, calls)
<1> DEFINE P(m, W) == UpTo(m, W, kept, calls)
           H == {h \in Nat : ~ \E W : P(h, W)}
<1> SUFFICES ASSUME H # {} PROVE FALSE
  OBVIOUS
<1>1. PICK h \in H : \A y \in H : h <= y
  <2>1. H \in SUBSET Nat
    OBVIOUS
  <2> HIDE DEF H
  <2> QED BY <2>1, Least
<1>2. h \in Nat /\ ~ \E W : P(h, W)
  BY <1>1
<1>3. CASE h = 0
  <2> DEFINE W == [d \in 0..0 |-> {}]
  <2>1. P(0, W)
    BY DEF UpTo
  <2> QED BY <2>1, <1>2, <1>3
<1>4. CASE h # 0
  <2>1. h - 1 \in Nat /\ h - 1 \notin H
    BY <1>1, <1>2, <1>4
  <2>2. PICK u : P(h - 1, u)
    BY <2>1
  <2> DEFINE W == [d \in 0..h |-> IF d = h THEN Next1(kept, calls, u[h - 1]) ELSE u[d]]
  <2>3. \A d \in 0..(h - 1) : u[d] = IF d = 0 THEN {} ELSE Next1(kept, calls, u[d - 1])
    BY <2>2 DEF UpTo
  <2>4. \A d \in 0..h : W[d] = IF d = 0 THEN {} ELSE Next1(kept, calls, W[d - 1])
    BY <2>1, <2>3, <1>2, <1>4
  <2>5. W = [d \in 0..h |-> W[d]]
    OBVIOUS
  <2> HIDE DEF W
  <2>6. P(h, W)
    BY <2>4, <2>5 DEF UpTo
  <2> QED BY <2>6, <1>2
<1> QED BY <1>3, <1>4

LEMMA WithinOfIs ==
  ASSUME NEW kept, NEW calls, NEW d \in 0..Inf
  PROVE  WithinOf(kept, calls)[d]
           = IF d = 0 THEN {} ELSE Next1(kept, calls, WithinOf(kept, calls)[d - 1])
<1> DEFINE W == WithinOf(kept, calls)
<1>1. \A w : WithinBy(w, kept, calls) <=> UpTo(Inf, w, kept, calls)
  BY DEF WithinBy, Next1, UpTo
<1>2. \E w : WithinBy(w, kept, calls)
  BY <1>1, WithinExists, InfIsNat
<1>3. WithinBy(W, kept, calls)
  BY <1>2 DEF WithinOf
<1> HIDE DEF W
<1>4. W[d] = IF d = 0 THEN {} ELSE Next1(kept, calls, W[d - 1])
  BY <1>1, <1>3 DEF UpTo
<1> QED BY <1>4 DEF W

LEMMA WithinIs ==
  ASSUME grammar \in Grammars, NEW d \in 0..Inf, NEW name
  PROVE  /\ name \in Within[0] => FALSE
         /\ d # 0 => (name \in Within[d] <=>
              \/ name \in Kept
              \/ \E p \in 1..Len(grammar) :
                   grammar[p].name = name /\ Fulfilled(grammar[p].node, Within[d - 1]))
<1>1. Within[0] = {}
  BY WithinSame, WithinOfIs, InfIsNat
<1>2. d # 0 => Within[d] = Next1(Kept, grammar, Within[d - 1])
  BY WithinSame, WithinOfIs
<1>3. ToSet(grammar) = {grammar[p] : p \in 1..Len(grammar)}
  BY GrammarIsSeq, SeqFacts DEF ToSet
<1> QED BY <1>1, <1>2, <1>3 DEF Next1

LEMMA WithinIsSmall ==
  ASSUME grammar \in Grammars, NEW d \in 0..Inf
  PROVE  Within[d] \subseteq Kept \cup Given
<1> SUFFICES ASSUME NEW name \in Within[d] PROVE name \in Kept \cup Given
  OBVIOUS
<1>1. \/ name \in Kept
      \/ \E p \in 1..Len(grammar) : grammar[p].name = name
  BY WithinIs
<1>2. \A p \in 1..Len(grammar) : grammar[p].name \in Given
  BY GrammarIsSeq, SeqFacts DEF Given, ToSet
<1> QED BY <1>1, <1>2

LEMMA WithinStep ==
  ASSUME grammar \in Grammars, NEW d \in 0..(Inf - 1)
  PROVE  Within[d] \subseteq Within[d + 1]
<1> DEFINE H == {h \in Nat : h < Inf /\ ~ (Within[h] \subseteq Within[h + 1])}
<1>0. Inf \in Nat \ {0}
  BY InfIsNat
<1> SUFFICES ASSUME H # {} PROVE FALSE
  BY <1>0
<1>1. PICK h \in H : \A y \in H : h <= y
  <2>1. H \in SUBSET Nat
    OBVIOUS
  <2> HIDE DEF H
  <2> QED BY <2>1, Least
<1>2. h \in 0..Inf /\ h + 1 \in 0..Inf /\ h + 1 # 0 /\ (h + 1) - 1 = h
  BY <1>0, <1>1
<1>3. PICK name \in Within[h] : name \notin Within[h + 1]
  BY <1>1
<1>4. h # 0
  BY <1>2, <1>3, WithinIs
<1>5. \/ name \in Kept
      \/ \E p \in 1..Len(grammar) : grammar[p].name = name /\ Fulfilled(grammar[p].node, Within[h - 1])
  BY <1>2, <1>3, <1>4, WithinIs
<1>6. ~ (name \in Kept \/ \E p \in 1..Len(grammar) :
                            grammar[p].name = name /\ Fulfilled(grammar[p].node, Within[h]))
  <2>1. name \in Within[h + 1] <=>
          \/ name \in Kept
          \/ \E p \in 1..Len(grammar) :
               grammar[p].name = name /\ Fulfilled(grammar[p].node, Within[(h + 1) - 1])
    BY <1>2, WithinIs
  <2> QED BY <1>2, <1>3, <2>1
<1>7. PICK p \in 1..Len(grammar) : grammar[p].name = name /\ Fulfilled(grammar[p].node, Within[h - 1])
  BY <1>5, <1>6
<1>8. Within[h - 1] \subseteq Within[h]
  <2>1. h - 1 \in Nat /\ h - 1 < Inf /\ ~ (h <= h - 1) /\ (h - 1) + 1 = h
    BY <1>0, <1>2, <1>4
  <2>2. h - 1 \notin H
    <3> HIDE DEF H
    <3> QED BY <1>1, <2>1
  <2> QED BY <2>1, <2>2
<1>9. grammar[p].node \in Nodes
  BY UsedIsClosed
<1> QED BY <1>6, <1>7, <1>8, <1>9, MoreIsFulfilled

LEMMA WithinGrows ==
  ASSUME grammar \in Grammars, NEW d \in 0..Inf, NEW e \in 0..Inf, d <= e
  PROVE  Within[d] \subseteq Within[e]
<1> DEFINE H == {h \in Nat : d + h <= Inf /\ ~ (Within[d] \subseteq Within[d + h])}
<1>0. Inf \in Nat \ {0} /\ e - d \in Nat /\ d + (e - d) = e
  BY InfIsNat
<1>1. H = {} => Within[d] \subseteq Within[e]
  <2>1. e - d \in H \/ Within[d] \subseteq Within[e]
    BY <1>0
  <2> QED BY <2>1
<1> SUFFICES ASSUME H # {} PROVE FALSE
  BY <1>1
<1>2. PICK h \in H : \A y \in H : h <= y
  <2>1. H \in SUBSET Nat
    OBVIOUS
  <2> HIDE DEF H
  <2> QED BY <2>1, Least
<1>3. h # 0
  BY <1>2
<1>4. h - 1 \in Nat /\ h - 1 \notin H /\ d + (h - 1) <= Inf
  BY <1>0, <1>2, <1>3
<1>5. Within[d] \subseteq Within[d + (h - 1)]
  BY <1>4
<1>6. PICK c \in 0..(Inf - 1) : c = d + (h - 1) /\ c + 1 = d + h
  BY <1>0, <1>2, <1>4
<1>7. Within[c] \subseteq Within[c + 1]
  BY <1>6, WithinStep
<1> QED BY <1>2, <1>5, <1>6, <1>7

\* What Positions returns.
LEMMA PositionsHold ==
  ASSUME NEW oks, Len(oks) \in Nat
  PROVE  ToSet(Positions(oks)) = {k \in 1..Len(oks) : oks[k]}
<1> DEFINE n == Len(oks)
           up == CHOOSE u : Counts(oks, n, u)
           In(k) == {j \in 1..k : oks[j]}
           H == {h \in Nat : h <= n /\ ToSet(up[h]) # In(h)}
<1>1. Counts(oks, n, up)
  BY CountExists
<1>2. Positions(oks) = up[n]
  BY DEF Positions, Counts
<1> HIDE DEF up
<1> SUFFICES ASSUME H # {} PROVE FALSE
  BY <1>2
<1>3. PICK h \in H : \A y \in H : h <= y
  <2>1. H \in SUBSET Nat
    OBVIOUS
  <2> HIDE DEF H
  <2> QED BY <2>1, Least
<1>4. h \in 0..n /\ up[h] = CASE h = 0           -> <<>>
                              [] h > 0 /\ oks[h] -> Append(up[h - 1], h)
                              [] OTHER           -> up[h - 1]
  <2>1. h \in 0..n
    BY <1>3
  <2> QED BY <1>1, <2>1 DEF Counts
<1>5. CASE h = 0
  <2>1. up[h] = <<>> /\ ToSet(<<>>) = {}
    BY <1>4, <1>5 DEF ToSet
  <2>2. In(h) = {}
    BY <1>5
  <2> QED BY <1>3, <2>1, <2>2
<1>6. CASE h # 0
  <2>1. h - 1 \in Nat /\ h - 1 <= n /\ h - 1 \notin H
    BY <1>3, <1>6
  <2>2. ToSet(up[h - 1]) = In(h - 1)
    BY <2>1
  <2>3. up[h - 1] \in Seq(1..n)
    BY <1>1, <2>1, CountStays
  <2>4. ToSet(Append(up[h - 1], h)) = ToSet(up[h - 1]) \cup {h}
    <3>1. PICK s : s = up[h - 1]
      OBVIOUS
    <3>2. s \in Seq(1..n)
      BY <2>3, <3>1
    <3>3. /\ Len(s) \in Nat /\ Len(Append(s, h)) = Len(s) + 1
          /\ \A i \in 1..Len(s) : Append(s, h)[i] = s[i]
          /\ Append(s, h)[Len(s) + 1] = h
          /\ DOMAIN s = 1..Len(s) /\ DOMAIN Append(s, h) = 1..(Len(s) + 1)
      <4>1. AnySeq(s)
        BY <3>2 DEF AnySeq
      <4> QED BY <4>1, Appended, SeqFacts
    <3>4. ToSet(s) = {s[i] : i \in 1..Len(s)}
      BY <3>3 DEF ToSet
    <3>5. ToSet(Append(s, h)) = {Append(s, h)[i] : i \in 1..(Len(s) + 1)}
      BY <3>3 DEF ToSet
    <3>6. \A i \in 1..(Len(s) + 1) : i \in 1..Len(s) \/ i = Len(s) + 1
      BY <3>3
    <3>7. 1..Len(s) \subseteq 1..(Len(s) + 1) /\ Len(s) + 1 \in 1..(Len(s) + 1)
      BY <3>3
    <3> QED BY <3>1, <3>3, <3>4, <3>5, <3>6, <3>7
  <2>5. \A j \in 1..h : j \in 1..(h - 1) \/ j = h
    BY <1>3
  <2>6. 1..(h - 1) \subseteq 1..h /\ h \in 1..h
    BY <1>3, <1>6
  <2>7. CASE oks[h]
    <3>1. up[h] = Append(up[h - 1], h)
      BY <1>4, <1>6, <2>7
    <3>2. In(h) = In(h - 1) \cup {h}
      BY <2>5, <2>6, <2>7
    <3> QED BY <1>3, <2>2, <2>4, <3>1, <3>2
  <2>8. CASE ~oks[h]
    <3>1. up[h] = up[h - 1]
      BY <1>4, <1>6, <2>8
    <3>2. In(h) = In(h - 1)
      BY <2>5, <2>6, <2>8
    <3> QED BY <1>3, <2>2, <3>1, <3>2
  <2> QED BY <2>7, <2>8
<1> QED BY <1>5, <1>6

-----------------------------------------------------------------------------
(* Names and rules during Finalize.                                        *)

\* Before the first end of a pass of Reach.
FirstPass == fin.pass \in {"add", "reach"} /\ DOMAIN fin.depths = {}
Called == IF fin.pass = "add" THEN fin.at - 1 ELSE Len(grammar)

\* The items that the first n calls of AddRule give to name, in their order.
Whole(name, items, n) ==
  /\ \A j \in 1..Len(items) : \E p \in 1..n :
       /\ grammar[p].name = name /\ grammar[p].node = items[j].node
       /\ \A q \in 1..(p - 1) : grammar[q].name = name =>
            \E l \in 1..(j - 1) : items[l].node = grammar[q].node
  /\ \A p \in 1..n : grammar[p].name = name => \E j \in 1..Len(items) : items[j].node = grammar[p].node

AddOK ==
  fin.pass = "add" =>
    /\ fin.at <= Len(grammar) + 1 /\ DOMAIN fin.depths = {} /\ fin.toPrune = {}
    /\ \A i \in 1..Len(names) : names[i] \in Given /\ FirstOf(names[i]) < fin.at
Distinct == \A i, j \in 1..Len(names) : names[i] = names[j] => i = j
CalledOK == \A p \in 1..Called : grammar[p].name \in ToSet(names)
OwnNames == \A i \in 1..Len(names) : names[i] \in Given \/ (Root[i].live /\ Root[i].keep)
InOrder ==
  \A i, j \in 1..Len(names) :
    names[i] \in Given /\ names[j] \in Given /\ FirstOf(names[i]) < FirstOf(names[j]) => i < j
FirstOK ==
  FirstPass => \A i \in 1..Len(names) : Root[i].live /\ Whole(names[i], Root[i].items, Called)
RulesAre ==
  \A i \in 1..Len(names) :
    Root[i].live => \/ Whole(names[i], Root[i].items, Called)
                    \/ Root[i].keep /\ Root[i].items = <<>>
PrunesGiven == \A i \in fin.toPrune : i \in 1..Len(names) /\ names[i] \in Given

NamesInv == AddOK /\ Distinct /\ CalledOK /\ OwnNames /\ InOrder /\ FirstOK /\ RulesAre /\ PrunesGiven

\* The rules stay but for their choices.
LEMMA NamesStay ==
  ASSUME NamesInv, grammar' = grammar, names' = names, Called' = Called, fin'.pass # "add",
         \A i \in 1..Len(names) : /\ Root'[i].live = Root[i].live /\ Root'[i].keep = Root[i].keep
                                  /\ Root'[i].items = Root[i].items,
         FirstPass' => FirstPass, PrunesGiven'
  PROVE  NamesInv'
<1>1. Given' = Given /\ \A name : FirstOf(name)' = FirstOf(name)
  BY DEF Given, FirstOf
<1>2. \A name, items, n : Whole(name, items, n)' <=> Whole(name, items, n)
  BY DEF Whole
<1>3. AddOK'
  BY DEF AddOK
<1>4. Distinct' /\ CalledOK' /\ OwnNames' /\ InOrder'
  BY <1>1 DEF NamesInv, Distinct, CalledOK, OwnNames, InOrder
<1>5. ASSUME NEW i \in 1..Len(names), NEW items, items = Root[i].items
      PROVE  /\ items = Root'[i].items
             /\ Whole(names'[i], Root'[i].items, Called') <=> Whole(names[i], items, Called)
  BY <1>5
<1>6. FirstOK' /\ RulesAre'
  BY <1>2, <1>5 DEF NamesInv, FirstOK, RulesAre
<1> QED BY <1>3, <1>4, <1>6 DEF NamesInv

\* Some rules to which the grammar gives items go.
LEMMA NamesPruned ==
  ASSUME NamesInv, grammar' = grammar, names' = names, Called' = Called, fin'.pass # "add",
         NEW S, \A i \in S : i \in 1..Len(names) => names[i] \in Given,
         \A i \in 1..Len(names) : Root'[i] = IF i \in S THEN NoRule ELSE Root[i],
         FirstPass' => Len(names) = 0, Len(names) \in Nat, PrunesGiven'
  PROVE  NamesInv'
<1>0. ~NoRule.live
  BY NewIsRanged
<1>1. Given' = Given /\ \A name : FirstOf(name)' = FirstOf(name)
  BY DEF Given, FirstOf
<1>2. \A name, items, n : Whole(name, items, n)' <=> Whole(name, items, n)
  BY DEF Whole
<1>3. AddOK'
  BY DEF AddOK
<1>4. Distinct' /\ CalledOK' /\ OwnNames' /\ InOrder'
  BY <1>1 DEF NamesInv, Distinct, CalledOK, OwnNames, InOrder
<1>5. FirstOK'
  BY DEF FirstOK
<1>6. RulesAre'
  <2> SUFFICES ASSUME NEW i \in 1..Len(names), Root'[i].live
               PROVE  \/ Whole(names[i], Root'[i].items, Called)
                      \/ Root'[i].keep /\ Root'[i].items = <<>>
    BY <1>2 DEF RulesAre
  <2>1. Root'[i] = Root[i]
    BY <1>0
  <2> QED BY <2>1 DEF NamesInv, RulesAre
<1> QED BY <1>3, <1>4, <1>5, <1>6 DEF NamesInv

\* The first call for a name of the grammar.
LEMMA FirstIs ==
  ASSUME grammar \in Grammars, NEW name, NEW p \in 1..Len(grammar), grammar[p].name = name
  PROVE  /\ FirstOf(name) \in 1..Len(grammar) /\ grammar[FirstOf(name)].name = name
         /\ FirstOf(name) <= p /\ name \in Given
<1> DEFINE S == {q \in DOMAIN grammar : grammar[q].name = name}
<1>1. DOMAIN grammar = 1..Len(grammar) /\ Len(grammar) \in Nat
  BY GrammarIsSeq, SeqFacts
<1>2. S \in SUBSET Nat /\ p \in S
  BY <1>1
<1>3. FirstOf(name) = MinIn(S)
  BY DEF FirstOf
<1> HIDE DEF S
<1>4. MinIn(S) \in S /\ \A y \in S : MinIn(S) <= y
  BY <1>2, Least
<1>5. FirstOf(name) \in S /\ FirstOf(name) <= p
  BY <1>2, <1>3, <1>4
<1>6. grammar[p] \in ToSet(grammar)
  BY <1>1 DEF ToSet
<1> QED BY <1>1, <1>5, <1>6 DEF S, Given

LEMMA GivenAre ==
  ASSUME grammar \in Grammars, NEW name \in Given
  PROVE  \E p \in 1..Len(grammar) : grammar[p].name = name
<1>1. DOMAIN grammar = 1..Len(grammar)
  BY GrammarIsSeq, SeqFacts
<1> QED BY <1>1 DEF Given, ToSet

LEMMA IndexNamed ==
  ASSUME NEW ns, AnySeq(ns), NEW name \in ToSet(ns)
  PROVE  IndexOf(ns, name) \in 1..Len(ns) /\ ns[IndexOf(ns, name)] = name /\ IndexOf(ns, name) # 0
<1>1. Len(ns) \in Nat /\ DOMAIN ns = 1..Len(ns)
  BY SeqFacts
<1>2. \E i \in 1..Len(ns) : ns[i] = name
  BY <1>1 DEF ToSet
<1>3. IndexOf(ns, name) = CHOOSE i \in 1..Len(ns) : ns[i] = name
  BY DEF IndexOf
<1>4. IndexOf(ns, name) \in 1..Len(ns) /\ ns[IndexOf(ns, name)] = name
  BY <1>2, <1>3
<1> QED BY <1>1, <1>4

LEMMA NamesSet ==
  ASSUME NEW ns, AnySeq(ns)
  PROVE  ToSet(ns) = {ns[i] : i \in 1..Len(ns)}
BY SeqFacts DEF ToSet

LEMMA EnsuredNames ==
  ASSUME NEW ns, AnySeq(ns), NEW rs, NEW name, NEW e, e = Ensured([names |-> ns, rules |-> rs], name)
  PROVE  \/ name \in ToSet(ns) /\ e.names = ns
         \/ name \notin ToSet(ns) /\ e.names = Append(ns, name)
<1>1. CASE name \in ToSet(ns)
  <2>1. IndexOf(ns, name) # 0
    BY <1>1, IndexNamed
  <2> QED BY <1>1, <2>1 DEF Ensured
<1>2. CASE name \notin ToSet(ns)
  <2>1. IndexOf(ns, name) = 0
    BY <1>2 DEF IndexOf
  <2> QED BY <1>2, <2>1 DEF Ensured
<1> QED BY <1>1, <1>2

\* One rule has one more item, or there is one more rule.
AddedAs(ns, rs, r, name, node) ==
  \E i \in 1..Len(r.names) :
    /\ r.names[i] = name /\ r.rules[i].live
    /\ \A k \in 1..Len(r.names) : k # i => k \in 1..Len(ns) /\ r.rules[k] = rs[k]
    /\ \/ /\ name \notin ToSet(ns) /\ r.names = Append(ns, name) /\ i = Len(ns) + 1
          /\ r.rules[i].items = Append(<<>>, StaticEntry(node))
       \/ /\ name \in ToSet(ns) /\ r.names = ns
          /\ r.rules[i].items = Append(rs[i].items, StaticEntry(node))

\* A call of AddRule while every rule is there.
LEMMA AddedRuleIs ==
  ASSUME NEW ns, AnySeq(ns), NEW rs, AnySeq(rs), Len(rs) = Len(ns), NEW U, RuleList(U, rs),
         \A k \in 1..Len(rs) : rs[k].live, NEW name, NEW node,
         NEW s, s = [names |-> ns, rules |-> rs], NEW call, call = [name |-> name, node |-> node],
         NEW r, r = AddedRule(s, call)
  PROVE  AddedAs(ns, rs, r, name, node)
<1> DEFINE e == Ensured([names |-> ns, rules |-> rs], name)
           i == IndexOf(e.names, name)
           x == [e.rules[i] EXCEPT !.items = Append(@, StaticEntry(node))]
<1>1. r = [e EXCEPT !.rules[i].items = Append(@, StaticEntry(node))]
  BY DEF AddedRule
<1>2. /\ AnySeq(e.names) /\ AnySeq(e.rules) /\ Len(e.rules) = Len(e.names) /\ Len(e.rules) \in Nat
      /\ i \in 1..Len(e.rules) /\ e.rules[i].live
      /\ ToSet(ns) \cup {name} \subseteq ToSet(e.names)
      /\ \A k \in 1..Len(e.rules) :
           \/ k \in 1..Len(rs) /\ e.rules[k] = rs[k]
           \/ k = i /\ e.rules[k] = NewOr /\ (k \in 1..Len(rs) => ~rs[k].live)
  BY LiveRule, LiveRuleIsThere, LiveRuleIsNamed, LiveRuleIsAlone
<1>3. e = [names |-> e.names, rules |-> e.rules] /\ RuleList(U, e.rules)
  BY EnsuredRule
<1>4. \/ name \in ToSet(ns) /\ e.names = ns
      \/ name \notin ToSet(ns) /\ e.names = Append(ns, name)
  BY EnsuredNames
<1>5. e.names[i] = name
  <2> HIDE DEF e
  <2>1. name \in ToSet(e.names)
    BY <1>2
  <2> QED BY <1>2, <2>1, IndexNamed
<1> HIDE DEF e, i
<1>6. r.names = e.names /\ r.rules = [e.rules EXCEPT ![i] = x]
  <2> DEFINE rules == [e.rules EXCEPT ![i] = x]
  <2>1. r = [names |-> e.names, rules |-> rules]
    BY <1>1, <1>3
  <2> HIDE DEF rules
  <2>2. r.names = e.names /\ r.rules = rules
    BY <2>1
  <2> QED BY <2>2 DEF rules
<1>7. RuleOK(U, e.rules[i])
  BY <1>2, <1>3 DEF RuleList
<1>8. x.live = e.rules[i].live /\ x.items = Append(e.rules[i].items, StaticEntry(node))
  BY <1>7 DEF RuleOK
<1> HIDE DEF x
<1>9. \A k \in 1..Len(e.rules) : r.rules[k] = IF k = i THEN x ELSE e.rules[k]
  <2>1. PICK S : e.rules \in Seq(S)
    BY <1>2 DEF AnySeq
  <2> QED BY <1>6, <2>1
<1>10. \A k \in 1..Len(e.names) : k # i => k \in 1..Len(ns) /\ r.rules[k] = rs[k]
  BY <1>2, <1>9
<1>11. r.rules[i].live
  BY <1>2, <1>8, <1>9
<1>12. CASE name \in ToSet(ns) /\ e.names = ns
  <2>1. e.rules[i] = rs[i]
    BY <1>2, <1>12
  <2>2. r.rules[i].items = Append(rs[i].items, StaticEntry(node))
    BY <1>2, <1>8, <1>9, <2>1
  <2> QED BY <1>2, <1>5, <1>6, <1>10, <1>11, <1>12, <2>2 DEF AddedAs
<1>13. CASE name \notin ToSet(ns) /\ e.names = Append(ns, name)
  <2>1. /\ Len(ns) \in Nat /\ Len(e.names) = Len(ns) + 1 /\ DOMAIN ns = 1..Len(ns)
        /\ \A k \in 1..Len(ns) : e.names[k] = ns[k]
    BY <1>13, Appended, SeqFacts
  <2>2. i \notin 1..Len(ns)
    BY <1>5, <1>13, <2>1 DEF ToSet
  <2>3. i = Len(ns) + 1
    BY <1>2, <2>1, <2>2
  <2>4. e.rules[i] = NewOr
    BY <1>2, <2>2
  <2>5. r.rules[i].items = Append(<<>>, StaticEntry(node))
    BY <1>2, <1>8, <1>9, <2>4, NewIsRanged
  <2> QED BY <1>2, <1>5, <1>6, <1>10, <1>11, <1>13, <2>3, <2>5 DEF AddedAs
<1> QED BY <1>4, <1>12, <1>13 DEF AddedAs

\* A call for another name.
LEMMA OneOther ==
  ASSUME NEW name, NEW items, NEW n \in Nat, grammar[n + 1].name # name, Whole(name, items, n)
  PROVE  Whole(name, items, n + 1)
<1>1. 1..n \subseteq 1..(n + 1) /\ \A p \in 1..(n + 1) : p \in 1..n \/ p = n + 1
  OBVIOUS
<1> QED BY <1>1 DEF Whole

\* The grammar gives a name one more item.
LEMMA ItemGiven ==
  ASSUME NEW name, NEW items, AnySeq(items), NEW n \in Nat, NEW m, m = n + 1,
         grammar[m].name = name, Whole(name, items, n),
         NEW entry, entry = StaticEntry(grammar[m].node), NEW more, more = Append(items, entry)
  PROVE  Whole(name, more, m)
<1>1. /\ Len(items) \in Nat /\ Len(more) = Len(items) + 1
      /\ \A j \in 1..Len(items) : more[j] = items[j]
      /\ more[Len(items) + 1] = entry
  BY Appended
<1>2. entry.node = grammar[m].node
  BY DEF StaticEntry
<1>3. ASSUME NEW j \in 1..Len(more)
      PROVE  \E p \in 1..m :
               /\ grammar[p].name = name /\ grammar[p].node = more[j].node
               /\ \A q \in 1..(p - 1) : grammar[q].name = name =>
                    \E l \in 1..(j - 1) : more[l].node = grammar[q].node
  <2>1. CASE j \in 1..Len(items)
    <3>1. PICK p \in 1..n :
            /\ grammar[p].name = name /\ grammar[p].node = items[j].node
            /\ \A q \in 1..(p - 1) : grammar[q].name = name =>
                 \E l \in 1..(j - 1) : items[l].node = grammar[q].node
      BY <2>1 DEF Whole
    <3>2. p \in 1..m /\ \A l \in 1..(j - 1) : more[l] = items[l]
      BY <1>1, <2>1
    <3> QED BY <1>1, <2>1, <3>1, <3>2
  <2>2. CASE j = Len(items) + 1
    <3>1. \A q \in 1..n : grammar[q].name = name => \E l \in 1..Len(items) : items[l].node = grammar[q].node
      BY DEF Whole
    <3>2. m - 1 = n /\ j - 1 = Len(items) /\ m \in 1..m
      BY <1>1, <2>2
    <3> QED BY <1>1, <1>2, <2>2, <3>1, <3>2
  <2>3. j \in 1..Len(items) \/ j = Len(items) + 1
    BY <1>1
  <2> QED BY <2>1, <2>2, <2>3
<1>4. ASSUME NEW p \in 1..m, grammar[p].name = name
      PROVE  \E j \in 1..Len(more) : more[j].node = grammar[p].node
  <2>1. CASE p \in 1..n
    <3>1. PICK j \in 1..Len(items) : items[j].node = grammar[p].node
      BY <1>4, <2>1 DEF Whole
    <3>2. j \in 1..Len(more) /\ more[j] = items[j]
      BY <1>1
    <3> QED BY <3>1, <3>2
  <2>2. CASE p = m
    <3>1. Len(items) + 1 \in 1..Len(more)
      BY <1>1
    <3> QED BY <1>1, <1>2, <2>2, <3>1
  <2> QED BY <2>1, <2>2
<1> QED BY <1>3, <1>4 DEF Whole

LEMMA AddRuleNames ==
  ASSUME GrammarInv, FinInv, NamesInv, GrammarInv', FinInv', AddRule
  PROVE  NamesInv'
<1>1. /\ fin.pass = "add" /\ grammar' = grammar /\ DOMAIN fin.depths = {} /\ fin.toPrune = {}
      /\ fin.at <= Len(grammar) + 1 /\ FirstPass /\ Called = fin.at - 1
  BY DEF AddRule, NamesInv, AddOK, FirstPass, Called
<1>2. /\ AnySeq(names) /\ AnySeq(Root) /\ Len(Root) = Len(names) /\ Len(names) \in Nat
      /\ fin.at \in Nat \ {0} /\ FinOK /\ RuleList(Used, Root)
      /\ AnySeq(grammar) /\ Len(grammar) \in Nat /\ grammar \in Grammars
  BY Start, RootIsOK, GrammarIsSeq, SeqFacts DEF GrammarInv
<1>3. CASE fin.at > Len(grammar)
  <2>1. UNCHANGED <<names, scopes>> /\ fin' = [fin EXCEPT !.pass = "reach", !.at = 1]
    BY <1>3 DEF AddRule
  <2>2. /\ fin'.pass = "reach" /\ fin'.at = 1 /\ fin'.toPrune = {} /\ Root' = Root
    BY <1>1, <1>2, <2>1 DEF FinOK, Root
  <2>3. Called' = Called
    BY <1>1, <1>2, <1>3, <2>2 DEF Called
  <2>4. PrunesGiven'
    BY <2>2 DEF PrunesGiven
  <2> QED BY <1>1, <2>1, <2>2, <2>3, <2>4, NamesStay
<1>4. CASE ~ (fin.at > Len(grammar))
  <2>1. PICK p, name, node : p = fin.at /\ name = grammar[p].name /\ node = grammar[p].node
    OBVIOUS
  <2>2. p \in 1..Len(grammar) /\ p - 1 \in Nat /\ (p - 1) + 1 = p
    BY <1>2, <1>4, <2>1
  <2>3. grammar[p] = [name |-> name, node |-> node]
    <3>1. grammar \in Seq([name: Names, node: Nodes])
      BY <1>2, GrammarAssumption
    <3>2. PICK g, S : g = grammar /\ S = [name: Names, node: Nodes]
      OBVIOUS
    <3>3. g \in Seq(S) /\ p \in 1..Len(g)
      BY <2>2, <3>1, <3>2
    <3>4. g[p] \in S
      BY <3>3
    <3> QED BY <2>1, <3>2, <3>4
  <2>4. PICK r, s, call : /\ s = [names |-> names, rules |-> Root] /\ call = [name |-> name, node |-> node]
                          /\ r = AddedRule(s, call)
    OBVIOUS
  <2>5. names' = r.names /\ scopes' = <<r.rules>> /\ fin' = [fin EXCEPT !.at = @ + 1]
    BY <1>4, <2>1, <2>3, <2>4 DEF AddRule
  <2>6. /\ fin'.pass = "add" /\ fin'.at = p + 1 /\ fin'.toPrune = {} /\ DOMAIN fin'.depths = {}
        /\ Root' = r.rules
    BY <1>1, <1>2, <2>1, <2>5 DEF FinOK, Root
  <2>7. Called' = p /\ FirstPass'
    BY <2>2, <2>6 DEF Called, FirstPass
  <2>8. /\ \A k \in 1..Len(names) : Root[k].live /\ Whole(names[k], Root[k].items, p - 1)
        /\ \A k \in 1..Len(names) : names[k] \in Given /\ FirstOf(names[k]) < p
        /\ \A q \in 1..(p - 1) : grammar[q].name \in ToSet(names)
        /\ Distinct /\ InOrder
    BY <1>1, <2>1 DEF NamesInv, FirstOK, AddOK, CalledOK
  <2>9. PICK i \in 1..Len(r.names) :
           /\ r.names[i] = name /\ r.rules[i].live
           /\ \A k \in 1..Len(r.names) : k # i => k \in 1..Len(names) /\ r.rules[k] = Root[k]
           /\ \/ /\ name \notin ToSet(names) /\ r.names = Append(names, name) /\ i = Len(names) + 1
                 /\ r.rules[i].items = Append(<<>>, StaticEntry(node))
              \/ /\ name \in ToSet(names) /\ r.names = names
                 /\ r.rules[i].items = Append(Root[i].items, StaticEntry(node))
    <3>1. \A k \in 1..Len(Root) : Root[k].live
      BY <1>2, <2>8
    <3>2. PICK rs, U, ns : rs = Root /\ U = Used /\ ns = names
      OBVIOUS
    <3>3. /\ AnySeq(ns) /\ AnySeq(rs) /\ Len(rs) = Len(ns) /\ RuleList(U, rs)
          /\ \A k \in 1..Len(rs) : rs[k].live
          /\ s = [names |-> ns, rules |-> rs]
      BY <1>2, <2>4, <3>1, <3>2
    <3>4. AddedAs(ns, rs, r, name, node)
      BY <2>4, <3>3, AddedRuleIs
    <3> QED BY <3>2, <3>4 DEF AddedAs
  <2>10. name \in Given /\ FirstOf(name) \in 1..Len(grammar) /\ FirstOf(name) <= p
         /\ grammar[FirstOf(name)].name = name
    BY <1>2, <2>1, <2>2, FirstIs
  <2>11. \A k \in 1..Len(r.names) : k # i => r.names[k] = names[k] /\ r.names[k] # name
    <3>1. CASE r.names = Append(names, name) /\ name \notin ToSet(names)
      <4>1. \A k \in 1..Len(names) : r.names[k] = names[k]
        BY <1>2, <3>1, Appended
      <4> QED BY <1>2, <2>9, <3>1, <4>1, NamesSet
    <3>2. CASE r.names = names
      BY <2>8, <2>9, <3>2 DEF Distinct
    <3> QED BY <2>9, <3>1, <3>2
  <2>12. ToSet(names) \cup {name} \subseteq ToSet(names') /\ AnySeq(names')
    <3>1. AnySeq(names')
      BY DEF GrammarInv
    <3>2. \A k \in 1..Len(names) : names[k] \in ToSet(names')
      <4>1. ToSet(names') = {names'[k] : k \in 1..Len(names')}
        BY <3>1, NamesSet
      <4>2. \A k \in 1..Len(names) : k \in 1..Len(names') /\ names'[k] = names[k]
        BY <1>2, <2>5, <2>9, Appended
      <4> QED BY <4>1, <4>2
    <3>3. name \in ToSet(names')
      BY <2>5, <2>9, <3>1, NamesSet
    <3> QED BY <1>2, <3>1, <3>2, <3>3, NamesSet
  <2>13. Given' = Given /\ (\A z : FirstOf(z)' = FirstOf(z))
         /\ \A z, items, n : Whole(z, items, n)' <=> Whole(z, items, n)
    BY <1>1 DEF Given, FirstOf, Whole
  <2>14. ASSUME NEW k \in 1..Len(r.names)
         PROVE  r.names[k] \in Given /\ FirstOf(r.names[k]) < p + 1
    <3>1. CASE k = i
      BY <2>2, <2>9, <2>10, <3>1
    <3>2. CASE k # i
      <4>1. FirstOf(r.names[k]) < p /\ r.names[k] \in Given
        BY <2>8, <2>9, <2>11, <3>2
      <4>2. FirstOf(r.names[k]) \in Nat
        <5>1. PICK q \in 1..Len(grammar) : grammar[q].name = r.names[k]
          BY <1>2, <4>1, GivenAre
        <5> QED BY <1>2, <5>1, FirstIs
      <4> QED BY <2>2, <4>1, <4>2
    <3> QED BY <3>1, <3>2
  <2>15. AddOK'
    BY <1>1, <1>2, <2>2, <2>5, <2>6, <2>13, <2>14 DEF AddOK
  <2>16. Distinct'
    BY <2>5, <2>8, <2>9, <2>11 DEF Distinct
  <2>17. CalledOK'
    <3>1. \A q \in 1..p : q \in 1..(p - 1) \/ q = p
      BY <2>2
    <3> QED BY <1>1, <2>1, <2>7, <2>8, <2>12, <3>1 DEF CalledOK
  <2>18. OwnNames'
    BY <2>5, <2>13, <2>14 DEF OwnNames
  <2>19. ASSUME name \notin ToSet(names)
         PROVE  FirstOf(name) = p
    <3>1. \A q \in 1..(p - 1) : grammar[q].name # name
      BY <2>8, <2>19
    <3> QED BY <2>2, <2>10, <3>1
  <2>20. InOrder'
    <3> SUFFICES ASSUME NEW k \in 1..Len(r.names), NEW l \in 1..Len(r.names),
                        FirstOf(r.names[k]) < FirstOf(r.names[l])
                 PROVE  k < l
      BY <2>5, <2>13 DEF InOrder
    <3>1. CASE r.names = names
      BY <2>14, <2>8, <3>1 DEF InOrder
    <3>2. CASE name \notin ToSet(names) /\ i = Len(names) + 1
      <4>1. k \in 1..Len(names) \/ k = i
        BY <2>9
      <4>2. l \in 1..Len(names) \/ l = i
        BY <2>9
      <4>3. CASE k \in 1..Len(names) /\ l \in 1..Len(names)
        <5>1. k # i /\ l # i
          BY <1>2, <3>2, <4>3
        <5>2. r.names[k] = names[k] /\ r.names[l] = names[l]
          BY <2>11, <5>1
        <5> QED BY <2>8, <4>3, <5>2 DEF InOrder
      <4>4. CASE k \in 1..Len(names) /\ l = i
        BY <1>2, <3>2, <4>4
      <4>5. CASE k = i
        <5>1. FirstOf(r.names[k]) = p
          BY <2>9, <2>19, <3>2, <4>5
        <5>2. FirstOf(r.names[l]) < p + 1 /\ FirstOf(r.names[l]) \in Nat
          <6>1. PICK q \in 1..Len(grammar) : grammar[q].name = r.names[l]
            BY <1>2, <2>14, GivenAre
          <6> QED BY <1>2, <2>14, <6>1, FirstIs
        <5> QED BY <2>2, <5>1, <5>2
      <4> QED BY <4>1, <4>2, <4>3, <4>4, <4>5
    <3> QED BY <2>9, <3>1, <3>2
  <2>21. ASSUME NEW k \in 1..Len(r.names)
         PROVE  r.rules[k].live /\ Whole(r.names[k], r.rules[k].items, p)
    <3>1. CASE k # i
      <4>1. PICK z, items, n : z = names[k] /\ items = Root[k].items /\ n = p - 1
        OBVIOUS
      <4>2. Whole(z, items, n) /\ n \in Nat /\ n + 1 = p /\ grammar[n + 1].name # z
        BY <2>1, <2>2, <2>8, <2>9, <2>11, <3>1, <4>1
      <4>3. Whole(z, items, n + 1)
        BY <4>2, OneOther
      <4> QED BY <2>8, <2>9, <2>11, <3>1, <4>1, <4>2, <4>3
    <3>2. CASE k = i
      <4>1. PICK items : /\ AnySeq(items) /\ Whole(name, items, p - 1)
                         /\ r.rules[i].items = Append(items, StaticEntry(node))
        <5>1. CASE name \notin ToSet(names) /\ r.rules[i].items = Append(<<>>, StaticEntry(node))
          <6>1. \A q \in 1..(p - 1) : grammar[q].name # name
            BY <2>8, <5>1
          <6>2. Whole(name, <<>>, p - 1)
            BY <6>1 DEF Whole
          <6>3. AnySeq(<<>>)
            BY NoItems
          <6> QED BY <5>1, <6>2, <6>3
        <5>2. CASE r.names = names /\ r.rules[i].items = Append(Root[i].items, StaticEntry(node))
          <6>1. RuleOK(Used, Root[i])
            BY <1>2, <2>9, <5>2 DEF RuleList
          <6>2. AnySeq(Root[i].items)
            BY <6>1 DEF RuleOK, AnySeq
          <6>3. Whole(name, Root[i].items, p - 1)
            BY <2>8, <2>9, <5>2
          <6> QED BY <5>2, <6>2, <6>3
        <5> QED BY <2>9, <5>1, <5>2
      <4>2. PICK n, more, entry : n = p - 1 /\ more = r.rules[i].items /\ entry = StaticEntry(grammar[p].node)
        OBVIOUS
      <4>3. /\ n \in Nat /\ p = n + 1 /\ grammar[p].name = name /\ Whole(name, items, n)
            /\ more = Append(items, entry)
        BY <2>1, <2>2, <4>1, <4>2
      <4>4. Whole(name, more, p)
        BY <4>1, <4>2, <4>3, ItemGiven
      <4> QED BY <2>9, <3>2, <4>2, <4>4
    <3> QED BY <3>1, <3>2
  <2>22. FirstOK' /\ RulesAre'
    BY <2>5, <2>6, <2>7, <2>13, <2>21 DEF FirstOK, RulesAre
  <2>23. PrunesGiven'
    BY <2>6 DEF PrunesGiven
  <2> QED BY <2>15, <2>16, <2>17, <2>18, <2>20, <2>22, <2>23 DEF NamesInv
<1> QED BY <1>3, <1>4

-----------------------------------------------------------------------------
(* What the steps of the two calculators do.                               *)

\* The end of the turn of rule i, with the call that was about it.
RuleEnded(i, call) ==
  /\ fin.pass = "reach" /\ i = fin.at /\ i \in 1..Len(Root) /\ Root[i].live
  /\ call = visits[1] /\ CallOK(call) /\ call.node = NoNode /\ call.at = Len(Root[i].items) + 1
  /\ visits # <<>> /\ Len(visits) = 1
  /\ fin'.pass = "reach" /\ fin'.at = i + 1 /\ fin'.pruned = fin.pruned /\ fin'.changes = fin.changes
  /\ fin'.changed = fin.changed /\ fin'.depths = fin.depths
  /\ fin'.toPrune = IF Root[i].keep \/ call.choice # <<>> THEN fin.toPrune ELSE fin.toPrune \cup {i}
  /\ visits' = <<>> /\ UNCHANGED <<grammar, names, inline, index>>
  /\ Len(Root') = Len(Root)
  /\ \A k \in 1..Len(Root) :
       /\ Root'[k].live = Root[k].live /\ Root'[k].keep = Root[k].keep
       /\ Root'[k].items = Root[k].items /\ Root'[k].shortest = Root[k].shortest
       /\ Root'[k].choice = IF k = i THEN call.choice ELSE Root[k].choice

LEMMA RuleEndIs ==
  ASSUME GrammarInv, FinInv, ReachRuleEnd
  PROVE  \E i, call : RuleEnded(i, call)
<1> DEFINE i == fin.at
           call == Head(visits)
           x == [Root[i] EXCEPT !.choice = call.choice]
           toPrune == IF Root[i].keep \/ call.choice # <<>> THEN fin.toPrune ELSE fin.toPrune \cup {i}
<1>1. /\ visits # <<>> /\ Visited(call) /\ call.node = NoNode
      /\ scopes' = <<[Root EXCEPT ![i].choice = call.choice]>>
      /\ fin' = [fin EXCEPT !.at = @ + 1, !.toPrune = toPrune]
      /\ visits' = <<>> /\ UNCHANGED <<grammar, names, inline, index>>
  BY DEF ReachRuleEnd
<1>2. fin.pass = "reach" /\ i \in 1..Len(Root) /\ Root[i].live
  BY <1>1 DEF FinInv, VisitsOK
<1>3. CallOK(call) /\ call = visits[1] /\ Len(visits) = 1
  <2>1. AnySeq(visits) /\ Len(visits) \in Nat \ {0} /\ call = visits[1]
    BY <1>1, TopCall
  <2>2. 1 \in 1..Len(visits)
    BY <2>1
  <2>3. CallOK(visits[1]) /\ (visits[1].node = NoNode <=> 1 = Len(visits))
    BY <2>1, <2>2 DEF FinInv, VisitsOK
  <2> QED BY <1>1, <2>1, <2>3
<1> HIDE DEF call
<1>4. /\ Len(VisitItems(call)) \in Nat /\ Len(VisitItems(call)) = Len(Root[i].items)
  BY <1>1, <1>2, VisitItemsAre DEF FinInv
<1>5. call.at = Len(Root[i].items) + 1
  <2>1. CallOK(call)
    BY <1>3
  <2>2. call.at > Len(VisitItems(call)) /\ call.at \in 1..(Len(VisitItems(call)) + 1)
    BY <1>1, <2>1 DEF Visited, Stops, CallOK
  <2> QED BY <1>4, <2>2
<1>6. /\ x.live = Root[i].live /\ x.keep = Root[i].keep /\ x.items = Root[i].items
      /\ x.choice = call.choice /\ x.shortest = Root[i].shortest
  <2>1. RuleOK(Used, Root[i])
    BY <1>2, Start
  <2> QED BY <2>1 DEF RuleOK
<1>7. scopes' = <<[Root EXCEPT ![i] = x]>>
  BY <1>1
<1> HIDE DEF x
<1>8. /\ Len(Root) \in Nat /\ Len(Root') = Len(Root)
      /\ \A k \in 1..Len(Root) : Root'[k] = IF k = i THEN x ELSE Root[k]
  BY <1>2, <1>7, Start, RootReplaced
<1>9. /\ fin'.pass = "reach" /\ fin'.at = i + 1 /\ fin'.pruned = fin.pruned
      /\ fin'.toPrune = toPrune /\ fin'.changes = fin.changes
      /\ fin'.changed = fin.changed /\ fin'.depths = fin.depths
  <2> HIDE DEF toPrune
  <2> QED BY <1>1, <1>2, Start DEF FinOK
<1>10. RuleEnded(i, call)
  BY <1>1, <1>2, <1>3, <1>5, <1>6, <1>8, <1>9 DEF RuleEnded
<1> QED BY <1>10

\* The depth of rule i in the round so far.
RoundDepth(i) ==
  IF Root[i].keep THEN 0
  ELSE MinIn({Inf} \cup {CalcRefDepth(RootItems(i)[j], View) : j \in ToSet(Root[i].choice)})
RoundShortest(i) ==
  IF Root[i].keep THEN Root[i].shortest ELSE ShortestOf(Root[i].choice, RootItems(i), View)

\* One live rule of a round.
DepthTurn(i, depth, shortest, changed, prune) ==
  /\ fin.pass = "depth" /\ i = fin.at /\ i \in 1..Len(Root) /\ Root[i].live
  /\ depth = RoundDepth(i) /\ shortest = RoundShortest(i)
  /\ changed = (fin.changed \/ fin.depths[i] # depth \/ Len(Root[i].shortest) # Len(shortest))
  /\ prune = (~changed /\ depth = Inf /\ ~Root[i].keep)
  /\ fin'.pass = "depth" /\ fin'.at = i + 1 /\ fin'.pruned = fin.pruned
  /\ fin'.changes = (fin.changes \/ prune) /\ fin'.changed = changed
  /\ fin'.toPrune = (IF prune THEN fin.toPrune \cup {i} ELSE fin.toPrune)
  /\ fin'.depths = [fin.depths EXCEPT ![i] = depth]
  /\ UNCHANGED <<grammar, names, index, visits>>
  /\ \A n \in OrNodes : inline'[n].choice = inline[n].choice
  /\ Len(Root') = Len(Root)
  /\ \A k \in 1..Len(Root) :
       /\ Root'[k].live = Root[k].live /\ Root'[k].keep = Root[k].keep
       /\ Root'[k].items = Root[k].items /\ Root'[k].choice = Root[k].choice
       /\ Root'[k].shortest = IF k = i THEN shortest ELSE Root[k].shortest

LEMMA DepthRuleIs ==
  ASSUME GrammarInv, FinInv, at = "finalize", DepthRule, Root[fin.at].live
  PROVE  \E i, depth, shortest, changed, prune : DepthTurn(i, depth, shortest, changed, prune)
<1> DEFINE i == fin.at
           or == Root[i]
           kids == RootItems(i)
           shortest == IF or.keep THEN or.shortest ELSE ShortestOf(or.choice, kids, View)
           depth == IF or.keep THEN 0
                    ELSE MinIn({Inf} \cup {CalcRefDepth(kids[j], View) : j \in ToSet(or.choice)})
           deep == IF or.keep THEN {}
                   ELSE UNION {DepthVisits(kids[j], View) : j \in ToSet(or.choice)}
           changed == fin.changed \/ fin.depths[i] # depth \/ Len(or.shortest) # Len(shortest)
           prune == ~changed /\ depth = Inf /\ ~or.keep
           changes == fin.changes \/ prune
           toPrune == IF prune THEN fin.toPrune \cup {i} ELSE fin.toPrune
           x == [or EXCEPT !.shortest = shortest]
<1>1. /\ fin.pass = "depth" /\ fin.at <= Len(Root)
      /\ UNCHANGED <<grammar, names, index, visits>>
  BY DEF DepthRule
<1>2. i \in 1..Len(Root)
  BY <1>1, Start
<1>3. /\ scopes' = [scopes EXCEPT ![1][i].shortest = shortest]
      /\ inline' = [n \in OrNodes |->
                      IF n \in deep
                      THEN [inline[n] EXCEPT !.shortest =
                              ShortestOf(inline[n].choice, Item[n].kids, View)]
                      ELSE inline[n]]
      /\ fin' = [fin EXCEPT !.at = @ + 1, !.depths[i] = depth, !.changed = changed,
                            !.changes = changes, !.toPrune = toPrune]
  BY DEF DepthRule
<1>4. depth = RoundDepth(i) /\ shortest = RoundShortest(i)
  BY DEF RoundDepth, RoundShortest
<1> HIDE DEF depth, deep
<1>5. PICK cd, pr, cs, tp, ds : /\ cd = changed /\ pr = prune /\ cs = changes /\ tp = toPrune
                                /\ ds = [fin.depths EXCEPT ![i] = depth]
  OBVIOUS
<1>6. /\ fin'.pass = "depth" /\ fin'.changes = cs /\ fin'.pruned = fin.pruned
      /\ fin'.toPrune = tp /\ fin'.at = i + 1 /\ fin'.changed = cd /\ fin'.depths = ds
  <2>1. fin' = [fin EXCEPT !.at = @ + 1, !.depths = ds, !.changed = cd, !.changes = cs, !.toPrune = tp]
    <3> HIDE DEF changed, changes, toPrune
    <3> QED BY <1>3, <1>5
  <2> HIDE DEF changed, prune, changes, toPrune
  <2> QED BY <1>1, <2>1, Start DEF FinOK
<1>7. RuleOK(Used, or)
  BY <1>2, Start
<1>8. scopes' = <<[Root EXCEPT ![i] = x]>>
  <2> DEFINE rs == [Root EXCEPT ![i] = x]
  <2> HIDE DEF shortest
  <2>1. scopes' = [scopes EXCEPT ![1] = rs]
    BY <1>3 DEF Root
  <2> HIDE DEF rs
  <2>2. AnySeq(scopes) /\ Len(scopes) = 1
    BY DEF GrammarInv, ScopesOK
  <2>3. [scopes EXCEPT ![1] = rs] = <<rs>>
    BY <2>2, ReplacedOnly
  <2> QED BY <2>1, <2>3 DEF rs
<1>9. PICK sh : sh = shortest
  OBVIOUS
<1>10. /\ x.live = or.live /\ x.keep = or.keep /\ x.items = or.items /\ x.choice = or.choice
       /\ x.shortest = sh
  <2> HIDE DEF shortest
  <2> QED BY <1>7, <1>9 DEF RuleOK
<1> HIDE DEF x
<1>11. /\ Len(Root) \in Nat /\ Len(Root') = Len(Root)
       /\ \A k \in 1..Len(Root) : Root'[k] = IF k = i THEN x ELSE Root[k]
  BY <1>2, <1>8, Start, RootReplaced
<1>12. ASSUME NEW n \in OrNodes
       PROVE  inline'[n].choice = inline[n].choice
  <2> DEFINE s == ShortestOf(inline[n].choice, Item[n].kids, View)
  <2>1. inline[n] = [choice |-> inline[n].choice, shortest |-> inline[n].shortest]
    BY DEF FinInv, InlineOK
  <2>2. inline'[n] = IF n \in deep THEN [inline[n] EXCEPT !.shortest = s] ELSE inline[n]
    BY <1>3
  <2> HIDE DEF s
  <2> QED BY <2>1, <2>2
<1>13. DepthTurn(i, depth, sh, cd, pr)
  <2>1. cd = (fin.changed \/ fin.depths[i] # depth \/ Len(or.shortest) # Len(sh))
    <3> HIDE DEF shortest
    <3> QED BY <1>5, <1>9 DEF changed
  <2>2. pr = (~cd /\ depth = Inf /\ ~or.keep)
    <3> HIDE DEF changed
    <3> QED BY <1>5 DEF prune
  <2>3. cs = (fin.changes \/ pr) /\ tp = IF pr THEN fin.toPrune \cup {i} ELSE fin.toPrune
    <3> HIDE DEF prune
    <3> QED BY <1>5 DEF changes, toPrune
  <2> HIDE DEF shortest, changed, prune, changes, toPrune
  <2>4. sh = RoundShortest(i) /\ or.live
    BY <1>4, <1>9
  <2>5. \A k \in 1..Len(Root) :
          /\ Root'[k].live = Root[k].live /\ Root'[k].keep = Root[k].keep
          /\ Root'[k].items = Root[k].items /\ Root'[k].choice = Root[k].choice
          /\ Root'[k].shortest = IF k = i THEN sh ELSE Root[k].shortest
    BY <1>10, <1>11
  <2> QED BY <1>1, <1>2, <1>4, <1>5, <1>6, <1>11, <1>12, <2>1, <2>2, <2>3, <2>4, <2>5 DEF DepthTurn
<1> QED BY <1>13

\* The rule i for the values of n is there from now on: names ns and rules rs become ns2 and rs2.
Introduced(ns, rs, name, ns2, rs2, i) ==
  /\ AnySeq(ns2) /\ Len(rs2) = Len(ns2) /\ i \in 1..Len(ns2) /\ ns2[i] = name
  /\ rs2[i].live /\ rs2[i].keep
  /\ \A k \in 1..Len(ns2) : k # i => k \in 1..Len(ns) /\ rs2[k] = rs[k] /\ ns2[k] = ns[k]
  /\ IF i \in 1..Len(ns) /\ rs[i].live
     THEN rs2[i].items = rs[i].items /\ rs2[i].choice = rs[i].choice /\ rs2[i].shortest = rs[i].shortest
     ELSE rs2[i].items = <<>> /\ rs2[i].choice = <<>>
  /\ \/ ns2 = ns /\ name \in ToSet(ns) /\ Len(rs2) = Len(rs)
     \/ ns2 = Append(ns, name) /\ name \notin ToSet(ns) /\ i = Len(ns) + 1 /\ Len(ns2) = Len(ns) + 1
AdderTurn(n, i) == Item[n].kind \in Adders /\ Introduced(names, Root, Item[n].name, names', Root', i)

\* The call of CalcReachability for n begins.
ItemTurn(call, n) ==
  /\ visits # <<>> /\ Len(visits) \in Nat \ {0} /\ call = visits[1] /\ ~Visited(call) /\ CallOK(call)
  /\ call.at \in 1..Len(VisitItems(call)) /\ n = VisitItems(call)[call.at] /\ n \in Used /\ n \in Nodes
  /\ fin.pass = "reach" /\ fin.at \in 1..Len(Root) /\ Root[fin.at].live
  /\ Len(visits') = Len(visits) + 1 /\ visits'[1] = Visit(n)
  /\ \A k \in 1..Len(visits) : visits'[k + 1] = visits[k]
  /\ fin'.pass = "reach" /\ fin'.at = fin.at /\ fin'.pruned = fin.pruned /\ fin'.toPrune = fin.toPrune
  /\ fin'.changed = fin.changed /\ fin'.depths = fin.depths
  /\ UNCHANGED <<grammar, inline>>
  /\ \/ Item[n].kind \notin Adders /\ UNCHANGED <<names, scopes>>
     \/ \E i : AdderTurn(n, i)

\* The rule that Ensure sees to, on values of the two lists.
LEMMA EnsuredIs ==
  ASSUME NEW ns, AnySeq(ns), NEW rs, AnySeq(rs), Len(rs) = Len(ns), NEW U, RuleList(U, rs), NEW name,
         NEW s, s = [names |-> ns, rules |-> rs], NEW e, e = Ensured(s, name),
         NEW i, i = IndexOf(e.names, name), NEW rules, rules = [e.rules EXCEPT ![i].keep = TRUE]
  PROVE  Introduced(ns, rs, name, e.names, rules, i)
<1>1. e = Ensured([names |-> ns, rules |-> rs], name)
  OBVIOUS
<1>2. /\ AnySeq(e.names) /\ AnySeq(e.rules) /\ Len(e.rules) = Len(e.names) /\ Len(e.rules) \in Nat
      /\ Len(rs) <= Len(e.rules)
  BY <1>1, LiveRule
<1>3. i \in 1..Len(e.rules) /\ e.rules[i].live
  BY <1>1, LiveRuleIsThere
<1>4. ToSet(ns) \cup {name} \subseteq ToSet(e.names)
  BY <1>1, LiveRuleIsNamed
<1>5. \A k \in 1..Len(e.rules) :
        \/ k \in 1..Len(rs) /\ e.rules[k] = rs[k]
        \/ k = i /\ e.rules[k] = NewOr /\ (k \in 1..Len(rs) => ~rs[k].live)
  BY <1>1, LiveRuleIsAlone
<1>6. \/ name \in ToSet(ns) /\ e.names = ns
      \/ name \notin ToSet(ns) /\ e.names = Append(ns, name)
  BY <1>1, EnsuredNames
<1>7. e.names[i] = name
  <2>1. name \in ToSet(e.names)
    BY <1>4
  <2> QED BY <1>2, <2>1, IndexNamed
<1> DEFINE x == [e.rules[i] EXCEPT !.keep = TRUE]
<1>8. /\ Len(rules) = Len(e.rules)
      /\ \A k \in 1..Len(e.rules) : rules[k] = IF k = i THEN x ELSE e.rules[k]
  <2>1. rules = [e.rules EXCEPT ![i] = x]
    OBVIOUS
  <2> HIDE DEF x
  <2>2. PICK S : e.rules \in Seq(S)
    BY <1>2 DEF AnySeq
  <2> QED BY <2>1, <2>2
<1>9. RuleOK(U, e.rules[i])
  <2>1. RuleOK(U, NewOr)
    BY NewRules
  <2> QED BY <1>3, <1>5, <2>1 DEF RuleList
<1>10. /\ x.live = e.rules[i].live /\ x.keep = TRUE /\ x.items = e.rules[i].items
       /\ x.choice = e.rules[i].choice /\ x.shortest = e.rules[i].shortest
  BY <1>9 DEF RuleOK
<1> HIDE DEF x
<1>11. rules[i] = x
  BY <1>3, <1>8
<1>12. Len(ns) \in Nat /\ DOMAIN ns = 1..Len(ns)
  BY SeqFacts
<1>13. NewOr.items = <<>> /\ NewOr.choice = <<>>
  BY DEF NewOr, Or
<1>14. CASE name \in ToSet(ns) /\ e.names = ns
  BY <1>2, <1>3, <1>5, <1>7, <1>8, <1>10, <1>11, <1>13, <1>14 DEF Introduced
<1>15. CASE name \notin ToSet(ns) /\ e.names = Append(ns, name)
  <2>1. Len(e.names) = Len(ns) + 1 /\ \A k \in 1..Len(ns) : e.names[k] = ns[k]
    BY <1>15, Appended
  <2>2. i \notin 1..Len(ns)
    BY <1>7, <1>12, <1>15, <2>1 DEF ToSet
  <2>3. i = Len(ns) + 1
    BY <1>2, <1>3, <1>12, <2>1, <2>2
  <2>4. x.items = <<>> /\ x.choice = <<>>
    BY <1>3, <1>5, <1>10, <1>13, <2>2
  <2>5. \A k \in 1..Len(e.names) : k # i => k \in 1..Len(ns) /\ rules[k] = rs[k] /\ e.names[k] = ns[k]
    BY <1>2, <1>5, <1>8, <1>12, <2>1, <2>3
  <2> QED BY <1>2, <1>3, <1>7, <1>8, <1>10, <1>11, <1>15, <2>1, <2>2, <2>3, <2>4, <2>5 DEF Introduced
<1> QED BY <1>6, <1>14, <1>15

LEMMA ReachItemIs ==
  ASSUME GrammarInv, FinInv, ReachItem
  PROVE  \E call, n : ItemTurn(call, n)
<1>1. PICK call, n, e, i, rules :
        /\ call = Head(visits) /\ n = VisitItems(call)[call.at]
        /\ e = Ensured([names |-> names, rules |-> Root], Item[n].name)
        /\ i = IndexOf(e.names, Item[n].name) /\ rules = [e.rules EXCEPT ![i].keep = TRUE]
  OBVIOUS
<1>2. /\ visits # <<>> /\ ~Visited(call) /\ visits' = <<Visit(n)>> \o visits
      /\ UNCHANGED <<grammar, inline>>
      /\ IF Item[n].kind \in Adders
         THEN /\ names' = e.names /\ scopes' = <<rules>>
              /\ fin' = [fin EXCEPT !.changes = @ \/ e.names # names]
         ELSE UNCHANGED <<names, scopes, fin>>
  BY <1>1 DEF ReachItem, Adders
<1>3. /\ AnySeq(visits) /\ Len(visits) \in Nat \ {0} /\ call = visits[1] /\ 1 \in 1..Len(visits)
      /\ fin.pass = "reach" /\ fin.at \in 1..Len(Root) /\ Root[fin.at].live
      /\ CallOK(call) /\ VisitItems(call) \in Seq(Used) /\ Len(VisitItems(call)) \in Nat
  <2>1. /\ AnySeq(visits) /\ Len(visits) \in Nat \ {0} /\ call = visits[1]
        /\ fin.pass = "reach" /\ fin.at \in 1..Len(Root) /\ Root[fin.at].live
    BY <1>1, <1>2, TopCall
  <2>2. 1 \in 1..Len(visits)
    BY <2>1
  <2>3. /\ CallOK(visits[1]) /\ VisitItems(visits[1]) \in Seq(Used)
        /\ Len(VisitItems(visits[1])) \in Nat
    BY <1>2, <2>2, TopCall
  <2> QED BY <2>1, <2>2, <2>3
<1>4. call.at \in 1..Len(VisitItems(call)) /\ n \in Used /\ n \in Nodes /\ n # NoNode
  <2>1. call.at \in 1..Len(VisitItems(call))
    BY <1>2, <1>3 DEF Visited, CallOK
  <2>2. PICK kids, U, j : kids = VisitItems(call) /\ U = Used /\ j = call.at
    OBVIOUS
  <2>3. kids \in Seq(U) /\ j \in 1..Len(kids)
    BY <1>3, <2>1, <2>2
  <2>4. kids[j] \in U
    BY <2>3
  <2>5. n \in Used
    BY <1>1, <2>2, <2>4
  <2> QED BY <2>1, <2>5, Start
<1>5. /\ Len(visits') = Len(visits) + 1 /\ visits'[1] = Visit(n)
      /\ \A k \in 1..Len(visits) : visits'[k + 1] = visits[k]
  BY <1>2, <1>3, Prefixed
<1>6. /\ fin'.pass = "reach" /\ fin'.at = fin.at /\ fin'.pruned = fin.pruned /\ fin'.toPrune = fin.toPrune
      /\ fin'.changed = fin.changed /\ fin'.depths = fin.depths
  <2>1. PICK cs : cs = (fin.changes \/ e.names # names)
    OBVIOUS
  <2>2. fin' = [fin EXCEPT !.changes = cs] \/ fin' = fin
    BY <1>2, <2>1
  <2> QED BY <1>3, <2>2, Start DEF FinOK
<1>7. CASE Item[n].kind \in Adders
  <2>1. PICK ns, rs, U, s, name : /\ ns = names /\ rs = Root /\ U = Used /\ name = Item[n].name
                                  /\ s = [names |-> ns, rules |-> rs]
    OBVIOUS
  <2>2. AnySeq(ns) /\ AnySeq(rs) /\ Len(rs) = Len(ns) /\ RuleList(U, rs)
    BY <2>1, Start, RootIsOK
  <2>3. /\ s = [names |-> ns, rules |-> rs] /\ e = Ensured(s, name) /\ i = IndexOf(e.names, name)
        /\ rules = [e.rules EXCEPT ![i].keep = TRUE]
    BY <1>1, <2>1
  <2>4. Introduced(ns, rs, name, e.names, rules, i)
    BY <2>2, <2>3, EnsuredIs
  <2>5. names' = e.names /\ Root' = rules
    BY <1>2, <1>7 DEF Root
  <2>6. AdderTurn(n, i)
    BY <1>7, <2>1, <2>4, <2>5 DEF AdderTurn
  <2> QED BY <1>1, <1>2, <1>3, <1>4, <1>5, <1>6, <2>6 DEF ItemTurn
<1>8. CASE Item[n].kind \notin Adders
  BY <1>1, <1>2, <1>3, <1>4, <1>5, <1>6, <1>8 DEF ItemTurn
<1> QED BY <1>7, <1>8

\* The call about n returns to outer.
ReturnTurn(call, outer, n) ==
  /\ visits # <<>> /\ Len(visits) \in Nat /\ Len(visits) >= 2 /\ call = visits[1] /\ outer = visits[2]
  /\ n = call.node /\ n \in Used /\ n \in Nodes /\ n # NoNode /\ Visited(call)
  /\ CallOK(call) /\ CallOK(outer) /\ VisitItems(call) = Item[n].kids
  /\ outer.at \in 1..Len(VisitItems(outer)) /\ n = VisitItems(outer)[outer.at]
  /\ fin.pass = "reach" /\ fin.at \in 1..Len(Root) /\ Root[fin.at].live
  /\ Len(visits') = Len(visits) - 1
  /\ visits'[1].node = outer.node /\ visits'[1].at = outer.at + 1
  /\ visits'[1].choice = IF Verdict(call) THEN Append(outer.choice, outer.at) ELSE outer.choice
  /\ \A k \in 2..(Len(visits) - 1) : visits'[k] = visits[k + 1]
  /\ \A m \in OrNodes : inline'[m].choice = IF m = n THEN call.choice ELSE inline[m].choice
  /\ UNCHANGED <<grammar, names, scopes, fin>>

LEMMA ReachReturnIs ==
  ASSUME GrammarInv, FinInv, ReachReturn
  PROVE  \E call, outer, n : ReturnTurn(call, outer, n)
<1>1. PICK call, outer, n, x :
        /\ call = Head(visits) /\ outer = Head(Tail(visits)) /\ n = call.node
        /\ x = [outer EXCEPT !.at = @ + 1,
                             !.choice = IF Verdict(call) THEN Append(@, outer.at) ELSE @]
  OBVIOUS
<1>2. /\ visits # <<>> /\ Visited(call) /\ n # NoNode
      /\ visits' = <<x>> \o Tail(Tail(visits))
      /\ inline' = (IF Item[n].kind = "or" THEN [inline EXCEPT ![n].choice = call.choice] ELSE inline)
      /\ UNCHANGED <<grammar, names, scopes, fin>>
  BY <1>1 DEF ReachReturn
<1>3. /\ Len(visits) \in Nat /\ Len(visits) >= 2 /\ call = visits[1] /\ outer = visits[2]
      /\ outer.at \in 1..Len(VisitItems(outer)) /\ n = VisitItems(outer)[outer.at]
  BY <1>1, <1>2, ReturningCall
<1>4. /\ AnySeq(visits) /\ fin.pass = "reach" /\ fin.at \in 1..Len(Root) /\ Root[fin.at].live
      /\ CallOK(call) /\ CallOK(outer)
  <2>1. 1 \in 1..Len(visits) /\ 2 \in 1..Len(visits)
    BY <1>3
  <2> QED BY <1>2, <1>3, <2>1, TopCall
<1>5. n \in Used /\ n \in Nodes /\ VisitItems(call) = Item[n].kids
  <2>1. n \in Used
    BY <1>1, <1>2, <1>4 DEF CallOK
  <2> QED BY <1>1, <1>2, <2>1, Start DEF VisitItems
<1>6. /\ Len(visits') = Len(visits) - 1 /\ visits'[1] = x
      /\ \A k \in 2..(Len(visits) - 1) : visits'[k] = visits[k + 1]
  <2>1. PICK w, w2 : w = visits /\ w2 = <<x>> \o Tail(Tail(w))
    OBVIOUS
  <2>2. AnySeq(w) /\ Len(w) >= 2
    BY <1>3, <1>4, <2>1
  <2>3. Len(w2) = Len(w) - 1 /\ w2[1] = x /\ \A k \in 2..(Len(w) - 1) : w2[k] = w[k + 1]
    BY <2>1, <2>2, CallReturned
  <2>4. visits' = w2
    BY <1>2, <2>1
  <2> QED BY <2>1, <2>3, <2>4
<1>7. /\ x.node = outer.node /\ x.at = outer.at + 1
      /\ x.choice = IF Verdict(call) THEN Append(outer.choice, outer.at) ELSE outer.choice
  <2>1. outer = [node |-> outer.node, at |-> outer.at, choice |-> outer.choice]
    BY <1>4 DEF CallOK
  <2>2. PICK v : v = Verdict(call)
    OBVIOUS
  <2>3. x = [outer EXCEPT !.at = @ + 1, !.choice = IF v THEN Append(@, outer.at) ELSE @]
    BY <1>1, <2>2
  <2> QED BY <2>1, <2>2, <2>3
<1>8. ASSUME NEW m \in OrNodes
      PROVE  inline'[m].choice = IF m = n THEN call.choice ELSE inline[m].choice
  <2>1. inline = [k \in OrNodes |-> [choice |-> inline[k].choice, shortest |-> inline[k].shortest]]
    BY DEF FinInv, InlineOK
  <2>2. m = n => Item[n].kind = "or"
    BY DEF OrNodes
  <2> QED BY <1>2, <2>1, <2>2
<1>9. /\ visits'[1].node = outer.node /\ visits'[1].at = outer.at + 1
      /\ visits'[1].choice = IF Verdict(call) THEN Append(outer.choice, outer.at) ELSE outer.choice
  BY <1>6, <1>7
<1>10. n = call.node
  BY <1>1
<1>11. ReturnTurn(call, outer, n)
  BY <1>2, <1>3, <1>4, <1>5, <1>6, <1>8, <1>9, <1>10 DEF ReturnTurn
<1> QED BY <1>11

\* The end of a pass of Reach.
ReachEnded ==
  /\ fin.pass = "reach" /\ visits = <<>> /\ fin.at > Len(Root)
  /\ fin'.pass = "depth" /\ fin'.at = 1 /\ fin'.pruned = fin.pruned \cup fin.toPrune
  /\ fin'.changes = (fin.changes \/ fin.toPrune # {}) /\ fin'.toPrune = {} /\ fin'.changed = FALSE
  /\ fin'.depths = [i \in 1..Len(Root) |-> IF i \in DOMAIN fin.depths THEN fin.depths[i] ELSE -1]
  /\ UNCHANGED <<grammar, names, inline, index, visits>>
  /\ Len(Root') = Len(Root)
  /\ \A k \in 1..Len(Root) : Root'[k] = IF k \in fin.toPrune THEN NoRule ELSE Root[k]

LEMMA ReachEndIs ==
  ASSUME GrammarInv, FinInv, ReachEnd
  PROVE  ReachEnded
<1> DEFINE depths == [i \in DOMAIN Root |-> IF i \in DOMAIN fin.depths THEN fin.depths[i] ELSE -1]
           changes == fin.changes \/ fin.toPrune # {}
<1>1. /\ fin.pass = "reach" /\ visits = <<>> /\ fin.at > Len(Root)
      /\ scopes' = <<Pruned(Root, fin.toPrune)>>
      /\ fin' = [fin EXCEPT !.pass = "depth", !.at = 1, !.changes = changes,
                            !.pruned = @ \cup fin.toPrune, !.toPrune = {}, !.changed = FALSE,
                            !.depths = depths]
      /\ UNCHANGED <<grammar, names, inline, index, visits>>
  BY DEF ReachEnd
<1>2. DOMAIN Root = 1..Len(Root)
  BY Start, SeqFacts
<1> HIDE DEF depths
<1>3. /\ fin'.pass = "depth" /\ fin'.at = 1 /\ fin'.pruned = fin.pruned \cup fin.toPrune
      /\ fin'.changes = changes /\ fin'.toPrune = {} /\ fin'.changed = FALSE /\ fin'.depths = depths
  <2> HIDE DEF changes
  <2> QED BY <1>1, Start DEF FinOK
<1>4. /\ Len(Root') = Len(Root)
      /\ \A k \in 1..Len(Root) : Root'[k] = IF k \in fin.toPrune THEN NoRule ELSE Root[k]
  BY <1>1, Start, RootPruned
<1> QED BY <1>1, <1>2, <1>3, <1>4 DEF ReachEnded, depths

\* Another round of RefDepth, or the end of the rounds.
RoundAgain ==
  /\ fin.changed /\ Root' = Root
  /\ fin'.pass = "depth" /\ fin'.changes = fin.changes /\ fin'.changed = FALSE
RoundsOver ==
  /\ ~fin.changed /\ Len(Root') = Len(Root)
  /\ \A k \in 1..Len(Root) : Root'[k] = IF k \in fin.toPrune THEN NoRule ELSE Root[k]
  /\ fin'.pass = (IF fin.changes THEN "reach" ELSE "done") /\ fin'.changes = FALSE
DepthEnded ==
  /\ fin.pass = "depth" /\ fin.at > Len(Root) /\ visits = <<>>
  /\ fin'.at = 1 /\ fin'.toPrune = {} /\ fin'.pruned = fin.pruned /\ fin'.depths = fin.depths
  /\ UNCHANGED <<grammar, names, inline, index, visits>>
  /\ RoundAgain \/ RoundsOver

LEMMA DepthEndIs ==
  ASSUME GrammarInv, FinInv, DepthEnd
  PROVE  DepthEnded
<1>1. /\ fin.pass = "depth" /\ fin.at > Len(Root) /\ UNCHANGED <<grammar, names, inline, index, visits>>
      /\ visits = <<>>
  BY DEF DepthEnd, FinInv, VisitsOK
<1>2. CASE fin.changed
  <2>1. fin' = [fin EXCEPT !.at = 1, !.changed = FALSE, !.toPrune = {}] /\ UNCHANGED scopes
    BY <1>2 DEF DepthEnd
  <2>2. /\ fin'.pass = "depth" /\ fin'.changes = fin.changes /\ fin'.pruned = fin.pruned
        /\ fin'.at = 1 /\ fin'.toPrune = {} /\ fin'.changed = FALSE /\ fin'.depths = fin.depths
        /\ Root' = Root
    BY <1>1, <2>1, Start DEF FinOK, Root
  <2> QED BY <1>1, <1>2, <2>2 DEF DepthEnded, RoundAgain
<1>3. CASE ~fin.changed
  <2> DEFINE pass == IF fin.changes THEN "reach" ELSE "done"
  <2>1. /\ scopes' = <<Pruned(Root, fin.toPrune)>>
        /\ fin' = [fin EXCEPT !.pass = pass, !.at = 1, !.changes = FALSE, !.toPrune = {}]
    BY <1>3 DEF DepthEnd
  <2>2. /\ fin'.pass = pass /\ fin'.changes = FALSE /\ fin'.pruned = fin.pruned /\ fin'.at = 1
        /\ fin'.toPrune = {} /\ fin'.depths = fin.depths
    <3> HIDE DEF pass
    <3> QED BY <1>1, <2>1, Start DEF FinOK
  <2>3. /\ Len(Root') = Len(Root)
        /\ \A k \in 1..Len(Root) : Root'[k] = IF k \in fin.toPrune THEN NoRule ELSE Root[k]
    BY <2>1, Start, RootPruned
  <2> QED BY <1>1, <1>3, <2>2, <2>3 DEF DepthEnded, RoundsOver
<1> QED BY <1>2, <1>3

-----------------------------------------------------------------------------
(* The names through the steps of Finalize.                                *)

LEMMA ReachRuleNames ==
  ASSUME GrammarInv, FinInv, NamesInv, ReachRule
  PROVE  NamesInv'
<1>1. /\ fin.pass = "reach" /\ UNCHANGED <<grammar, names, scopes>>
      /\ fin' = fin \/ fin' = [fin EXCEPT !.at = @ + 1]
  BY DEF ReachRule
<1>2. /\ fin'.pass = "reach" /\ fin'.depths = fin.depths /\ fin'.toPrune = fin.toPrune /\ Root' = Root
  BY <1>1, Start DEF FinOK, Root
<1>3. Called' = Called /\ (FirstPass' => FirstPass)
  BY <1>1, <1>2 DEF Called, FirstPass
<1>4. Given' = Given
  BY <1>1 DEF Given
<1>5. PrunesGiven'
  BY <1>1, <1>2, <1>4 DEF PrunesGiven, NamesInv
<1> QED BY <1>1, <1>2, <1>3, <1>5, NamesStay

LEMMA ReachReturnNames ==
  ASSUME GrammarInv, FinInv, NamesInv, ReachReturn
  PROVE  NamesInv'
<1>1. fin.pass = "reach" /\ UNCHANGED <<grammar, names, scopes, fin>>
  BY ReachReturnIs DEF ReturnTurn
<1>2. Called' = Called /\ (FirstPass' => FirstPass) /\ Given' = Given /\ Root' = Root
  BY <1>1 DEF Called, FirstPass, Given, Root
<1>3. PrunesGiven'
  BY <1>1, <1>2 DEF PrunesGiven, NamesInv
<1> QED BY <1>1, <1>2, <1>3, NamesStay

LEMMA RuleEndNames ==
  ASSUME GrammarInv, FinInv, NamesInv, ReachRuleEnd
  PROVE  NamesInv'
<1>1. PICK i, call : RuleEnded(i, call)
  BY RuleEndIs
<1>2. /\ fin.pass = "reach" /\ i \in 1..Len(names) /\ Root[i].live /\ UNCHANGED <<grammar, names>>
      /\ fin'.pass = "reach" /\ fin'.depths = fin.depths /\ Len(Root) = Len(names)
      /\ fin'.toPrune = IF Root[i].keep \/ call.choice # <<>> THEN fin.toPrune ELSE fin.toPrune \cup {i}
      /\ \A k \in 1..Len(names) :
           /\ Root'[k].live = Root[k].live /\ Root'[k].keep = Root[k].keep
           /\ Root'[k].items = Root[k].items
  BY <1>1, Start DEF RuleEnded
<1>3. Called' = Called /\ (FirstPass' => FirstPass) /\ Given' = Given
  BY <1>2 DEF Called, FirstPass, Given
<1>4. i \notin fin.toPrune /\ i \in fin'.toPrune => names[i] \in Given
  BY <1>2 DEF NamesInv, OwnNames
<1>5. \A k \in fin'.toPrune : k \in fin.toPrune \/ k = i
  BY <1>2
<1>6. PrunesGiven'
  BY <1>2, <1>3, <1>4, <1>5 DEF PrunesGiven, NamesInv
<1> QED BY <1>2, <1>3, <1>6, NamesStay

LEMMA ReachEndNames ==
  ASSUME GrammarInv, FinInv, NamesInv, ReachEnd
  PROVE  NamesInv'
<1>1. ReachEnded
  BY ReachEndIs
<1>2. /\ fin.pass = "reach" /\ UNCHANGED <<grammar, names>> /\ fin'.pass = "depth" /\ fin'.toPrune = {}
      /\ \A k \in 1..Len(names) : Root'[k] = IF k \in fin.toPrune THEN NoRule ELSE Root[k]
      /\ Len(names) \in Nat
  BY <1>1, Start DEF ReachEnded
<1>3. Called' = Called /\ ~FirstPass'
  BY <1>2 DEF Called, FirstPass
<1>4. PrunesGiven' /\ \A k \in fin.toPrune : names[k] \in Given
  BY <1>2 DEF PrunesGiven, NamesInv
<1>5. PICK S : S = fin.toPrune
  OBVIOUS
<1>6. /\ \A k \in S : k \in 1..Len(names) => names[k] \in Given
      /\ \A k \in 1..Len(names) : Root'[k] = IF k \in S THEN NoRule ELSE Root[k]
  BY <1>2, <1>4, <1>5
<1>7. fin'.pass # "add" /\ (FirstPass' => Len(names) = 0)
  BY <1>2, <1>3
<1> QED BY <1>2, <1>3, <1>4, <1>6, <1>7, NamesPruned

LEMMA DepthEndNames ==
  ASSUME GrammarInv, FinInv, NamesInv, DepthEnd, DOMAIN fin.depths = 1..Len(Root)
  PROVE  NamesInv'
<1>1. DepthEnded
  BY DepthEndIs
<1>2. /\ fin.pass = "depth" /\ UNCHANGED <<grammar, names>> /\ fin'.toPrune = {}
      /\ fin'.depths = fin.depths /\ Len(names) \in Nat /\ Len(Root) = Len(names)
  BY <1>1, Start DEF DepthEnded
<1>3. PrunesGiven' /\ (\A k \in fin.toPrune : names[k] \in Given)
  BY <1>2 DEF PrunesGiven, NamesInv
<1>4. fin'.pass \in {"depth", "reach", "done"}
  BY <1>1 DEF DepthEnded, RoundAgain, RoundsOver
<1>5. Called' = Called
  BY <1>2, <1>4 DEF Called
<1>6. CASE RoundAgain
  <2>1. ~FirstPass' /\ Root' = Root
    BY <1>6 DEF FirstPass, RoundAgain
  <2> QED BY <1>2, <1>3, <1>4, <1>5, <2>1, NamesStay
<1>7. CASE RoundsOver
  <2>1. PICK S : S = fin.toPrune
    OBVIOUS
  <2>2. /\ \A k \in S : k \in 1..Len(names) => names[k] \in Given
        /\ \A k \in 1..Len(names) : Root'[k] = IF k \in S THEN NoRule ELSE Root[k]
    BY <1>2, <1>3, <1>7, <2>1 DEF RoundsOver
  <2>3. FirstPass' => Len(names) = 0
    <3>1. FirstPass' => 1..Len(Root) = {}
      BY <1>2 DEF FirstPass
    <3>2. \A z \in Nat : 1..z = {} => z = 0
      <4>1. \A z \in Nat : z # 0 => 1 \in 1..z
        OBVIOUS
      <4> QED BY <4>1
    <3> QED BY <1>2, <3>1, <3>2
  <2>4. fin'.pass # "add"
    BY <1>4
  <2> QED BY <1>2, <1>3, <1>5, <2>2, <2>3, <2>4, NamesPruned
<1> QED BY <1>1, <1>6, <1>7 DEF DepthEnded

LEMMA DepthRuleNames ==
  ASSUME GrammarInv, FinInv, NamesInv, at = "finalize", DepthRule
  PROVE  NamesInv'
<1>1. fin.pass = "depth" /\ UNCHANGED <<grammar, names>>
  BY DEF DepthRule
<1>2. Given' = Given
  BY <1>1 DEF Given
<1>3. CASE ~Root[fin.at].live
  <2>1. fin' = [fin EXCEPT !.at = @ + 1] /\ scopes' = scopes
    BY <1>3 DEF DepthRule
  <2>2. fin'.pass = "depth" /\ fin'.toPrune = fin.toPrune /\ Root' = Root
    BY <1>1, <2>1, Start DEF FinOK, Root
  <2>3. Called' = Called /\ ~FirstPass' /\ PrunesGiven'
    BY <1>1, <1>2, <2>2 DEF Called, FirstPass, PrunesGiven, NamesInv
  <2> QED BY <1>1, <2>2, <2>3, NamesStay
<1>4. CASE Root[fin.at].live
  <2>1. PICK i, depth, shortest, changed, prune : DepthTurn(i, depth, shortest, changed, prune)
    BY <1>4, DepthRuleIs
  <2>2. /\ i \in 1..Len(names) /\ Root[i].live /\ fin'.pass = "depth" /\ Len(Root) = Len(names)
        /\ prune = (~changed /\ depth = Inf /\ ~Root[i].keep)
        /\ fin'.toPrune = (IF prune THEN fin.toPrune \cup {i} ELSE fin.toPrune)
        /\ \A k \in 1..Len(names) :
             /\ Root'[k].live = Root[k].live /\ Root'[k].keep = Root[k].keep
             /\ Root'[k].items = Root[k].items
    BY <2>1, Start DEF DepthTurn
  <2>3. Called' = Called /\ ~FirstPass'
    BY <1>1, <2>2 DEF Called, FirstPass
  <2>4. PrunesGiven'
    <3>1. i \notin fin.toPrune /\ i \in fin'.toPrune => names[i] \in Given
      BY <2>2 DEF NamesInv, OwnNames
    <3>2. \A k \in fin'.toPrune : k \in fin.toPrune \/ k = i
      BY <2>2
    <3> QED BY <1>1, <1>2, <2>2, <3>1, <3>2 DEF PrunesGiven, NamesInv
  <2> QED BY <1>1, <2>2, <2>3, <2>4, NamesStay
<1> QED BY <1>3, <1>4

\* What is there stays where it is.
LEMMA IntroducedStays ==
  ASSUME NEW ns, AnySeq(ns), NEW rs, NEW name, NEW ns2, NEW rs2, NEW i, Len(rs) = Len(ns),
         Introduced(ns, rs, name, ns2, rs2, i)
  PROVE  /\ Len(ns) \in Nat /\ Len(ns2) \in Nat /\ Len(ns) <= Len(ns2)
         /\ \A k \in 1..Len(ns) :
              /\ k \in 1..Len(ns2) /\ ns2[k] = ns[k] /\ (k # i => rs2[k] = rs[k])
              /\ rs[k].live => rs2[k].live /\ rs2[k].items = rs[k].items
              /\ rs[k].keep /\ rs[k].live => rs2[k].keep
              /\ rs[k].live => rs2[k].choice = rs[k].choice
         /\ ToSet(ns) \subseteq ToSet(ns2) /\ name \in ToSet(ns2)
<1>1. Len(ns) \in Nat /\ Len(ns2) \in Nat /\ AnySeq(ns2)
  BY SeqFacts DEF Introduced
<1>2. \/ ns2 = ns
      \/ /\ ns2 = Append(ns, name) /\ i = Len(ns) + 1 /\ Len(ns2) = Len(ns) + 1
         /\ \A k \in 1..Len(ns) : ns2[k] = ns[k]
  BY Appended DEF Introduced
<1>3. Len(ns) <= Len(ns2) /\ \A k \in 1..Len(ns) : k \in 1..Len(ns2) /\ ns2[k] = ns[k]
  BY <1>1, <1>2
<1>4. ASSUME NEW k \in 1..Len(ns)
      PROVE  /\ k # i => rs2[k] = rs[k]
             /\ rs[k].live => rs2[k].live /\ rs2[k].items = rs[k].items /\ rs2[k].choice = rs[k].choice
             /\ rs[k].keep /\ rs[k].live => rs2[k].keep
  BY <1>3, <1>4 DEF Introduced
<1>5. ToSet(ns) = {ns[k] : k \in 1..Len(ns)} /\ ToSet(ns2) = {ns2[k] : k \in 1..Len(ns2)}
  BY <1>1, NamesSet
<1>6. ToSet(ns) \subseteq ToSet(ns2)
  BY <1>3, <1>5
<1>7. name \in ToSet(ns2)
  BY <1>5 DEF Introduced
<1> QED BY <1>1, <1>3, <1>4, <1>6, <1>7

LEMMA ReachItemNames ==
  ASSUME GrammarInv, FinInv, NamesInv, ReachItem
  PROVE  NamesInv'
<1>1. PICK call, n : ItemTurn(call, n)
  BY ReachItemIs
<1>2. /\ fin.pass = "reach" /\ fin'.pass = "reach" /\ fin'.depths = fin.depths
      /\ fin'.toPrune = fin.toPrune /\ grammar' = grammar
  BY <1>1 DEF ItemTurn
<1>3. Called' = Called /\ (FirstPass' => FirstPass) /\ Given' = Given /\ Called = Len(grammar)
  BY <1>2 DEF Called, FirstPass, Given
<1>4. AnySeq(names) /\ Len(names) \in Nat /\ Len(Root) = Len(names) /\ grammar \in Grammars
      /\ Len(grammar) \in Nat
  BY Start, GrammarIsSeq, SeqFacts DEF GrammarInv
<1>5. CASE UNCHANGED <<names, scopes>>
  <2>1. Root' = Root
    BY <1>5 DEF Root
  <2>2. PrunesGiven'
    BY <1>2, <1>3, <1>5 DEF PrunesGiven, NamesInv
  <2> QED BY <1>2, <1>3, <1>5, <2>1, <2>2, NamesStay
<1>6. ASSUME NEW i, AdderTurn(n, i)
      PROVE  NamesInv'
  <2>1. PICK ns, rs, ns2, rs2, name : /\ ns = names /\ rs = Root /\ ns2 = names' /\ rs2 = Root'
                                      /\ name = Item[n].name
    OBVIOUS
  <2>2. Introduced(ns, rs, name, ns2, rs2, i)
    BY <1>6, <2>1 DEF AdderTurn
  <2>3. /\ Len(ns) \in Nat /\ Len(ns2) \in Nat /\ Len(ns) <= Len(ns2)
        /\ \A k \in 1..Len(ns) :
              /\ k \in 1..Len(ns2) /\ ns2[k] = ns[k] /\ (k # i => rs2[k] = rs[k])
              /\ rs[k].live => rs2[k].live /\ rs2[k].items = rs[k].items
              /\ rs[k].keep /\ rs[k].live => rs2[k].keep
        /\ ToSet(ns) \subseteq ToSet(ns2) /\ name \in ToSet(ns2)
    BY <1>4, <2>1, <2>2, IntroducedStays
  <2>4. /\ Len(ns2) = Len(rs2) /\ i \in 1..Len(ns2) /\ ns2[i] = name /\ rs2[i].live /\ rs2[i].keep
        /\ \A k \in 1..Len(ns2) : k # i => k \in 1..Len(ns) /\ rs2[k] = rs[k] /\ ns2[k] = ns[k]
        /\ ~ (i \in 1..Len(ns) /\ rs[i].live) => rs2[i].items = <<>>
        /\ \/ ns2 = ns
           \/ name \notin ToSet(ns) /\ i = Len(ns) + 1
    BY <2>2 DEF Introduced
  <2>5. \A z \in Given : z \in ToSet(ns)
    <3>1. ASSUME NEW z \in Given
          PROVE  z \in ToSet(ns)
      <4>1. PICK p \in 1..Len(grammar) : grammar[p].name = z
        BY <1>4, GivenAre
      <4> QED BY <1>3, <2>1, <4>1 DEF NamesInv, CalledOK
    <3> QED BY <3>1
  <2>6. /\ \A z : FirstOf(z)' = FirstOf(z)
        /\ \A z, items, k : Whole(z, items, k)' <=> Whole(z, items, k)
    BY <1>2 DEF FirstOf, Whole
  <2>7. AddOK' /\ CalledOK'
    BY <1>2, <1>3, <2>1, <2>3 DEF AddOK, NamesInv, CalledOK
  <2>8. Distinct'
    <3>1. \A k, l \in 1..Len(ns) : ns[k] = ns[l] => k = l
      BY <2>1 DEF NamesInv, Distinct
    <3>2. ToSet(ns) = {ns[k] : k \in 1..Len(ns)}
      BY <1>4, <2>1, NamesSet
    <3>3. \A k, l \in 1..Len(ns2) : ns2[k] = ns2[l] => k = l
      BY <2>4, <3>1, <3>2
    <3> QED BY <2>1, <3>3 DEF Distinct
  <2>9. OwnNames'
    <3>1. \A k \in 1..Len(ns) : ns[k] \in Given \/ (rs[k].live /\ rs[k].keep)
      BY <2>1 DEF NamesInv, OwnNames
    <3>2. \A k \in 1..Len(ns2) : ns2[k] \in Given \/ (rs2[k].live /\ rs2[k].keep)
      BY <2>4, <3>1
    <3> QED BY <1>3, <2>1, <3>2 DEF OwnNames
  <2>10. InOrder'
    <3> SUFFICES ASSUME NEW k \in 1..Len(ns2), NEW l \in 1..Len(ns2), ns2[k] \in Given, ns2[l] \in Given,
                        FirstOf(ns2[k]) < FirstOf(ns2[l])
                 PROVE  k < l
      BY <1>3, <2>1, <2>6 DEF InOrder
    <3>1. k \in 1..Len(ns) /\ l \in 1..Len(ns)
      BY <2>4, <2>5
    <3>2. ns2[k] = ns[k] /\ ns2[l] = ns[l]
      BY <2>3, <3>1
    <3> QED BY <2>1, <3>1, <3>2 DEF NamesInv, InOrder
  <2>11. ASSUME NEW k \in 1..Len(ns2), FirstPass
         PROVE  rs2[k].live /\ Whole(ns2[k], rs2[k].items, Called)
    <3>1. CASE k \in 1..Len(ns)
      <4>1. rs[k].live /\ Whole(ns[k], rs[k].items, Called)
        BY <2>1, <2>11, <3>1 DEF NamesInv, FirstOK
      <4> QED BY <2>3, <3>1, <4>1
    <3>2. CASE k \notin 1..Len(ns)
      <4>1. k = i /\ name \notin ToSet(ns) /\ rs2[i].items = <<>>
        BY <2>4, <3>2
      <4>2. \A p \in 1..Len(grammar) : grammar[p].name # name
        BY <1>3, <2>1, <4>1 DEF NamesInv, CalledOK
      <4>3. Whole(name, <<>>, Len(grammar))
        BY <4>2 DEF Whole
      <4> QED BY <1>3, <2>4, <4>1, <4>3
    <3> QED BY <3>1, <3>2
  <2>12. FirstOK'
    BY <1>3, <2>1, <2>6, <2>11 DEF FirstOK
  <2>13. ASSUME NEW k \in 1..Len(ns2), rs2[k].live
         PROVE  Whole(ns2[k], rs2[k].items, Called) \/ (rs2[k].keep /\ rs2[k].items = <<>>)
    <3>1. CASE k \in 1..Len(ns) /\ rs[k].live
      <4>1. Whole(ns[k], rs[k].items, Called) \/ (rs[k].keep /\ rs[k].items = <<>>)
        BY <2>1, <3>1 DEF NamesInv, RulesAre
      <4> QED BY <2>3, <3>1, <4>1
    <3>2. CASE ~ (k \in 1..Len(ns) /\ rs[k].live)
      <4>1. k = i
        BY <2>4, <2>13, <3>2
      <4> QED BY <2>4, <3>2, <4>1
    <3> QED BY <3>1, <3>2
  <2>14. RulesAre'
    BY <1>3, <2>1, <2>6, <2>13 DEF RulesAre
  <2>15. PrunesGiven'
    BY <1>2, <1>3, <2>1, <2>3 DEF PrunesGiven, NamesInv
  <2> QED BY <2>7, <2>8, <2>9, <2>10, <2>12, <2>14, <2>15 DEF NamesInv
<1> QED BY <1>1, <1>5, <1>6 DEF ItemTurn

-----------------------------------------------------------------------------
(* The depths during Finalize.                                             *)

DepthsOK ==
  /\ \E k \in 0..Len(Root) : DOMAIN fin.depths = 1..k
  /\ \A i \in DOMAIN fin.depths : fin.depths[i] \in {-1} \cup 0..Inf
  /\ fin.pass \in {"depth", "done"} => DOMAIN fin.depths = 1..Len(Root)

\* What a round prunes in the end.
ToPruneOK ==
  fin.pass = "depth" =>
    \A i \in fin.toPrune :
      i \in 1..Len(Root) /\ i < fin.at /\ Root[i].live /\ ~Root[i].keep /\ fin.depths[i] = Inf

\* Another round would find the same.
Rounded(i) == fin.depths[i] = RoundDepth(i) /\ Root[i].shortest = RoundShortest(i)

RoundOK ==
  fin.pass = "depth" /\ ~fin.changed =>
    \A i \in 1..Len(Root) : i < fin.at /\ Root[i].live =>
      Rounded(i) /\ (~Root[i].keep /\ fin.depths[i] = Inf => i \in fin.toPrune)
DoneOK ==
  fin.pass = "done" =>
    \A i \in 1..Len(Root) : Root[i].live => Rounded(i) /\ (Root[i].keep \/ fin.depths[i] # Inf)

DepthInv == DepthsOK /\ ToPruneOK /\ RoundOK /\ DoneOK

LEMMA ViewIsOK ==
  ASSUME FinInv, DepthsOK
  PROVE  /\ ViewOK(View)
         /\ \A n \in OrNodes : View.choice[n] = inline[n].choice
         /\ \A name : DepthOf(View, name) =
              LET i == IndexOf(names, name) IN
              IF i \in DOMAIN fin.depths /\ fin.depths[i] # -1 THEN fin.depths[i] ELSE Inf
<1>0. Inf \in Nat
  BY InfIsNat
<1>1. \A n \in OrNodes : View.choice[n] = inline[n].choice
  BY DEF View
<1>2. ASSUME NEW name
      PROVE  DepthOf(View, name) =
               LET i == IndexOf(names, name) IN
               IF i \in DOMAIN fin.depths /\ fin.depths[i] # -1 THEN fin.depths[i] ELSE Inf
  <2>1. /\ View.names = names /\ DOMAIN View.depths = DOMAIN fin.depths
        /\ \A i \in DOMAIN fin.depths :
             View.depths[i] = IF fin.depths[i] = -1 THEN Inf ELSE fin.depths[i]
    BY DEF View
  <2> QED BY <2>1 DEF DepthOf
<1>3. \A name : DepthOf(View, name) \in 0..Inf
  <2> SUFFICES ASSUME NEW name PROVE DepthOf(View, name) \in 0..Inf
    OBVIOUS
  <2>1. PICK i : i = IndexOf(names, name)
    OBVIOUS
  <2>2. DepthOf(View, name) = IF i \in DOMAIN fin.depths /\ fin.depths[i] # -1 THEN fin.depths[i] ELSE Inf
    BY <1>2, <2>1
  <2> QED BY <1>0, <2>2 DEF DepthsOK
<1>4. ASSUME NEW n \in OrNodes
      PROVE  ToSet(View.choice[n]) \subseteq 1..Len(Item[n].kids)
  <2>1. View.choice[n] \in Seq(1..Len(Item[n].kids))
    BY <1>1 DEF FinInv, InlineOK, Ranged
  <2> QED BY <2>1 DEF ToSet
<1> QED BY <1>1, <1>2, <1>3, <1>4 DEF ViewOK

\* The items of a rule and the places of those that can be reached.
LEMMA RuleItemsAre ==
  ASSUME GrammarInv, FinInv, NEW i \in 1..Len(Root)
  PROVE  /\ Len(Root[i].items) \in Nat /\ DOMAIN RootItems(i) = 1..Len(Root[i].items)
         /\ Len(RootItems(i)) = Len(Root[i].items)
         /\ \A j \in 1..Len(Root[i].items) :
              RootItems(i)[j] = Root[i].items[j].node /\ RootItems(i)[j] \in Used /\ RootItems(i)[j] \in Nodes
         /\ Root[i].choice \in Seq(1..Len(Root[i].items)) /\ Len(Root[i].choice) \in Nat
         /\ ToSet(Root[i].choice) \subseteq 1..Len(Root[i].items)
<1>1. RuleOK(Used, Root[i]) /\ RuleRanged(Root[i]) /\ Used \subseteq Nodes
      /\ \A j \in 1..Len(Root[i].items) : Root[i].items[j].node \in Used
  BY Start
<1>2. AnySeq(Root[i].items)
  BY <1>1 DEF RuleOK, AnySeq
<1>3. PICK items : items = Root[i].items
  OBVIOUS
<1>4. Len(items) \in Nat /\ DOMAIN items = 1..Len(items)
  BY <1>2, <1>3, SeqFacts
<1>5. RootItems(i) = [j \in 1..Len(items) |-> items[j].node]
  BY <1>3, <1>4 DEF RootItems
<1>6. /\ DOMAIN RootItems(i) = 1..Len(items) /\ Len(RootItems(i)) = Len(items)
      /\ \A j \in 1..Len(items) : RootItems(i)[j] = items[j].node
  BY <1>4, <1>5
<1>7. Root[i].choice \in Seq(1..Len(items))
  BY <1>1, <1>3 DEF RuleRanged, Ranged
<1>8. PICK choice : choice = Root[i].choice
  OBVIOUS
<1>9. Len(choice) \in Nat /\ ToSet(choice) \subseteq 1..Len(items)
  BY <1>7, <1>8 DEF ToSet
<1> QED BY <1>1, <1>3, <1>4, <1>6, <1>7, <1>8, <1>9

LEMMA RoundDepthIs ==
  ASSUME GrammarInv, FinInv, DepthsOK, NEW i \in 1..Len(Root)
  PROVE  /\ RoundDepth(i) \in 0..Inf
         /\ \A x \in Nat : x < Inf =>
              (RoundDepth(i) <= x <=>
                 Root[i].keep \/ \E j \in ToSet(Root[i].choice) : CalcRefDepth(RootItems(i)[j], View) <= x)
<1> DEFINE S == {Inf} \cup {CalcRefDepth(RootItems(i)[j], View) : j \in ToSet(Root[i].choice)}
<1>0. Inf \in Nat
  BY InfIsNat
<1>1. RoundDepth(i) = IF Root[i].keep THEN 0 ELSE MinIn(S)
  BY DEF RoundDepth
<1>2. PICK v : v = View
  OBVIOUS
<1>3. ViewOK(v)
  BY <1>2, ViewIsOK
<1>4. \A j \in ToSet(Root[i].choice) : CalcRefDepth(RootItems(i)[j], View) \in 0..Inf
  <2>1. \A j \in ToSet(Root[i].choice) : RootItems(i)[j] \in Nodes
    BY RuleItemsAre
  <2> QED BY <1>2, <1>3, <2>1, CalcRefDepthIs
<1>5. S \in SUBSET Nat /\ S # {} /\ S \subseteq 0..Inf
  BY <1>0, <1>4
<1>6. MinIn(S) \in S /\ \A x \in Nat : MinIn(S) <= x <=> \E y \in S : y <= x
  <2> HIDE DEF S
  <2> QED BY <1>5, LeastIs, <1>0
<1>7. MinIn(S) \in 0..Inf
  <2> HIDE DEF S
  <2> QED BY <1>5, <1>6
<1>8. ASSUME NEW x \in Nat, x < Inf
      PROVE  (\E y \in S : y <= x) <=> \E j \in ToSet(Root[i].choice) : CalcRefDepth(RootItems(i)[j], View) <= x
  <2>1. ~ (Inf <= x)
    BY <1>0, <1>8
  <2> QED BY <2>1
<1> HIDE DEF S
<1> QED BY <1>0, <1>1, <1>6, <1>7, <1>8

\* A round over the same view finds the same.
LEMMA RoundStays ==
  ASSUME View' = View, NEW k, Root'[k].keep = Root[k].keep, Root'[k].choice = Root[k].choice,
         Root'[k].items = Root[k].items
  PROVE  /\ RoundDepth(k)' = RoundDepth(k)
         /\ ~Root[k].keep => RoundShortest(k)' = RoundShortest(k)
         /\ Root[k].keep => RoundShortest(k)' = Root'[k].shortest
<1>1. RootItems(k)' = RootItems(k)
  BY DEF RootItems
<1>2. PICK v, items : v = View /\ items = RootItems(k)
  OBVIOUS
<1>3. View' = v /\ RootItems(k)' = items
  BY <1>1, <1>2
<1>4. RoundDepth(k)' = RoundDepth(k)
  <2>1. RoundDepth(k) = IF Root[k].keep THEN 0
          ELSE MinIn({Inf} \cup {CalcRefDepth(items[j], v) : j \in ToSet(Root[k].choice)})
    BY <1>2 DEF RoundDepth
  <2>2. RoundDepth(k)' = IF Root'[k].keep THEN 0
          ELSE MinIn({Inf} \cup {CalcRefDepth(items[j], v) : j \in ToSet(Root'[k].choice)})
    BY <1>3 DEF RoundDepth
  <2> QED BY <2>1, <2>2
<1>5. RoundShortest(k) = IF Root[k].keep THEN Root[k].shortest ELSE ShortestOf(Root[k].choice, items, v)
  BY <1>2 DEF RoundShortest
<1>6. RoundShortest(k)' = IF Root'[k].keep THEN Root'[k].shortest ELSE ShortestOf(Root'[k].choice, items, v)
  BY <1>3 DEF RoundShortest
<1> QED BY <1>4, <1>5, <1>6

LEMMA ViewStays ==
  ASSUME names' = names, \A n \in OrNodes : inline'[n].choice = inline[n].choice,
         DOMAIN fin'.depths = DOMAIN fin.depths, \A i \in DOMAIN fin.depths : fin'.depths[i] = fin.depths[i]
  PROVE  View' = View
BY DEF View

\* The steps of a pass of Reach.
LEMMA DepthIdle ==
  ASSUME GrammarInv, FinInv, DepthInv, GrammarInv', FinInv', Finalize, ~ReachEnd, ~DepthRule, ~DepthEnd
  PROVE  DepthInv'
<1>1. /\ fin'.pass \in {"add", "reach"} /\ fin'.depths = fin.depths /\ Len(Root) <= Len(Root')
  <2>1. CASE AddRule
    <3>1. /\ fin.pass = "add"
          /\ IF fin.at > Len(grammar)
             THEN fin' = [fin EXCEPT !.pass = "reach", !.at = 1] /\ UNCHANGED <<names, scopes>>
             ELSE /\ fin' = [fin EXCEPT !.at = @ + 1]
                  /\ names' = AddedRule([names |-> names, rules |-> Root], grammar[fin.at]).names
      BY <2>1 DEF AddRule
    <3>2. fin'.pass \in {"add", "reach"} /\ fin'.depths = fin.depths
      BY <3>1, Start DEF FinOK
    <3>3. Len(Root) <= Len(Root')
      <4>1. CASE fin.at > Len(grammar)
        <5>1. Root' = Root
          BY <3>1, <4>1 DEF Root
        <5> QED BY <5>1, Start
      <4>2. CASE ~ (fin.at > Len(grammar))
        <5>1. PICK ns, rs, name, e, i : /\ ns = names /\ rs = Root /\ name = grammar[fin.at].name
                  /\ e = Ensured([names |-> ns, rules |-> rs], name) /\ i = IndexOf(e.names, name)
          OBVIOUS
        <5>2. AnySeq(ns) /\ AnySeq(rs) /\ Len(rs) = Len(ns)
          BY <5>1, Start
        <5>3. Len(e.rules) = Len(e.names) /\ Len(rs) <= Len(e.rules)
          BY <5>1, <5>2, LiveRule
        <5>4. names' = e.names
          <6>1. PICK r : r = AddedRule([names |-> ns, rules |-> rs], grammar[fin.at])
            OBVIOUS
          <6>2. r = [e EXCEPT !.rules[i].items = Append(@, StaticEntry(grammar[fin.at].node))]
            BY <5>1, <6>1 DEF AddedRule
          <6>3. e = [names |-> e.names, rules |-> e.rules]
            BY <5>1, <5>2, RootIsOK, EnsuredRule
          <6>4. r.names = e.names
            BY <6>2, <6>3
          <6> QED BY <3>1, <4>2, <5>1, <6>1, <6>4
        <5>5. Len(Root') = Len(names')
          BY DEF FinInv, RootOK
        <5> QED BY <5>1, <5>3, <5>4, <5>5
      <4> QED BY <4>1, <4>2
    <3> QED BY <3>2, <3>3
  <2>2. CASE ReachRule
    <3>1. /\ fin.pass = "reach" /\ scopes' = scopes /\ (fin' = fin \/ fin' = [fin EXCEPT !.at = @ + 1])
      BY <2>2 DEF ReachRule
    <3>2. Root' = Root
      BY <3>1 DEF Root
    <3> QED BY <3>1, <3>2, Start DEF FinOK
  <2>3. CASE ReachItem
    <3>1. PICK call, n : ItemTurn(call, n)
      BY <2>3, ReachItemIs
    <3>2. Len(Root) <= Len(Root')
      <4>1. CASE UNCHANGED <<names, scopes>>
        <5>1. Root' = Root
          BY <4>1 DEF Root
        <5> QED BY <5>1, Start
      <4>2. ASSUME NEW i, AdderTurn(n, i)
            PROVE  Len(Root) <= Len(Root')
        BY <4>2, Start DEF AdderTurn, Introduced
      <4> QED BY <3>1, <4>1, <4>2 DEF ItemTurn
    <3> QED BY <3>1, <3>2 DEF ItemTurn
  <2>4. CASE ReachReturn
    <3>1. fin.pass = "reach" /\ UNCHANGED <<scopes, fin>>
      BY <2>4, ReachReturnIs DEF ReturnTurn
    <3>2. Root' = Root
      BY <3>1 DEF Root
    <3> QED BY <3>1, <3>2, Start
  <2>5. CASE ReachRuleEnd
    <3>1. fin'.pass = "reach" /\ fin'.depths = fin.depths /\ Len(Root') = Len(Root)
      BY <2>5, RuleEndIs DEF RuleEnded
    <3> QED BY <3>1, Start
  <2> QED BY <2>1, <2>2, <2>3, <2>4, <2>5 DEF Finalize
<1>2. Len(Root) \in Nat /\ Len(Root') \in Nat
  <2>1. RuleList(Used, Root)'
    BY RootIsOK, PTL
  <2>2. AnySeq(Root')
    BY <2>1 DEF RuleList
  <2>3. PICK rs : rs = Root'
    OBVIOUS
  <2>4. Len(rs) \in Nat
    BY <2>2, <2>3, SeqFacts
  <2> QED BY <2>3, <2>4, Start
<1>3. DepthsOK'
  <2>1. PICK k \in 0..Len(Root) : DOMAIN fin.depths = 1..k
    BY DEF DepthInv, DepthsOK
  <2>2. k \in 0..Len(Root')
    BY <1>1, <1>2
  <2> QED BY <1>1, <2>1, <2>2 DEF DepthInv, DepthsOK
<1> QED BY <1>1, <1>3 DEF DepthInv, ToPruneOK, RoundOK, DoneOK

LEMMA ReachEndDepths ==
  ASSUME GrammarInv, FinInv, DepthInv, ReachEnd
  PROVE  DepthInv'
<1>1. ReachEnded
  BY ReachEndIs
<1>2. /\ fin'.pass = "depth" /\ fin'.at = 1 /\ fin'.toPrune = {} /\ Len(Root') = Len(Root)
      /\ fin'.depths = [i \in 1..Len(Root) |-> IF i \in DOMAIN fin.depths THEN fin.depths[i] ELSE -1]
      /\ Len(Root) \in Nat
  BY <1>1, Start DEF ReachEnded
<1>3. DepthsOK'
  <2>1. DOMAIN fin'.depths = 1..Len(Root') /\ Len(Root') \in 0..Len(Root')
    BY <1>2
  <2>2. \A i \in DOMAIN fin'.depths : fin'.depths[i] \in {-1} \cup 0..Inf
    BY <1>2 DEF DepthInv, DepthsOK
  <2> QED BY <2>1, <2>2 DEF DepthsOK
<1>4. \A i \in 1..Len(Root') : ~ (i < 1)
  BY <1>2
<1> QED BY <1>2, <1>3, <1>4 DEF DepthInv, ToPruneOK, RoundOK, DoneOK

LEMMA DepthEndDepths ==
  ASSUME GrammarInv, FinInv, DepthInv, DepthEnd
  PROVE  DepthInv'
<1>1. DepthEnded
  BY DepthEndIs
<1>2. /\ fin.pass = "depth" /\ fin.at > Len(Root)
      /\ fin'.at = 1 /\ fin'.toPrune = {} /\ fin'.depths = fin.depths
      /\ UNCHANGED <<grammar, names, inline>> /\ Len(Root) \in Nat /\ fin.at \in Nat
  BY <1>1, Start DEF DepthEnded
<1>3. Len(Root') = Len(Root)
  BY <1>1 DEF DepthEnded, RoundAgain, RoundsOver
<1>4. DOMAIN fin.depths = 1..Len(Root)
  BY <1>2 DEF DepthInv, DepthsOK
<1>5. DepthsOK'
  <2>1. Len(Root) \in 0..Len(Root)
    BY <1>2
  <2> QED BY <1>2, <1>3, <1>4, <2>1 DEF DepthInv, DepthsOK
<1>6. \A i \in 1..Len(Root') : ~ (i < 1)
  BY <1>2, <1>3
<1>7. ToPruneOK' /\ RoundOK'
  BY <1>2, <1>6 DEF ToPruneOK, RoundOK
<1>8. DoneOK'
  <2> SUFFICES ASSUME fin'.pass = "done", NEW i \in 1..Len(Root), Root'[i].live
               PROVE  Rounded(i)' /\ (Root'[i].keep \/ fin'.depths[i] # Inf)
    BY <1>3 DEF DoneOK
  <2>1. /\ ~fin.changed /\ ~fin.changes
        /\ \A k \in 1..Len(Root) : Root'[k] = IF k \in fin.toPrune THEN NoRule ELSE Root[k]
    BY <1>1 DEF DepthEnded, RoundAgain, RoundsOver
  <2>2. fin.toPrune = {}
    BY <1>2, <2>1 DEF FinInv, FinOK
  <2>3. Root'[i] = Root[i]
    BY <2>1, <2>2
  <2>4. i < fin.at
    BY <1>2
  <2>5. Rounded(i) /\ (Root[i].keep \/ fin.depths[i] # Inf)
    BY <1>2, <2>1, <2>2, <2>3, <2>4 DEF DepthInv, RoundOK
  <2>6. View' = View
    <3>1. names' = names
      BY <1>2
    <3>2. \A n \in OrNodes : inline'[n].choice = inline[n].choice
      BY <1>2
    <3>3. DOMAIN fin'.depths = DOMAIN fin.depths
      BY <1>2
    <3>4. \A k \in DOMAIN fin.depths : fin'.depths[k] = fin.depths[k]
      BY <1>2
    <3> QED BY <3>1, <3>2, <3>3, <3>4, ViewStays
  <2>7. /\ RoundDepth(i)' = RoundDepth(i)
        /\ ~Root[i].keep => RoundShortest(i)' = RoundShortest(i)
        /\ Root[i].keep => RoundShortest(i)' = Root'[i].shortest
    BY <2>3, <2>6, RoundStays
  <2> QED BY <1>2, <2>3, <2>5, <2>7 DEF Rounded
<1> QED BY <1>5, <1>7, <1>8 DEF DepthInv

LEMMA DepthRuleDepths ==
  ASSUME GrammarInv, FinInv, DepthInv, at = "finalize", DepthRule
  PROVE  DepthInv'
<1>1. fin.pass = "depth" /\ UNCHANGED <<grammar, names>> /\ Len(Root) \in Nat /\ fin.at \in Nat
      /\ DOMAIN fin.depths = 1..Len(Root) /\ fin.at <= Len(Root) /\ fin.at \in 1..Len(Root)
  BY Start DEF DepthRule, DepthInv, DepthsOK
<1>2. CASE ~Root[fin.at].live
  <2>1. fin' = [fin EXCEPT !.at = @ + 1] /\ UNCHANGED <<scopes, inline>>
    BY <1>2 DEF DepthRule
  <2>2. /\ fin'.pass = "depth" /\ fin'.toPrune = fin.toPrune /\ fin'.at = fin.at + 1
        /\ fin'.depths = fin.depths /\ fin'.changed = fin.changed /\ Root' = Root
    BY <1>1, <2>1, Start DEF FinOK, Root
  <2>3. DepthsOK'
    BY <1>1, <2>2 DEF DepthInv, DepthsOK
  <2>4. ToPruneOK'
    <3> SUFFICES ASSUME NEW i \in fin.toPrune
                 PROVE  i \in 1..Len(Root) /\ i < fin.at + 1 /\ Root[i].live /\ ~Root[i].keep /\ fin.depths[i] = Inf
      BY <2>2 DEF ToPruneOK
    <3>1. i \in 1..Len(Root) /\ i < fin.at /\ Root[i].live /\ ~Root[i].keep /\ fin.depths[i] = Inf
      BY <1>1 DEF DepthInv, ToPruneOK
    <3> QED BY <1>1, <3>1
  <2>5. View' = View
    <3>1. names' = names
      BY <1>1
    <3>2. \A n \in OrNodes : inline'[n].choice = inline[n].choice
      BY <2>1
    <3>3. DOMAIN fin'.depths = DOMAIN fin.depths
      BY <2>2
    <3>4. \A k \in DOMAIN fin.depths : fin'.depths[k] = fin.depths[k]
      BY <2>2
    <3> QED BY <3>1, <3>2, <3>3, <3>4, ViewStays
  <2>6. RoundOK'
    <3> SUFFICES ASSUME ~fin.changed, NEW i \in 1..Len(Root), i < fin.at + 1, Root[i].live
                 PROVE  Rounded(i)' /\ (~Root[i].keep /\ fin.depths[i] = Inf => i \in fin.toPrune)
      BY <2>2 DEF RoundOK
    <3>1. i < fin.at
      BY <1>1, <1>2
    <3>2. Rounded(i) /\ (~Root[i].keep /\ fin.depths[i] = Inf => i \in fin.toPrune)
      BY <1>1, <3>1 DEF DepthInv, RoundOK
    <3>3. /\ RoundDepth(i)' = RoundDepth(i)
          /\ ~Root[i].keep => RoundShortest(i)' = RoundShortest(i)
          /\ Root[i].keep => RoundShortest(i)' = Root'[i].shortest
      BY <2>2, <2>5, RoundStays
    <3> QED BY <2>2, <3>2, <3>3 DEF Rounded
  <2> QED BY <2>2, <2>3, <2>4, <2>6 DEF DepthInv, DoneOK
<1>3. CASE Root[fin.at].live
  <2>1. PICK i, depth, shortest, changed, prune : DepthTurn(i, depth, shortest, changed, prune)
    BY <1>3, DepthRuleIs
  <2>2. /\ i = fin.at /\ i \in 1..Len(Root) /\ Root[i].live
        /\ depth = RoundDepth(i) /\ shortest = RoundShortest(i)
        /\ changed = (fin.changed \/ fin.depths[i] # depth \/ Len(Root[i].shortest) # Len(shortest))
        /\ prune = (~changed /\ depth = Inf /\ ~Root[i].keep)
        /\ fin'.pass = "depth" /\ fin'.at = i + 1 /\ fin'.changed = changed
        /\ fin'.toPrune = (IF prune THEN fin.toPrune \cup {i} ELSE fin.toPrune)
        /\ fin'.depths = [fin.depths EXCEPT ![i] = depth]
        /\ \A n \in OrNodes : inline'[n].choice = inline[n].choice
        /\ Len(Root') = Len(Root)
        /\ \A k \in 1..Len(Root) :
             /\ Root'[k].live = Root[k].live /\ Root'[k].keep = Root[k].keep
             /\ Root'[k].items = Root[k].items /\ Root'[k].choice = Root[k].choice
             /\ Root'[k].shortest = IF k = i THEN shortest ELSE Root[k].shortest
    BY <2>1 DEF DepthTurn
  <2>3. depth \in 0..Inf
    BY <2>2, RoundDepthIs DEF DepthInv
  <2>4. /\ DOMAIN fin'.depths = 1..Len(Root)
        /\ \A k \in 1..Len(Root) : fin'.depths[k] = IF k = i THEN depth ELSE fin.depths[k]
    BY <1>1, <2>2
  <2>5. DepthsOK'
    <3>1. \A k \in 1..Len(Root) : fin'.depths[k] \in {-1} \cup 0..Inf
      BY <1>1, <2>3, <2>4 DEF DepthInv, DepthsOK
    <3>2. Len(Root) \in 0..Len(Root)
      BY <1>1
    <3> QED BY <2>2, <2>4, <3>1, <3>2 DEF DepthsOK
  <2>6. ToPruneOK'
    <3> SUFFICES ASSUME NEW k \in fin'.toPrune
                 PROVE  /\ k \in 1..Len(Root) /\ k < i + 1 /\ Root[k].live /\ ~Root[k].keep
                        /\ fin'.depths[k] = Inf
      BY <2>2 DEF ToPruneOK
    <3>1. CASE k \in fin.toPrune
      <4>1. k \in 1..Len(Root) /\ k < fin.at /\ Root[k].live /\ ~Root[k].keep /\ fin.depths[k] = Inf
        BY <1>1, <3>1 DEF DepthInv, ToPruneOK
      <4>2. k # i /\ k < i + 1
        BY <1>1, <2>2, <4>1
      <4>3. fin'.depths[k] = fin.depths[k]
        BY <2>4, <4>1, <4>2
      <4> QED BY <4>1, <4>2, <4>3
    <3>2. CASE k \notin fin.toPrune
      <4>1. prune /\ k = i
        BY <2>2, <3>2
      <4>2. prune = (~changed /\ depth = Inf /\ ~Root[i].keep)
        BY <2>2
      <4>3. depth = Inf /\ ~Root[i].keep
        BY <4>1, <4>2, Zenon
      <4>4. i \in 1..Len(Root) /\ i < i + 1 /\ Root[i].live
        BY <1>1, <2>2
      <4>5. fin'.depths[i] = depth
        BY <2>4, <4>4
      <4> QED BY <4>1, <4>3, <4>4, <4>5
    <3> QED BY <3>1, <3>2
  <2>7. RoundOK'
    <3> SUFFICES ASSUME ~changed, NEW k \in 1..Len(Root), k < i + 1, Root[k].live
                 PROVE  Rounded(k)' /\ (~Root[k].keep /\ fin'.depths[k] = Inf => k \in fin'.toPrune)
      BY <2>2 DEF RoundOK
    <3>1. ~fin.changed /\ fin.depths[i] = depth
      BY <2>2
    <3>2. View' = View
      <4>1. \A l \in DOMAIN fin.depths : fin'.depths[l] = fin.depths[l]
        BY <1>1, <2>4, <3>1
      <4>2. names' = names
        BY <1>1
      <4>3. \A n \in OrNodes : inline'[n].choice = inline[n].choice
        BY <2>2
      <4>4. DOMAIN fin'.depths = DOMAIN fin.depths
        BY <1>1, <2>4
      <4> QED BY <4>1, <4>2, <4>3, <4>4, ViewStays
    <3>3. /\ RoundDepth(k)' = RoundDepth(k)
          /\ ~Root[k].keep => RoundShortest(k)' = RoundShortest(k)
          /\ Root[k].keep => RoundShortest(k)' = Root'[k].shortest
      BY <2>2, <3>2, RoundStays
    <3>4. CASE k = i
      BY <2>2, <2>4, <3>3, <3>4 DEF Rounded
    <3>5. CASE k # i
      <4>1. k < fin.at
        BY <1>1, <2>2, <3>5
      <4>2. Rounded(k) /\ (~Root[k].keep /\ fin.depths[k] = Inf => k \in fin.toPrune)
        BY <1>1, <3>1, <4>1 DEF DepthInv, RoundOK
      <4> QED BY <2>2, <2>4, <3>3, <3>5, <4>2 DEF Rounded
    <3> QED BY <3>4, <3>5
  <2> QED BY <2>2, <2>5, <2>6, <2>7 DEF DepthInv, DoneOK
<1> QED BY <1>2, <1>3

-----------------------------------------------------------------------------
(* What the passes of Reach find.  E names the rules that have a name in   *)
(* the end: a reference to one of them is fulfilled, even if it is pruned. *)

\* The grammar gives v items but none of them can be built.
Lost(v, E) ==
  v \in Given /\ \A p \in 1..Len(grammar) : grammar[p].name = v => ~Fulfilled(grammar[p].node, E)

FitName(n, E) ==
  Item[n].kind \in Adders => Item[n].name \in ToSet(names) /\ (Item[n].name \in Kept \/ Lost(Item[n].name, E))
FitChoice(n, E) ==
  Item[n].kind = "or" =>
    \A j \in 1..Len(Item[n].kids) : j \in ToSet(inline[n].choice) <=> Fulfilled(Item[n].kids[j], E)
Fit(n, E) == FitName(n, E) /\ FitChoice(n, E)

\* A pass has been through n and what it comes to below n.
Touring(S, E) ==
  S \subseteq Nodes /\ \A n \in S : Fit(n, E) /\ \A k \in Open(n, E) : Item[n].kids[k] \in S
Toured(n, E) == \E S : n \in S /\ Touring(S, E)

LEMMA TouredIsFit ==
  ASSUME NEW E, NEW n, Toured(n, E)
  PROVE  n \in Nodes /\ Fit(n, E) /\ \A k \in Open(n, E) : Toured(Item[n].kids[k], E)
<1>1. PICK S : n \in S /\ Touring(S, E)
  BY DEF Toured
<1> QED BY <1>1 DEF Touring, Toured

\* A pass has now been through n as well.
LEMMA ToursJoin ==
  ASSUME NEW E, NEW n \in Nodes, Fit(n, E)', \A k \in Open(n, E) : Toured(Item[n].kids[k], E),
         \A m \in Nodes : Fit(m, E) => Fit(m, E)'
  PROVE  Toured(n, E)'
<1> DEFINE R == {m \in Nodes : m = n \/ Toured(m, E)}
<1>1. PICK S : S = R
  OBVIOUS
<1>2. \A m : Toured(m, E) => m \in S
  BY <1>1, TouredIsFit
<1>3. \A m \in S : m \in Nodes /\ (m = n \/ Toured(m, E))
  BY <1>1
<1> HIDE DEF R
<1>4. \A m \in S : Fit(m, E)' /\ \A k \in Open(m, E) : Item[m].kids[k] \in S
  BY <1>2, <1>3, TouredIsFit
<1>5. Touring(S, E)'
  BY <1>3, <1>4 DEF Touring, Open
<1>6. n \in S
  BY <1>1 DEF R
<1> QED BY <1>5, <1>6 DEF Toured

LEMMA TouredStays ==
  ASSUME NEW E, NEW n, Toured(n, E), \A m \in Nodes : Fit(m, E) => Fit(m, E)'
  PROVE  Toured(n, E)'
<1>1. PICK S : n \in S /\ Touring(S, E)
  BY DEF Toured
<1>2. Touring(S, E)'
  BY <1>1 DEF Touring, Open
<1> QED BY <1>1, <1>2 DEF Toured

\* What a pass is sure to introduce has a name.
LEMMA TouredAdds ==
  ASSUME NEW E, Given \subseteq E, NEW n, Toured(n, E)
  PROVE  Adds(n) \subseteq ToSet(names)
<1> DEFINE S == {m \in Nodes : Toured(m, E) => Adds(m) \subseteq ToSet(names)}
<1>1. ASSUME NEW m \in Nodes, KidsOf(m) \subseteq S
      PROVE  m \in S
  <2> SUFFICES ASSUME Toured(m, E) PROVE Adds(m) \subseteq ToSet(names)
    OBVIOUS
  <2>1. Fit(m, E) /\ \A k \in Open(m, E) : Toured(Item[m].kids[k], E)
    BY TouredIsFit
  <2>2. Introduces(m) \subseteq ToSet(names)
    BY <2>1 DEF Fit, FitName, Introduces, Adders
  <2>3. ASSUME NEW k \in Open(m, Given)
        PROVE  Adds(Item[m].kids[k]) \subseteq ToSet(names)
    <3>1. k \in 1..Len(Item[m].kids) /\ \A i \in 1..Len(Item[m].kids) : Item[m].kids[i] \in Nodes
      BY KidsAre DEF Open
    <3>2. Item[m].kids[k] \in KidsOf(m)
      BY <3>1, KidsAre
    <3>3. k \in Open(m, E)
      <4>1. ASSUME Item[m].kind # "or", NEW i \in 1..(k - 1)
            PROVE  Fulfilled(Item[m].kids[i], E)
        <5>1. i \in 1..Len(Item[m].kids)
          <6>1. Len(Item[m].kids) \in Nat
            BY KidsAre
          <6> QED BY <3>1, <6>1
        <5>2. Fulfilled(Item[m].kids[i], Given)
          BY <4>1 DEF Open
        <5> QED BY <3>1, <5>1, <5>2, MoreIsFulfilled
      <4> QED BY <3>1, <4>1 DEF Open
    <3> QED BY <1>1, <2>1, <3>2, <3>3
  <2> QED BY <2>2, <2>3, AddsIs
<1>2. n \in Nodes
  BY TouredIsFit
<1> HIDE DEF S
<1>3. Nodes \subseteq S
  BY <1>1, NodeInduction
<1> QED BY <1>2, <1>3 DEF S

LEMMA GivenHaveNames ==
  ASSUME grammar \in Grammars, NamesInv, fin.pass # "add"
  PROVE  Given \subseteq ToSet(names)
<1> SUFFICES ASSUME NEW name \in Given PROVE name \in ToSet(names)
  OBVIOUS
<1>1. PICK p \in 1..Len(grammar) : grammar[p].name = name
  BY GivenAre
<1> QED BY <1>1 DEF NamesInv, CalledOK, Called

-----------------------------------------------------------------------------
(* A call of CalcReachability.                                             *)

Found(call, E) ==
  /\ \A j \in 1..(call.at - 1) : j \in ToSet(call.choice) <=> Fulfilled(VisitItems(call)[j], E)
  /\ Len(call.choice) = call.at - 1 => \A j \in 1..(call.at - 1) : call.choice[j] = j
  /\ (\A j \in 1..(call.at - 1) : Fulfilled(VisitItems(call)[j], E)) => Len(call.choice) = call.at - 1
ItemsToured(call, E) == \A j \in 1..(call.at - 1) : Toured(VisitItems(call)[j], E)
Asked(n, E) ==
  n # NoNode =>
    Needs(n) \cap E \subseteq ToSet(names) /\ FitName(n, E) /\ (~FirstPass => Toured(n, E))
CallFits(call, E) == Found(call, E) /\ ItemsToured(call, E) /\ Asked(call.node, E)

LEMMA AllFound ==
  ASSUME NEW call, CallOK(call), NEW E, Found(call, E), Len(call.choice) = call.at - 1
  PROVE  \A j \in 1..(call.at - 1) : Fulfilled(VisitItems(call)[j], E)
<1>1. \A j \in 1..(call.at - 1) : call.choice[j] = j
  BY DEF Found
<1>2. call.choice \in Seq(1..(call.at - 1))
  BY DEF CallOK
<1>3. \A j \in 1..(call.at - 1) : j \in ToSet(call.choice)
  BY <1>1, <1>2 DEF ToSet
<1> QED BY <1>3 DEF Found

LEMMA CallFinds ==
  ASSUME GrammarInv, NEW E, ToSet(names) \subseteq E, NEW call, CallOK(call), CallFits(call, E),
         Visited(call), NEW n \in Nodes, n = call.node, n # NoNode, VisitItems(call) = Item[n].kids
  PROVE  /\ Verdict(call) <=> Fulfilled(n, E)
         /\ \A k \in Open(n, E) : k \in 1..(call.at - 1) /\ Toured(Item[n].kids[k], E)
         /\ Item[n].kind = "or" =>
              \A j \in 1..Len(Item[n].kids) : j \in ToSet(call.choice) <=> Fulfilled(Item[n].kids[j], E)
<1> DEFINE kids == Item[n].kids
<1>1. /\ Len(kids) \in Nat /\ call.at \in 1..(Len(kids) + 1) /\ call.at \in Nat
      /\ call.choice \in Seq(1..(call.at - 1)) /\ Len(call.choice) \in Nat /\ Len(call.choice) <= call.at - 1
  <2>1. Len(kids) \in Nat
    BY KidsAre
  <2> QED BY <2>1 DEF CallOK
<1>2. call.at = Len(kids) + 1 \/ (Item[n].kind # "or" /\ Len(call.choice) < call.at - 1)
  <2>1. call.at > Len(kids) \/ (Item[n].kind # "or" /\ Len(call.choice) < call.at - 1)
    BY DEF Visited, Stops
  <2>2. call.at > Len(kids) => call.at = Len(kids) + 1
    BY <1>1
  <2> QED BY <2>1, <2>2
<1>3. Len(call.choice) = call.at - 1 <=> \A j \in 1..(call.at - 1) : Fulfilled(kids[j], E)
  BY AllFound DEF CallFits, Found
<1>4. \A m \in KidsOf(n) : \E k \in 1..Len(kids) : m = kids[k]
  BY KidsAre
<1>5. \A k \in 1..Len(kids) : kids[k] \in KidsOf(n)
  BY KidsAre
<1>6. ASSUME Item[n].kind # "or"
      PROVE  Len(call.choice) = Len(kids) <=> \A k \in KidsOf(n) : Fulfilled(k, E)
  <2>1. CASE call.at = Len(kids) + 1
    <3>1. call.at - 1 = Len(kids)
      BY <1>1, <2>1
    <3> QED BY <1>3, <1>4, <1>5, <3>1
  <2>2. CASE Len(call.choice) < call.at - 1
    <3>1. PICK j \in 1..(call.at - 1) : ~Fulfilled(kids[j], E)
      BY <1>1, <1>3, <2>2
    <3>2. j \in 1..Len(kids)
      BY <1>1
    <3>3. Len(call.choice) # Len(kids)
      BY <1>1, <2>2
    <3> QED BY <1>5, <3>1, <3>2, <3>3
  <2> QED BY <1>2, <2>1, <2>2
<1>7. ASSUME Item[n].kind = "or"
      PROVE  \A j \in 1..Len(kids) : j \in ToSet(call.choice) <=> Fulfilled(kids[j], E)
  <2>1. call.at - 1 = Len(kids)
    BY <1>1, <1>2, <1>7
  <2> QED BY <2>1 DEF CallFits, Found
<1>8. ASSUME Item[n].kind = "or"
      PROVE  call.choice # <<>> <=> \E k \in KidsOf(n) : Fulfilled(k, E)
  <2>1. PICK choice : choice = call.choice
    OBVIOUS
  <2>2. choice \in Seq(1..(call.at - 1)) /\ call.at - 1 = Len(kids)
    BY <1>1, <1>2, <1>8, <2>1
  <2>3. choice # <<>> <=> \E j \in 1..Len(kids) : j \in ToSet(choice)
    <3>1. choice # <<>> => choice[1] \in ToSet(choice) /\ choice[1] \in 1..Len(kids)
      BY <2>2 DEF ToSet
    <3>2. choice = <<>> => ToSet(choice) = {}
      BY DEF ToSet
    <3> QED BY <3>1, <3>2
  <2> QED BY <1>4, <1>5, <1>7, <1>8, <2>1, <2>3
<1>9. ASSUME Item[n].kind \in RefKinds
      PROVE  IndexOf(names, Item[n].name) # 0 <=> Item[n].name \in E
  <2>1. Item[n].name \in E => Item[n].name \in ToSet(names)
    BY <1>9, NeedsIs DEF CallFits, Asked
  <2>2. Item[n].name \in ToSet(names) => IndexOf(names, Item[n].name) # 0
    BY IndexNamed DEF GrammarInv
  <2>3. Item[n].name \notin ToSet(names) => IndexOf(names, Item[n].name) = 0
    BY DEF IndexOf
  <2> QED BY <2>1, <2>2, <2>3
<1>10. Verdict(call) <=> Fulfilled(n, E)
  <2>1. CASE Item[n].kind \in RefKinds
    <3>1. Verdict(call) <=> IndexOf(names, Item[n].name) # 0
      BY <2>1 DEF Verdict, RefKinds
    <3> QED BY <1>9, <2>1, <3>1, FulfilledIs
  <2>2. CASE Item[n].kind = "or"
    <3>1. Verdict(call) <=> call.choice # <<>>
      BY <2>2 DEF Verdict, RefKinds
    <3> QED BY <1>8, <2>2, <3>1, FulfilledIs
  <2>3. CASE Item[n].kind = "opt"
    <3>1. Verdict(call)
      BY <2>3 DEF Verdict, RefKinds
    <3> QED BY <2>3, <3>1, FulfilledIs
  <2>4. CASE Item[n].kind \notin RefKinds \cup {"or", "opt"}
    <3>1. Verdict(call) <=> Len(call.choice) = Len(kids)
      BY <2>4 DEF Verdict
    <3> QED BY <1>6, <2>4, <3>1, FulfilledIs
  <2> QED BY <2>1, <2>2, <2>3, <2>4
<1>11. ASSUME NEW k \in Open(n, E)
       PROVE  k \in 1..(call.at - 1) /\ Toured(kids[k], E)
  <2>1. k \in 1..Len(kids)
    BY DEF Open
  <2>2. k \in 1..(call.at - 1)
    <3>1. CASE call.at = Len(kids) + 1
      BY <1>1, <2>1, <3>1
    <3>2. CASE Item[n].kind # "or" /\ Len(call.choice) < call.at - 1
      <4>1. PICK j \in 1..(call.at - 1) : ~Fulfilled(kids[j], E)
        BY <1>1, <1>3, <3>2
      <4>2. \A i \in 1..(k - 1) : Fulfilled(kids[i], E)
        BY <3>2 DEF Open
      <4>3. ~ (j \in 1..(k - 1))
        BY <4>1, <4>2
      <4> QED BY <1>1, <2>1, <4>3
    <3> QED BY <1>2, <3>1, <3>2
  <2> QED BY <2>2 DEF CallFits, ItemsToured
<1> QED BY <1>7, <1>10, <1>11

-----------------------------------------------------------------------------
(* The invariant of Finalize.                                              *)

LateFree(E) ==
  \A p \in 1..Len(grammar) :
    Needs(grammar[p].node) \cap E \subseteq Given \cup UNION {Adds(grammar[q].node) : q \in Before(p)}
Vindicated ==
  \A name \in Kept \cap Given :
    \E call \in ToSet(grammar) : call.name = name /\ Fulfilled(call.node, Given)

CallsFit(E) == \A k \in 1..Len(visits) : CallFits(visits[k], E)
Tours(E) ==
  \A p \in 1..Len(grammar) :
    (FirstPass => IndexOf(names, grammar[p].name) < fin.at) => Toured(grammar[p].node, E)
Hopeful(i, E) == \E j \in 1..Len(Root[i].items) : Fulfilled(Root[i].items[j].node, E)
RuleFound(i, E) ==
  /\ \A j \in 1..Len(Root[i].items) : j \in ToSet(Root[i].choice) <=> Fulfilled(Root[i].items[j].node, E)
  /\ Len(Root[i].choice) = Len(Root[i].items) => \A j \in 1..Len(Root[i].items) : Root[i].choice[j] = j
RulesFound(E) ==
  \A i \in 1..Len(Root) :
    Root[i].live /\ (FirstPass => i < fin.at) =>
      RuleFound(i, E) /\ (Root[i].keep \/ Hopeful(i, E) \/ (FirstPass /\ i \in fin.toPrune))
PrunesLost(E) ==
  fin.pass = "reach" =>
    (~FirstPass => fin.toPrune = {}) /\ \A i \in fin.toPrune : Lost(names[i], E)
BuildableLive ==
  Vindicated => \A d \in 0..Inf : \A i \in 1..Len(Root) : names[i] \in Within[d] => Root[i].live
DeadDepths == \A i \in DOMAIN fin.depths : ~Root[i].live => fin.depths[i] \in {-1, Inf}

PruneInv(E) ==
  CallsFit(E) /\ Tours(E) /\ RulesFound(E) /\ PrunesLost(E) /\ BuildableLive /\ DeadDepths
Exact == fin.pass # "add" => \A E : ToSet(names) \subseteq E /\ LateFree(E) => PruneInv(E)

\* What the next item of a call refers to has a name, or never gets one.
LEMMA NeedsAreKnown ==
  ASSUME GrammarInv, FinInv, NamesInv, NEW E, ToSet(names) \subseteq E, LateFree(E), PruneInv(E),
         NEW call, NEW n, ItemTurn(call, n)
  PROVE  Needs(n) \cap E \subseteq ToSet(names) /\ (~FirstPass => Toured(n, E))
<1>1. /\ call = visits[1] /\ Len(visits) \in Nat \ {0} /\ CallOK(call) /\ ~Visited(call)
      /\ call.at \in 1..Len(VisitItems(call)) /\ n = VisitItems(call)[call.at] /\ n \in Nodes
      /\ fin.pass = "reach" /\ fin.at \in 1..Len(Root) /\ Root[fin.at].live
  BY DEF ItemTurn
<1>2. CallFits(call, E)
  BY <1>1 DEF PruneInv, CallsFit
<1>3. grammar \in Grammars /\ AnySeq(names) /\ Len(Root) = Len(names) /\ Used \subseteq Nodes
      /\ Len(names) \in Nat /\ NoNode \notin Used
  BY Start DEF GrammarInv
<1>4. Given \subseteq ToSet(names) /\ Given \subseteq E
  BY <1>1, <1>3, GivenHaveNames
<1>5. CASE call.node = NoNode
  <2> DEFINE i == fin.at
             items == Root[i].items
             j == call.at
  <2>1. Len(VisitItems(call)) = Len(items) /\ \A l \in 1..Len(items) : VisitItems(call)[l] = items[l].node
    BY <1>1, <1>5, VisitItemsAre DEF FinInv
  <2>2. i \in 1..Len(names) /\ Root[i].live /\ j \in 1..Len(items) /\ n = items[j].node
    BY <1>1, <1>3, <2>1
  <2>3. AnySeq(items)
    BY <1>1, <1>3, Start DEF RuleOK, AnySeq
  <2>4. Len(items) \in Nat /\ items # <<>>
    <3>1. PICK s : s = items
      OBVIOUS
    <3>2. Len(s) \in Nat /\ Len(s) # 0
      BY <2>2, <2>3, <3>1, SeqFacts
    <3> QED BY <3>1, <3>2, NoItems
  <2>5. Whole(names[i], items, Len(grammar))
    BY <1>1, <2>2, <2>4 DEF NamesInv, RulesAre, Called
  <2>6. PICK p \in 1..Len(grammar) :
          /\ grammar[p].name = names[i] /\ grammar[p].node = n
          /\ \A q \in 1..(p - 1) : grammar[q].name = names[i] =>
               \E l \in 1..(j - 1) : items[l].node = grammar[q].node
    BY <2>2, <2>5 DEF Whole
  <2>7. ASSUME NEW q \in Before(p)
        PROVE  Toured(grammar[q].node, E)
    <3>1. q \in 1..Len(grammar) /\ Len(grammar) \in Nat
      BY <1>3, GrammarIsSeq, SeqFacts DEF Before
    <3>2. CASE ~FirstPass
      BY <3>1, <3>2 DEF PruneInv, Tours
    <3>3. CASE FirstPass /\ FirstOf(grammar[q].name) < FirstOf(grammar[p].name)
      <4>1. grammar[q].name \in Given /\ grammar[p].name \in Given
        BY <1>3, <3>1, FirstIs
      <4> DEFINE k == IndexOf(names, grammar[q].name)
      <4>2. k \in 1..Len(names) /\ names[k] = grammar[q].name
        BY <1>3, <1>4, <4>1, IndexNamed
      <4>3. k < i
        BY <2>2, <2>6, <3>3, <4>1, <4>2 DEF NamesInv, InOrder
      <4> QED BY <3>1, <4>3 DEF PruneInv, Tours
    <3>4. CASE grammar[q].name = grammar[p].name /\ q < p
      <4>1. q \in 1..(p - 1)
        BY <3>1, <3>4
      <4>2. PICK l \in 1..(j - 1) : items[l].node = grammar[q].node
        BY <2>6, <3>4, <4>1
      <4>3. l \in 1..Len(items)
        BY <2>2, <2>4
      <4>4. Toured(VisitItems(call)[l], E)
        BY <1>2 DEF CallFits, ItemsToured
      <4> QED BY <2>1, <4>2, <4>3, <4>4
    <3> QED BY <3>2, <3>3, <3>4 DEF Before
  <2>8. \A q \in Before(p) : Adds(grammar[q].node) \subseteq ToSet(names)
    BY <1>4, <2>7, TouredAdds
  <2>9. Needs(n) \cap E \subseteq ToSet(names)
    BY <1>4, <2>6, <2>8 DEF LateFree
  <2>10. ~FirstPass => Toured(n, E)
    BY <2>6 DEF PruneInv, Tours
  <2> QED BY <2>9, <2>10
<1>6. CASE call.node # NoNode
  <2> DEFINE m == call.node
             k == call.at
  <2>1. m \in Used /\ m \in Nodes
    BY <1>1, <1>3, <1>6 DEF CallOK
  <2>2. VisitItems(call) = Item[m].kids
    BY <1>6 DEF VisitItems
  <2>3. k \in 1..Len(Item[m].kids) /\ n = Item[m].kids[k] /\ Len(Item[m].kids) \in Nat
    BY <1>1, <2>1, <2>2, KidsAre
  <2>4. Needs(n) \ Leads(m, k) \subseteq Needs(m)
    BY <2>1, <2>3, NeedsIs
  <2>5. Leads(m, k) \subseteq ToSet(names)
    <3>1. Introduces(m) \subseteq ToSet(names)
      BY <1>2, <1>6 DEF CallFits, Asked, FitName, Introduces, Adders
    <3>2. \A l \in 1..(k - 1) : Adds(Item[m].kids[l]) \subseteq ToSet(names)
      <4>1. \A l \in 1..(k - 1) : Toured(Item[m].kids[l], E)
        BY <1>2, <2>2 DEF CallFits, ItemsToured
      <4> QED BY <1>4, <4>1, TouredAdds
    <3> QED BY <3>1, <3>2 DEF Leads
  <2>6. Needs(n) \cap E \subseteq ToSet(names)
    BY <1>2, <1>6, <2>4, <2>5 DEF CallFits, Asked
  <2>7. ASSUME ~FirstPass
        PROVE  Toured(n, E)
    <3>1. Toured(m, E)
      BY <1>2, <1>6, <2>7 DEF CallFits, Asked
    <3>2. ASSUME Item[m].kind # "or"
          PROVE  \A l \in 1..(k - 1) : Fulfilled(Item[m].kids[l], E)
      <4>1. ~ (Len(call.choice) < call.at - 1)
        BY <1>1, <1>6, <3>2 DEF Visited, Stops
      <4>2. Len(call.choice) <= call.at - 1 /\ Len(call.choice) \in Nat /\ call.at \in Nat
        <5>1. call.choice \in Seq(1..(call.at - 1)) /\ Len(call.choice) <= call.at - 1
          BY <1>1 DEF CallOK
        <5> QED BY <2>3, <5>1
      <4>3. Len(call.choice) = call.at - 1
        BY <4>1, <4>2
      <4> QED BY <1>1, <1>2, <2>2, <4>3, AllFound DEF CallFits
    <3>3. k \in Open(m, E)
      BY <2>3, <3>2 DEF Open
    <3> QED BY <2>3, <3>1, <3>3, TouredIsFit
  <2> QED BY <2>6, <2>7
<1> QED BY <1>5, <1>6

-----------------------------------------------------------------------------
(* What stays through a step.                                              *)

LEMMA LostStays ==
  ASSUME grammar' = grammar, NEW E, NEW name
  PROVE  Lost(name, E)' <=> Lost(name, E)
BY DEF Lost, Given

LEMMA FitNameStays ==
  ASSUME grammar' = grammar, NEW E, ToSet(names) \subseteq ToSet(names'),
         \A name \in Kept : name \in Kept' \/ Lost(name, E), NEW n, FitName(n, E)
  PROVE  FitName(n, E)'
<1>1. \A name : Lost(name, E)' <=> Lost(name, E)
  BY LostStays
<1> QED BY <1>1 DEF FitName

LEMMA FitChoiceStays ==
  ASSUME NEW E, NEW n \in Nodes, FitChoice(n, E), n \in OrNodes => inline'[n].choice = inline[n].choice
  PROVE  FitChoice(n, E)'
<1>1. Item[n].kind = "or" => n \in OrNodes
  BY DEF OrNodes
<1>2. CASE Item[n].kind = "or"
  <2>1. PICK c : c = inline[n].choice
    OBVIOUS
  <2>2. inline'[n].choice = c
    BY <1>1, <1>2, <2>1
  <2> QED BY <2>1, <2>2 DEF FitChoice
<1>3. CASE Item[n].kind # "or"
  BY <1>3 DEF FitChoice
<1> QED BY <1>2, <1>3

LEMMA NeedsStay ==
  ASSUME grammar' = grammar
  PROVE  \A n : Adds(n)' = Adds(n) /\ Needs(n)' = Needs(n)
<1>1. Given' = Given
  BY DEF Given
<1>2. \A n : Adds(n)' = Adds(n)
  BY <1>1 DEF Adds
<1>3. \A n : Needs(n)' = Needs(n)
  BY <1>1 DEF Needs, Adds
<1> QED BY <1>2, <1>3

LEMMA CallStaysFit ==
  ASSUME grammar' = grammar, NEW E, NEW call, CallFits(call, E), call.node # NoNode => call.node \in Nodes,
         \A j \in 1..(call.at - 1) : VisitItems(call)'[j] = VisitItems(call)[j],
         ToSet(names) \subseteq ToSet(names'), FirstPass => FirstPass',
         \A n \in Nodes : FitName(n, E) => FitName(n, E)',
         \A n \in Nodes : Fit(n, E) => Fit(n, E)'
  PROVE  CallFits(call, E)'
<1>1. \A n : Toured(n, E) => Toured(n, E)'
  BY TouredStays
<1>2. Found(call, E)'
  BY DEF CallFits, Found
<1>3. ItemsToured(call, E)'
  BY <1>1 DEF CallFits, ItemsToured
<1>4. Asked(call.node, E)'
  <2> SUFFICES ASSUME call.node # NoNode
               PROVE  /\ Needs(call.node) \cap E \subseteq ToSet(names') /\ FitName(call.node, E)'
                      /\ ~FirstPass' => Toured(call.node, E)'
    <3>1. Needs(call.node)' = Needs(call.node)
      BY NeedsStay
    <3> QED BY <3>1 DEF Asked
  <2>1. /\ Needs(call.node) \cap E \subseteq ToSet(names) /\ FitName(call.node, E)
        /\ ~FirstPass => Toured(call.node, E)
    BY DEF CallFits, Asked
  <2> QED BY <1>1, <2>1
<1> QED BY <1>2, <1>3, <1>4 DEF CallFits

LEMMA KeptStays ==
  ASSUME names' = names, Len(Root') = Len(Root),
         \A i \in 1..Len(Root) : Root'[i].live = Root[i].live /\ Root'[i].keep = Root[i].keep
  PROVE  Kept' = Kept
<1>1. {j \in 1..Len(Root') : Root'[j].live /\ Root'[j].keep} = {j \in 1..Len(Root) : Root[j].live /\ Root[j].keep}
  OBVIOUS
<1> QED BY <1>1 DEF Kept

LEMMA WithinStays ==
  ASSUME Kept' = Kept, grammar' = grammar
  PROVE  Within' = Within
<1>1. (Within = WithinOf(Kept, grammar))'
  BY WithinSame, PTL
<1>2. Within' = WithinOf(Kept', grammar')
  BY <1>1
<1> QED BY <1>2, WithinSame

LEMMA BuildableStays ==
  ASSUME BuildableLive, Kept' = Kept, grammar' = grammar, names' = names, Len(Root') = Len(Root),
         \A i \in 1..Len(Root) : Root'[i].live = Root[i].live
  PROVE  BuildableLive'
<1>1. PICK W : W = Within
  OBVIOUS
<1>2. Within' = W
  BY <1>1, WithinStays
<1>3. Vindicated' => Vindicated
  BY DEF Vindicated, Given
<1> QED BY <1>1, <1>2, <1>3 DEF BuildableLive

\* Which rules are kept.
LEMMA KeptIs ==
  ASSUME NEW name
  PROVE  name \in Kept <=> \E i \in 1..Len(Root) : names[i] = name /\ Root[i].live /\ Root[i].keep
BY DEF Kept

\* Rules and names stay, and what fits.
LEMMA SettledStep ==
  ASSUME NEW E, Tours(E), RulesFound(E), BuildableLive, grammar' = grammar, names' = names,
         \A n \in Nodes : Fit(n, E) => Fit(n, E)', Len(Root') = Len(Root),
         \A i \in 1..Len(Root) : /\ Root'[i].live = Root[i].live /\ Root'[i].keep = Root[i].keep
                                 /\ Root'[i].items = Root[i].items /\ Root'[i].choice = Root[i].choice,
         FirstPass => FirstPass' /\ fin'.at = fin.at /\ fin'.toPrune = fin.toPrune
  PROVE  Tours(E)' /\ RulesFound(E)' /\ BuildableLive'
<1>1. Kept' = Kept
  BY KeptStays
<1>2. BuildableLive'
  BY <1>1, BuildableStays
<1>4. \A n : Toured(n, E) => Toured(n, E)'
  BY TouredStays
<1>5. Tours(E)'
  BY <1>4 DEF Tours
<1>6. RulesFound(E)'
  <2> SUFFICES ASSUME NEW i \in 1..Len(Root), Root'[i].live, FirstPass' => i < fin'.at
               PROVE  /\ RuleFound(i, E)'
                      /\ Root'[i].keep \/ Hopeful(i, E)' \/ (FirstPass' /\ i \in fin'.toPrune)
    BY DEF RulesFound
  <2>1. /\ RuleFound(i, E)
        /\ Root[i].keep \/ Hopeful(i, E) \/ (FirstPass /\ i \in fin.toPrune)
    BY DEF RulesFound
  <2>2. Hopeful(i, E) => Hopeful(i, E)'
    BY DEF Hopeful
  <2>3. RuleFound(i, E)'
    BY <2>1 DEF RuleFound
  <2> QED BY <2>1, <2>2, <2>3
<1> QED BY <1>2, <1>5, <1>6

\* Inline choices stay too.
LEMMA FitStays ==
  ASSUME grammar' = grammar, NEW E, ToSet(names) \subseteq ToSet(names'),
         \A name \in Kept : name \in Kept' \/ Lost(name, E),
         \A n \in OrNodes : inline'[n].choice = inline[n].choice
  PROVE  \A n \in Nodes : (FitName(n, E) => FitName(n, E)') /\ (Fit(n, E) => Fit(n, E)')
<1>1. \A n \in Nodes : FitName(n, E) => FitName(n, E)'
  BY FitNameStays
<1>2. \A n \in Nodes : FitChoice(n, E) => FitChoice(n, E)'
  BY FitChoiceStays
<1> QED BY <1>1, <1>2 DEF Fit

LEMMA QuietStep ==
  ASSUME NEW E, Tours(E), RulesFound(E), BuildableLive, grammar' = grammar, names' = names,
         \A n \in OrNodes : inline'[n].choice = inline[n].choice, Len(Root') = Len(Root),
         \A i \in 1..Len(Root) : /\ Root'[i].live = Root[i].live /\ Root'[i].keep = Root[i].keep
                                 /\ Root'[i].items = Root[i].items /\ Root'[i].choice = Root[i].choice,
         FirstPass => FirstPass' /\ fin'.at = fin.at /\ fin'.toPrune = fin.toPrune
  PROVE  Tours(E)' /\ RulesFound(E)' /\ BuildableLive'
<1>1. Kept' = Kept
  BY KeptStays
<1>2. \A n \in Nodes : Fit(n, E) => Fit(n, E)'
  BY <1>1, FitStays
<1> QED BY <1>2, SettledStep

LEMMA RuleStays ==
  ASSUME NEW E, NEW i, Root'[i].items = Root[i].items, Root'[i].choice = Root[i].choice
  PROVE  /\ RuleFound(i, E) => RuleFound(i, E)'
         /\ Hopeful(i, E) => Hopeful(i, E)'
BY DEF RuleFound, Hopeful

-----------------------------------------------------------------------------
(* The steps of Reach.                                                     *)

LEMMA ReachRuleExact ==
  ASSUME GrammarInv, FinInv, NamesInv, NEW E, PruneInv(E), ReachRule
  PROVE  PruneInv(E)'
<1>1. /\ fin.pass = "reach" /\ visits = <<>> /\ fin.at \in 1..Len(Root)
      /\ UNCHANGED <<grammar, names, scopes, inline>> /\ Root' = Root
      /\ fin.at \in Nat /\ Len(Root) \in Nat /\ Len(Root) = Len(names)
  BY Start DEF ReachRule, Root
<1>2. Tours(E) /\ RulesFound(E) /\ BuildableLive /\ PrunesLost(E) /\ DeadDepths
  BY DEF PruneInv
<1>3. CASE fin' = fin /\ visits' = <<Visit(NoNode)>>
  <2>1. FirstPass' <=> FirstPass
    BY <1>3 DEF FirstPass
  <2>2. Tours(E)' /\ RulesFound(E)' /\ BuildableLive'
    BY <1>1, <1>2, <1>3, <2>1, QuietStep
  <2>3. CallsFit(E)'
    <3>1. Len(visits') = 1 /\ visits'[1] = Visit(NoNode)
      BY <1>3
    <3>2. PICK call : call = Visit(NoNode)
      OBVIOUS
    <3>3. call.node = NoNode /\ call.at = 1 /\ call.choice = <<>>
      BY <3>2 DEF Visit
    <3>4. Len(call.choice) = call.at - 1 /\ \A j \in 1..(call.at - 1) : FALSE
      BY <3>3, NoItems
    <3>5. CallFits(call, E)'
      BY <3>3, <3>4 DEF CallFits, Found, ItemsToured, Asked
    <3> QED BY <3>1, <3>2, <3>5 DEF CallsFit
  <2>4. PrunesLost(E)' /\ DeadDepths'
    <3>1. \A name : Lost(name, E)' <=> Lost(name, E)
      BY <1>1, LostStays
    <3> QED BY <1>1, <1>2, <1>3, <2>1, <3>1 DEF PrunesLost, DeadDepths
  <2> QED BY <2>2, <2>3, <2>4 DEF PruneInv
<1>4. CASE /\ fin' = [fin EXCEPT !.at = @ + 1] /\ visits' = visits
           /\ ~Root[fin.at].live \/ fin.at \in fin.pruned
  <2>1. /\ fin'.pass = "reach" /\ fin'.at = fin.at + 1 /\ fin'.toPrune = fin.toPrune
        /\ fin'.depths = fin.depths
    BY <1>1, <1>4, Start DEF FinOK
  <2>2. FirstPass' <=> FirstPass
    BY <1>1, <2>1 DEF FirstPass
  <2>3. /\ \A name : Lost(name, E)' <=> Lost(name, E)
        /\ Kept' = Kept
    BY <1>1, LostStays, KeptStays
  <2>4. \A n \in Nodes : Fit(n, E) => Fit(n, E)'
    <3>1. \A n \in Nodes : FitName(n, E) => FitName(n, E)'
      BY <1>1, <2>3, FitNameStays
    <3>2. \A n \in Nodes : FitChoice(n, E) => FitChoice(n, E)'
      BY <1>1, FitChoiceStays
    <3> QED BY <3>1, <3>2 DEF Fit
  <2>5. \A n : Toured(n, E) => Toured(n, E)'
    BY <2>4, TouredStays
  <2>6. BuildableLive'
    BY <1>1, <1>2, <2>3, BuildableStays
  <2>7. CallsFit(E)'
    <3>1. Len(visits') = 0
      BY <1>1, <1>4, NoItems
    <3> QED BY <3>1 DEF CallsFit
  <2>8. PrunesLost(E)' /\ DeadDepths'
    BY <1>1, <1>2, <2>1, <2>2, <2>3 DEF PrunesLost, DeadDepths
  <2>9. ASSUME FirstPass
        PROVE  /\ Root[fin.at].live /\ Root[fin.at].keep /\ Root[fin.at].items = <<>> /\ Root[fin.at].choice = <<>>
               /\ \A p \in 1..Len(grammar) : grammar[p].name # names[fin.at]
    <3>1. Root[fin.at].live /\ Whole(names[fin.at], Root[fin.at].items, Len(grammar))
      BY <1>1, <2>9 DEF NamesInv, FirstOK, Called
    <3>2. Root[fin.at].keep /\ Root[fin.at].items = <<>>
      BY <1>1, <1>4, <3>1 DEF FinInv, PrunedOK
    <3>3. PICK items, choice : items = Root[fin.at].items /\ choice = Root[fin.at].choice
      OBVIOUS
    <3>4. Len(items) = 0
      BY <3>2, <3>3, NoItems
    <3>5. choice = <<>>
      <4>1. choice \in Seq(1..0)
        BY <1>1, <3>3, <3>4, Start DEF RuleRanged, Ranged
      <4> QED BY <4>1
    <3>6. \A p \in 1..Len(grammar) : grammar[p].name # names[fin.at]
      BY <3>1, <3>3, <3>4 DEF Whole
    <3> QED BY <3>1, <3>2, <3>3, <3>5, <3>6
  <2>10. Tours(E)'
    <3> SUFFICES ASSUME NEW p \in 1..Len(grammar), FirstPass => IndexOf(names, grammar[p].name) < fin.at + 1
                 PROVE  Toured(grammar[p].node, E)'
      BY <1>1, <2>1, <2>2 DEF Tours
    <3>1. ASSUME FirstPass
          PROVE  IndexOf(names, grammar[p].name) < fin.at
      <4>1. grammar[p].name \in ToSet(names) /\ AnySeq(names)
        BY <1>1 DEF NamesInv, CalledOK, Called, GrammarInv
      <4> DEFINE i == IndexOf(names, grammar[p].name)
      <4>2. i \in 1..Len(names) /\ names[i] = grammar[p].name
        BY <4>1, IndexNamed
      <4>3. i # fin.at
        BY <2>9, <3>1, <4>2
      <4> QED BY <1>1, <3>1, <4>2, <4>3
    <3>2. Toured(grammar[p].node, E)
      BY <1>2, <3>1 DEF Tours
    <3> QED BY <1>1, <2>5, <3>2
  <2>11. RulesFound(E)'
    <3> SUFFICES ASSUME NEW i \in 1..Len(Root), Root[i].live, FirstPass => i < fin.at + 1
                 PROVE  /\ RuleFound(i, E)'
                        /\ Root[i].keep \/ Hopeful(i, E)' \/ (FirstPass /\ i \in fin.toPrune)
      BY <1>1, <2>1, <2>2 DEF RulesFound
    <3>1. (RuleFound(i, E) => RuleFound(i, E)') /\ (Hopeful(i, E) => Hopeful(i, E)')
      BY <1>1, RuleStays
    <3>2. CASE FirstPass /\ i = fin.at
      <4>1. PICK items, choice : items = Root[i].items /\ choice = Root[i].choice
        OBVIOUS
      <4>2. Len(items) = 0 /\ Len(choice) = 0 /\ Root[i].keep
        BY <2>9, <3>2, <4>1, NoItems
      <4>3. \A j \in 1..Len(items) : FALSE
        BY <4>2
      <4>4. RuleFound(i, E)
        BY <4>1, <4>3 DEF RuleFound
      <4> QED BY <3>1, <4>2, <4>4
    <3>3. CASE FirstPass => i < fin.at
      BY <1>2, <3>1, <3>3 DEF RulesFound
    <3> QED BY <1>1, <3>2, <3>3
  <2> QED BY <2>6, <2>7, <2>8, <2>10, <2>11 DEF PruneInv
<1> QED BY <1>1, <1>3, <1>4 DEF ReachRule

\* Rules and names when the call for n begins.
ItemGrowth(n) ==
  /\ Len(Root') = Len(names') /\ Len(Root) \in Nat /\ Len(Root') \in Nat /\ Len(Root) <= Len(Root')
  /\ ToSet(names) \subseteq ToSet(names') /\ Kept \subseteq Kept'
  /\ \A k \in 1..Len(Root) :
       /\ names'[k] = names[k]
       /\ Root[k].live => /\ Root'[k].live /\ (Root[k].keep => Root'[k].keep)
                          /\ Root'[k].items = Root[k].items /\ Root'[k].choice = Root[k].choice
  /\ \A k \in 1..Len(Root') :
       Root'[k].live => \/ k \in 1..Len(Root) /\ Root[k].live
                        \/ Root'[k].keep /\ Root'[k].items = <<>> /\ Root'[k].choice = <<>>
  /\ Item[n].kind \in Adders => Item[n].name \in ToSet(names') /\ Item[n].name \in Kept'

LEMMA PlainGrowth ==
  ASSUME GrammarInv, FinInv, UNCHANGED <<names, scopes>>, NEW n, Item[n].kind \notin Adders
  PROVE  ItemGrowth(n)
<1>1. Root' = Root /\ Len(Root) = Len(names) /\ Len(Root) \in Nat
  BY Start DEF Root
<1>2. Kept' = Kept
  BY <1>1, KeptStays
<1> QED BY <1>1, <1>2 DEF ItemGrowth

LEMMA AdderGrowth ==
  ASSUME GrammarInv, FinInv, NEW n, NEW i, AdderTurn(n, i)
  PROVE  ItemGrowth(n)
<1>1. PICK ns, rs, name, ns2, rs2 :
        ns = names /\ rs = Root /\ name = Item[n].name /\ ns2 = names' /\ rs2 = Root'
  OBVIOUS
<1>2. Introduced(ns, rs, name, ns2, rs2, i) /\ Item[n].kind \in Adders
  BY <1>1 DEF AdderTurn
<1>3. AnySeq(ns) /\ Len(rs) = Len(ns)
  BY <1>1, Start
<1>4. /\ Len(ns) \in Nat /\ Len(ns2) \in Nat /\ Len(ns) <= Len(ns2)
      /\ \A k \in 1..Len(ns) :
           /\ k \in 1..Len(ns2) /\ ns2[k] = ns[k] /\ (k # i => rs2[k] = rs[k])
           /\ rs[k].live => rs2[k].live /\ rs2[k].items = rs[k].items
           /\ rs[k].keep /\ rs[k].live => rs2[k].keep
           /\ rs[k].live => rs2[k].choice = rs[k].choice
      /\ ToSet(ns) \subseteq ToSet(ns2) /\ name \in ToSet(ns2)
  BY <1>2, <1>3, IntroducedStays
<1>5. /\ Len(rs2) = Len(ns2) /\ i \in 1..Len(ns2) /\ ns2[i] = name /\ rs2[i].live /\ rs2[i].keep
      /\ \A k \in 1..Len(ns2) : k # i => k \in 1..Len(ns) /\ rs2[k] = rs[k]
      /\ ~ (i \in 1..Len(ns) /\ rs[i].live) => rs2[i].items = <<>> /\ rs2[i].choice = <<>>
  BY <1>2 DEF Introduced
<1>6. \A k \in 1..Len(rs2) :
        rs2[k].live => \/ k \in 1..Len(rs) /\ rs[k].live
                       \/ rs2[k].keep /\ rs2[k].items = <<>> /\ rs2[k].choice = <<>>
  BY <1>3, <1>5
<1>7. Kept' = {ns2[k] : k \in {j \in 1..Len(rs2) : rs2[j].live /\ rs2[j].keep}}
  BY <1>1 DEF Kept
<1>8. Kept = {ns[k] : k \in {j \in 1..Len(rs) : rs[j].live /\ rs[j].keep}}
  BY <1>1 DEF Kept
<1>9. Kept \subseteq Kept'
  <2> SUFFICES ASSUME NEW x \in Kept PROVE x \in Kept'
    OBVIOUS
  <2>1. PICK k \in 1..Len(rs) : x = ns[k] /\ rs[k].live /\ rs[k].keep
    BY <1>8
  <2>2. k \in 1..Len(rs2) /\ rs2[k].live /\ rs2[k].keep /\ ns2[k] = x
    BY <1>3, <1>4, <1>5, <2>1
  <2> QED BY <1>7, <2>2
<1>10. name \in Kept'
  BY <1>5, <1>7
<1> QED BY <1>1, <1>2, <1>3, <1>4, <1>5, <1>6, <1>9, <1>10 DEF ItemGrowth

LEMMA AdderBuildable ==
  ASSUME GrammarInv, FinInv, NamesInv, NamesInv', NEW E, ToSet(names) \subseteq E, LateFree(E),
         PruneInv(E), NEW call, NEW n, ItemTurn(call, n), NEW i, AdderTurn(n, i)
  PROVE  BuildableLive'
<1>1. ItemGrowth(n) /\ grammar' = grammar /\ fin'.pass = "reach" /\ fin.pass = "reach"
      /\ fin'.depths = fin.depths /\ n \in Nodes /\ grammar \in Grammars /\ Item[n].kind \in Adders
  BY AdderGrowth DEF ItemTurn, GrammarInv, AdderTurn
<1>2. FirstPass' <=> FirstPass
  BY <1>1 DEF FirstPass
<1>3. CASE FirstPass
  <2>1. \A k \in 1..Len(Root') : Root'[k].live
    BY <1>1, <1>2, <1>3 DEF ItemGrowth, NamesInv, FirstOK
  <2> QED BY <2>1 DEF BuildableLive
<1>4. CASE ~FirstPass
  <2>1. Toured(n, E)
    BY <1>4, NeedsAreKnown
  <2>2. Item[n].name \in ToSet(names) /\ (Item[n].name \in Kept \/ Lost(Item[n].name, E))
    BY <1>1, <2>1, TouredIsFit DEF Fit, FitName
  <2>3. Given \subseteq E
    BY <1>1, GivenHaveNames
  <2>4. CASE Lost(Item[n].name, E)
    <3>1. Item[n].name \in Kept' \cap Given'
      BY <1>1, <2>4 DEF ItemGrowth, Lost, Given
    <3>2. SUFFICES ASSUME Vindicated' PROVE FALSE
      BY DEF BuildableLive
    <3>3. PICK c \in ToSet(grammar) : c.name = Item[n].name /\ Fulfilled(c.node, Given)
      <4>1. Given' = Given
        BY <1>1 DEF Given
      <4> QED BY <1>1, <3>1, <3>2, <4>1 DEF Vindicated
    <3>4. PICK p \in 1..Len(grammar) : grammar[p] = c
      BY <1>1, GrammarIsSeq, SeqFacts DEF ToSet
    <3>5. c.node \in Nodes
      BY <1>1, <3>4, UsedIsClosed
    <3>6. Fulfilled(grammar[p].node, E)
      BY <2>3, <3>3, <3>4, <3>5, MoreIsFulfilled
    <3> QED BY <2>4, <3>3, <3>4, <3>6 DEF Lost
  <2>5. CASE Item[n].name \in Kept
    <3>1. PICK ns, rs, name, ns2, rs2 :
            ns = names /\ rs = Root /\ name = Item[n].name /\ ns2 = names' /\ rs2 = Root'
      OBVIOUS
    <3>2. Introduced(ns, rs, name, ns2, rs2, i)
      BY <3>1 DEF AdderTurn
    <3>3. PICK k \in 1..Len(rs) : ns[k] = name /\ rs[k].live /\ rs[k].keep
      BY <2>5, <3>1, KeptIs
    <3>4. ns2 = ns /\ Len(rs2) = Len(rs)
      BY <2>2, <3>1, <3>2 DEF Introduced
    <3>5. Len(rs) = Len(ns)
      BY <3>1, Start
    <3>6. i \in 1..Len(ns) /\ ns[i] = name /\ rs2[i].live /\ rs2[i].keep
      BY <3>2, <3>4 DEF Introduced
    <3>7. i = k
      BY <3>1, <3>3, <3>5, <3>6 DEF NamesInv, Distinct
    <3>8. \A l \in 1..Len(rs) : rs2[l].live = rs[l].live /\ rs2[l].keep = rs[l].keep
      <4> SUFFICES ASSUME NEW l \in 1..Len(rs) PROVE rs2[l].live = rs[l].live /\ rs2[l].keep = rs[l].keep
        OBVIOUS
      <4>1. CASE l = i
        <5>1. RuleOK(Used, rs[i]) /\ TRUE
          BY <3>1, <3>5, <3>6, Start
        <5>2. rs[i].live /\ rs[i].keep /\ rs2[i].live /\ rs2[i].keep
          BY <3>3, <3>6, <3>7
        <5>3. (rs2[i].live <=> rs[i].live) /\ (rs2[i].keep <=> rs[i].keep)
          BY <5>2
        <5> QED BY <4>1, <5>2
      <4>2. CASE l # i
        <5>1. rs2[l] = rs[l]
          BY <3>2, <3>4, <3>5, <4>2 DEF Introduced
        <5> QED BY <5>1
      <4> QED BY <4>1, <4>2
    <3>9. \A l \in 1..Len(Root) : Root'[l].live = Root[l].live /\ Root'[l].keep = Root[l].keep
      BY <3>1, <3>8
    <3>10. names' = names /\ Len(Root') = Len(Root)
      BY <3>1, <3>4
    <3>11. Kept' = Kept
      BY <3>9, <3>10, KeptStays
    <3> QED BY <1>1, <3>9, <3>10, <3>11, BuildableStays DEF PruneInv
  <2> QED BY <2>2, <2>4, <2>5
<1> QED BY <1>3, <1>4

LEMMA ReachItemExact ==
  ASSUME GrammarInv, FinInv, NamesInv, NamesInv', DepthInv, NEW E, ToSet(names') \subseteq E, LateFree(E),
         PruneInv(E), ReachItem
  PROVE  PruneInv(E)'
<1>1. PICK call, n : ItemTurn(call, n)
  BY ReachItemIs
<1>2. /\ Len(visits) \in Nat \ {0} /\ n \in Nodes /\ fin.pass = "reach" /\ fin.at \in 1..Len(Root)
      /\ Root[fin.at].live /\ Len(visits') = Len(visits) + 1 /\ visits'[1] = Visit(n)
      /\ \A k \in 1..Len(visits) : visits'[k + 1] = visits[k]
      /\ fin'.pass = "reach" /\ fin'.at = fin.at /\ fin'.toPrune = fin.toPrune /\ fin'.depths = fin.depths
      /\ UNCHANGED <<grammar, inline>>
  BY <1>1 DEF ItemTurn
<1>3. ItemGrowth(n)
  <2>1. CASE Item[n].kind \notin Adders /\ UNCHANGED <<names, scopes>>
    BY <2>1, PlainGrowth
  <2>2. CASE \E i : AdderTurn(n, i)
    BY <2>2, AdderGrowth
  <2> QED BY <1>1, <2>1, <2>2 DEF ItemTurn
<1>4. /\ Len(Root') = Len(names') /\ Len(Root) \in Nat /\ Len(Root') \in Nat /\ Len(Root) <= Len(Root')
      /\ ToSet(names) \subseteq ToSet(names') /\ Kept \subseteq Kept'
  BY <1>3 DEF ItemGrowth
<1>5. ToSet(names) \subseteq E /\ Len(Root) = Len(names)
  BY <1>4, Start
<1>6. FirstPass' <=> FirstPass
  BY <1>2 DEF FirstPass
<1>7. BuildableLive'
  <2>1. CASE UNCHANGED <<names, scopes>>
    <3>1. Root' = Root
      BY <2>1 DEF Root
    <3>2. Kept' = Kept
      BY <2>1, <3>1, KeptStays
    <3> QED BY <1>2, <2>1, <3>1, <3>2, BuildableStays DEF PruneInv
  <2>2. ASSUME NEW i, AdderTurn(n, i)
        PROVE  BuildableLive'
    BY <1>1, <1>5, <2>2, AdderBuildable
  <2> QED BY <1>1, <2>1, <2>2 DEF ItemTurn
<1>8. Needs(n) \cap E \subseteq ToSet(names) /\ (~FirstPass => Toured(n, E))
  BY <1>1, <1>5, NeedsAreKnown
<1>9. \A m \in Nodes : FitName(m, E) => FitName(m, E)'
  BY <1>2, <1>4, FitNameStays
<1>10. \A m \in Nodes : Fit(m, E) => Fit(m, E)'
  BY <1>2, <1>9, FitChoiceStays DEF Fit
<1>11. \A m : Toured(m, E) => Toured(m, E)'
  BY <1>10, TouredStays
<1>12. \A name : Lost(name, E)' <=> Lost(name, E)
  BY <1>2, LostStays
<1>13. CallsFit(E)'
  <2>1. Asked(n, E)'
    <3>1. Needs(n)' = Needs(n)
      BY <1>2, NeedsStay
    <3>2. FitName(n, E)'
      BY <1>3 DEF ItemGrowth, FitName
    <3> QED BY <1>4, <1>6, <1>8, <1>11, <3>1, <3>2 DEF Asked
  <2>2. PICK new : new = Visit(n)
    OBVIOUS
  <2>3. new.node = n /\ new.at = 1 /\ new.choice = <<>>
    BY <2>2 DEF Visit
  <2>4. Len(new.choice) = new.at - 1 /\ \A j \in 1..(new.at - 1) : FALSE
    BY <2>3, NoItems
  <2>5. CallFits(new, E)'
    BY <2>1, <2>3, <2>4 DEF CallFits, Found, ItemsToured
  <2>6. ASSUME NEW k \in 1..Len(visits)
        PROVE  CallFits(visits[k + 1], E)'
    <3>1. PICK c : c = visits[k]
      OBVIOUS
    <3>2. CallFits(c, E) /\ CallOK(c)
      BY <3>1 DEF PruneInv, CallsFit, FinInv, VisitsOK
    <3>3. c.node # NoNode => c.node \in Nodes
      <4>1. Used \subseteq Nodes
        BY Start
      <4> QED BY <3>2, <4>1 DEF CallOK
    <3>4. RootItems(fin.at)' = RootItems(fin.at)
      BY <1>2, <1>3 DEF ItemGrowth, RootItems
    <3>5. VisitItems(c)' = VisitItems(c)
      BY <3>4 DEF VisitItems
    <3>6. \A j \in 1..(c.at - 1) : VisitItems(c)'[j] = VisitItems(c)[j]
      BY <3>5
    <3>7. CallFits(c, E)'
      BY <1>2, <1>4, <1>6, <1>9, <1>10, <3>2, <3>3, <3>6, CallStaysFit
    <3>8. visits[k + 1]' = c
      BY <1>2, <3>1
    <3> QED BY <3>7, <3>8
  <2>7. \A k \in 1..Len(visits') : k = 1 \/ (k - 1 \in 1..Len(visits) /\ (k - 1) + 1 = k)
    BY <1>2
  <2>8. CallFits(visits[1], E)'
    <3>1. visits[1]' = new
      BY <1>2, <2>2
    <3> QED BY <2>5, <3>1
  <2> QED BY <1>2, <2>6, <2>7, <2>8 DEF CallsFit
<1>14. Tours(E)'
  <2> SUFFICES ASSUME NEW p \in 1..Len(grammar), FirstPass => IndexOf(names', grammar[p].name) < fin.at
               PROVE  Toured(grammar[p].node, E)'
    BY <1>2, <1>6 DEF Tours
  <2>1. grammar[p].name \in ToSet(names) /\ AnySeq(names) /\ grammar[p].name \in ToSet(names')
    BY <1>2, <1>4 DEF NamesInv, CalledOK, Called, GrammarInv
  <2> DEFINE i == IndexOf(names, grammar[p].name)
             j == IndexOf(names', grammar[p].name)
  <2>2. i \in 1..Len(names) /\ names[i] = grammar[p].name
    BY <2>1, IndexNamed
  <2>3. ASSUME FirstPass
        PROVE  i < fin.at
    <3>1. AnySeq(names')
      <4>1. CASE UNCHANGED <<names, scopes>>
        BY <2>1, <4>1
      <4>2. ASSUME NEW l, AdderTurn(n, l)
            PROVE  AnySeq(names')
        BY <4>2 DEF AdderTurn, Introduced
      <4> QED BY <1>1, <4>1, <4>2 DEF ItemTurn
    <3>2. j \in 1..Len(names') /\ names'[j] = grammar[p].name
      BY <2>1, <3>1, IndexNamed
    <3>3. i \in 1..Len(names') /\ names'[i] = names[i]
      BY <1>3, <1>4, <1>5, <2>2 DEF ItemGrowth
    <3>4. i = j
      BY <2>2, <3>2, <3>3 DEF NamesInv, Distinct
    <3> QED BY <2>3, <3>4
  <2>4. Toured(grammar[p].node, E)
    BY <2>3 DEF PruneInv, Tours
  <2> QED BY <1>2, <1>11, <2>4
<1>15. RulesFound(E)'
  <2> SUFFICES ASSUME NEW i \in 1..Len(Root'), Root'[i].live, FirstPass => i < fin.at
               PROVE  /\ RuleFound(i, E)'
                      /\ Root'[i].keep \/ Hopeful(i, E)' \/ (FirstPass /\ i \in fin.toPrune)
    BY <1>2, <1>6 DEF RulesFound
  <2>1. CASE i \in 1..Len(Root) /\ Root[i].live
    <3>1. /\ RuleFound(i, E)
          /\ Root[i].keep \/ Hopeful(i, E) \/ (FirstPass /\ i \in fin.toPrune)
      BY <2>1 DEF PruneInv, RulesFound
    <3>2. /\ Root'[i].items = Root[i].items /\ Root'[i].choice = Root[i].choice
          /\ Root[i].keep => Root'[i].keep
      BY <1>3, <2>1 DEF ItemGrowth
    <3>3. (RuleFound(i, E) => RuleFound(i, E)') /\ (Hopeful(i, E) => Hopeful(i, E)')
      BY <3>2, RuleStays
    <3> QED BY <3>1, <3>2, <3>3
  <2>2. CASE Root'[i].keep /\ Root'[i].items = <<>> /\ Root'[i].choice = <<>>
    <3>1. PICK items, choice : items = Root'[i].items /\ choice = Root'[i].choice
      OBVIOUS
    <3>2. \A j \in 1..Len(items) : FALSE
      BY <2>2, <3>1, NoItems
    <3>3. RuleFound(i, E)'
      BY <3>1, <3>2 DEF RuleFound
    <3> QED BY <2>2, <3>3
  <2> QED BY <1>3, <2>1, <2>2 DEF ItemGrowth
<1>16. PrunesLost(E)'
  <2>1. \A i \in fin.toPrune : names'[i] = names[i]
    BY <1>3, <1>5 DEF ItemGrowth, NamesInv, PrunesGiven
  <2> QED BY <1>2, <1>6, <1>12, <2>1 DEF PruneInv, PrunesLost
<1>17. DeadDepths'
  <2> SUFFICES ASSUME NEW i \in DOMAIN fin.depths, ~Root'[i].live
               PROVE  fin.depths[i] \in {-1, Inf}
    BY <1>2 DEF DeadDepths
  <2>1. i \in 1..Len(Root)
    BY <1>4 DEF DepthInv, DepthsOK
  <2>2. ~Root[i].live
    BY <1>3, <2>1 DEF ItemGrowth
  <2> QED BY <2>2 DEF PruneInv, DeadDepths
<1> QED BY <1>7, <1>13, <1>14, <1>15, <1>16, <1>17 DEF PruneInv

\* One more item is found to be reachable, or not.
LEMMA OneMoreFound ==
  ASSUME NEW pos \in Nat \ {0}, NEW choice \in Seq(1..(pos - 1)), Len(choice) <= pos - 1, NEW T,
         \A j \in 1..(pos - 1) : j \in ToSet(choice) <=> j \in T,
         Len(choice) = pos - 1 => \A j \in 1..(pos - 1) : choice[j] = j,
         (\A j \in 1..(pos - 1) : j \in T) => Len(choice) = pos - 1,
         NEW more, pos \in T => more = Append(choice, pos), pos \notin T => more = choice
  PROVE  /\ \A j \in 1..pos : j \in ToSet(more) <=> j \in T
         /\ Len(more) = pos => \A j \in 1..pos : more[j] = j
         /\ (\A j \in 1..pos : j \in T) => Len(more) = pos
<1>1. \A j \in 1..pos : j = pos \/ j \in 1..(pos - 1)
  OBVIOUS
<1>2. Len(choice) \in Nat /\ ToSet(choice) = {choice[a] : a \in 1..Len(choice)}
  BY DEF ToSet
<1>3. \A j \in ToSet(choice) : j \in 1..(pos - 1)
  BY <1>2
<1>4. CASE pos \in T
  <2>1. /\ Len(more) = Len(choice) + 1 /\ more[Len(choice) + 1] = pos
        /\ \A a \in 1..Len(choice) : more[a] = choice[a]
    BY <1>4
  <2>2. ToSet(more) = {more[a] : a \in 1..(Len(choice) + 1)}
    <3>1. more \in Seq(Nat)
      BY <1>4
    <3>2. DOMAIN more = 1..(Len(choice) + 1)
      BY <2>1, <3>1
    <3> QED BY <3>2 DEF ToSet
  <2>3. \A a \in 1..(Len(choice) + 1) : a = Len(choice) + 1 \/ a \in 1..Len(choice)
    BY <1>2
  <2>4. \A j : j \in ToSet(more) <=> j = pos \/ j \in ToSet(choice)
    <3>1. pos \in ToSet(more)
      BY <1>2, <2>1, <2>2
    <3>2. \A j \in ToSet(choice) : j \in ToSet(more)
      BY <1>2, <2>1, <2>2
    <3>3. \A j \in ToSet(more) : j = pos \/ j \in ToSet(choice)
      BY <1>2, <2>1, <2>2, <2>3
    <3> QED BY <3>1, <3>2, <3>3
  <2>5. \A j \in 1..pos : j \in ToSet(more) <=> j \in T
    BY <1>1, <1>4, <2>4
  <2>6. ASSUME Len(more) = pos
        PROVE  \A j \in 1..pos : more[j] = j
    <3>1. Len(choice) = pos - 1
      BY <1>2, <2>1, <2>6
    <3> QED BY <1>1, <2>1, <3>1
  <2>7. (\A j \in 1..pos : j \in T) => Len(more) = pos
    BY <2>1
  <2> QED BY <2>5, <2>6, <2>7
<1>5. CASE pos \notin T
  <2>1. more = choice /\ pos \notin ToSet(choice)
    BY <1>3, <1>5
  <2>2. ~ (Len(more) = pos) /\ ~ (\A j \in 1..pos : j \in T)
    BY <1>2, <1>5, <2>1
  <2>3. \A j \in 1..pos : j \in ToSet(more) <=> j \in T
    BY <1>1, <1>5, <2>1
  <2> QED BY <2>2, <2>3
<1> QED BY <1>4, <1>5

LEMMA ReachReturnExact ==
  ASSUME GrammarInv, FinInv, NamesInv, NEW E, ToSet(names) \subseteq E, PruneInv(E), ReachReturn
  PROVE  PruneInv(E)'
<1>1. PICK call, outer, n : ReturnTurn(call, outer, n)
  BY ReachReturnIs
<1>2. /\ Len(visits) \in Nat /\ Len(visits) >= 2 /\ call = visits[1] /\ outer = visits[2]
      /\ n = call.node /\ n \in Nodes /\ n # NoNode /\ Visited(call)
      /\ CallOK(call) /\ CallOK(outer) /\ VisitItems(call) = Item[n].kids
      /\ outer.at \in 1..Len(VisitItems(outer)) /\ n = VisitItems(outer)[outer.at]
      /\ Len(visits') = Len(visits) - 1
      /\ visits'[1].node = outer.node /\ visits'[1].at = outer.at + 1
      /\ visits'[1].choice = (IF Verdict(call) THEN Append(outer.choice, outer.at) ELSE outer.choice)
      /\ \A k \in 2..(Len(visits) - 1) : visits'[k] = visits[k + 1]
      /\ \A m \in OrNodes : inline'[m].choice = IF m = n THEN call.choice ELSE inline[m].choice
      /\ UNCHANGED <<grammar, names, scopes, fin>>
  BY <1>1 DEF ReturnTurn
<1>3. Root' = Root /\ Used \subseteq Nodes
  BY <1>2, Start DEF Root
<1>4. Kept' = Kept
  BY <1>2, <1>3, KeptStays
<1>5. CallFits(call, E) /\ CallFits(outer, E)
  BY <1>2 DEF PruneInv, CallsFit
<1>6. /\ Verdict(call) <=> Fulfilled(n, E)
      /\ \A k \in Open(n, E) : Toured(Item[n].kids[k], E)
      /\ Item[n].kind = "or" =>
           \A j \in 1..Len(Item[n].kids) : j \in ToSet(call.choice) <=> Fulfilled(Item[n].kids[j], E)
  BY <1>2, <1>5, CallFinds
<1>7. \A m \in Nodes : FitName(m, E) => FitName(m, E)'
  BY <1>2, <1>4, FitNameStays
<1>8. FitChoice(n, E)'
  <2>1. Item[n].kind = "or" => inline'[n].choice = call.choice
    BY <1>2 DEF OrNodes
  <2>2. CASE Item[n].kind = "or"
    <3>1. PICK c : c = call.choice
      OBVIOUS
    <3>2. inline'[n].choice = c
      BY <2>1, <2>2, <3>1
    <3> QED BY <1>6, <2>2, <3>1, <3>2 DEF FitChoice
  <2>3. CASE Item[n].kind # "or"
    BY <2>3 DEF FitChoice
  <2> QED BY <2>2, <2>3
<1>9. \A m \in Nodes : Fit(m, E) => Fit(m, E)'
  <2> SUFFICES ASSUME NEW m \in Nodes, Fit(m, E) PROVE Fit(m, E)'
    OBVIOUS
  <2>1. CASE m = n
    BY <1>7, <1>8, <2>1 DEF Fit
  <2>2. CASE m # n
    <3>1. m \in OrNodes => inline'[m].choice = inline[m].choice
      BY <1>2, <2>2
    <3>2. FitChoice(m, E)'
      BY <3>1, FitChoiceStays DEF Fit
    <3> QED BY <1>7, <3>2 DEF Fit
  <2> QED BY <2>1, <2>2
<1>10. Toured(n, E)'
  <2>1. Fit(n, E)'
    <3>1. FitName(n, E)
      BY <1>2, <1>5 DEF CallFits, Asked
    <3> QED BY <1>2, <1>7, <1>8, <3>1 DEF Fit
  <2> QED BY <1>2, <1>6, <1>9, <2>1, ToursJoin
<1>11. FirstPass' <=> FirstPass
  BY <1>2 DEF FirstPass
<1>12. Tours(E)' /\ RulesFound(E)' /\ BuildableLive'
  BY <1>2, <1>3, <1>9, <1>11, SettledStep DEF PruneInv
<1>13. PrunesLost(E)' /\ DeadDepths'
  <2>1. \A name : Lost(name, E)' <=> Lost(name, E)
    BY <1>2, LostStays
  <2> QED BY <1>2, <1>3, <1>11, <2>1 DEF PruneInv, PrunesLost, DeadDepths
<1>14. \A c : VisitItems(c)' = VisitItems(c)
  BY <1>2, <1>3 DEF VisitItems, RootItems
<1>15. ASSUME NEW c, CallFits(c, E), CallOK(c)
       PROVE  CallFits(c, E)'
  <2>1. c.node # NoNode => c.node \in Nodes
    BY <1>3, <1>15 DEF CallOK
  <2>2. \A j \in 1..(c.at - 1) : VisitItems(c)'[j] = VisitItems(c)[j]
    BY <1>14
  <2> QED BY <1>2, <1>7, <1>9, <1>11, <1>15, <2>1, <2>2, CallStaysFit
<1>16. CallFits(visits[1], E)'
  <2>1. PICK c : c = visits'[1]
    OBVIOUS
  <2>2. /\ c.node = outer.node /\ c.at = outer.at + 1
        /\ c.choice = (IF Verdict(call) THEN Append(outer.choice, outer.at) ELSE outer.choice)
    BY <1>2, <2>1
  <2>3. CallFits(outer, E)'
    BY <1>2, <1>5, <1>15
  <2>4. VisitItems(c)' = VisitItems(outer)
    <3>1. VisitItems(c) = VisitItems(outer)
      BY <2>2 DEF VisitItems
    <3> QED BY <1>14, <3>1
  <2>5. /\ outer.at \in Nat \ {0} /\ outer.choice \in Seq(1..(outer.at - 1)) /\ Len(outer.choice) <= outer.at - 1
        /\ c.at - 1 = outer.at
    <3>1. Len(VisitItems(outer)) \in Nat
      BY <1>2, TopCall
    <3> QED BY <1>2, <2>2, <3>1 DEF CallOK
  <2> DEFINE T == {j \in 1..outer.at : Fulfilled(VisitItems(outer)[j], E)}
  <2>6. Found(c, E)'
    <3>1. PICK pos, choice, more, t : pos = outer.at /\ choice = outer.choice /\ more = c.choice /\ t = T
      OBVIOUS
    <3>2. \A j \in 1..pos : j \in t <=> Fulfilled(VisitItems(outer)[j], E)
      BY <3>1
    <3>3. \A j \in 1..(pos - 1) : j \in 1..pos
      BY <2>5, <3>1
    <3>4. /\ \A j \in 1..(pos - 1) : j \in ToSet(choice) <=> j \in t
          /\ Len(choice) = pos - 1 => \A j \in 1..(pos - 1) : choice[j] = j
          /\ (\A j \in 1..(pos - 1) : j \in t) => Len(choice) = pos - 1
      <4>1. Found(outer, E)
        BY <1>5 DEF CallFits
      <4> HIDE DEF T
      <4> QED BY <3>1, <3>2, <3>3, <4>1 DEF Found
    <3>5. (pos \in t => more = Append(choice, pos)) /\ (pos \notin t => more = choice)
      <4>1. pos \in 1..pos
        BY <2>5, <3>1
      <4>2. pos \in t <=> Verdict(call)
        BY <1>2, <1>6, <3>1, <3>2, <4>1
      <4> QED BY <2>2, <3>1, <4>2
    <3>6. /\ \A j \in 1..pos : j \in ToSet(more) <=> j \in t
          /\ Len(more) = pos => \A j \in 1..pos : more[j] = j
          /\ (\A j \in 1..pos : j \in t) => Len(more) = pos
      <4>1. pos \in Nat \ {0} /\ choice \in Seq(1..(pos - 1)) /\ Len(choice) <= pos - 1
        BY <2>5, <3>1
      <4> HIDE DEF T
      <4> QED BY <3>4, <3>5, <4>1, OneMoreFound
    <3>7. \A j \in 1..pos : j \in t <=> Fulfilled(VisitItems(c)'[j], E)
      BY <2>4, <3>2
    <3> HIDE DEF T
    <3> QED BY <2>5, <3>1, <3>6, <3>7 DEF Found
  <2>7. ItemsToured(c, E)'
    <3> SUFFICES ASSUME NEW j \in 1..outer.at PROVE Toured(VisitItems(c)[j], E)'
      BY <2>5 DEF ItemsToured
    <3>1. PICK m : m = VisitItems(outer)[j]
      OBVIOUS
    <3>2. Toured(m, E)'
      <4>1. CASE j = outer.at
        BY <1>2, <1>10, <3>1, <4>1
      <4>2. CASE j # outer.at
        <5>1. j \in 1..(outer.at - 1)
          BY <2>5, <4>2
        <5>2. Toured(m, E)
          BY <1>5, <3>1, <5>1 DEF CallFits, ItemsToured
        <5> QED BY <1>9, <5>2, TouredStays
      <4> QED BY <4>1, <4>2
    <3> QED BY <2>4, <3>1, <3>2
  <2>8. Asked(c.node, E)'
    BY <2>2, <2>3 DEF CallFits
  <2> QED BY <2>1, <2>6, <2>7, <2>8 DEF CallFits
<1>17. ASSUME NEW k \in 2..(Len(visits) - 1)
       PROVE  CallFits(visits[k], E)'
  <2>1. PICK c : c = visits[k + 1]
    OBVIOUS
  <2>2. k + 1 \in 1..Len(visits)
    BY <1>2
  <2>3. CallFits(c, E) /\ CallOK(c)
    BY <2>1, <2>2 DEF PruneInv, CallsFit, FinInv, VisitsOK
  <2>4. visits'[k] = c
    BY <1>2, <2>1
  <2> QED BY <1>15, <2>3, <2>4
<1>18. CallsFit(E)'
  <2>1. \A k \in 1..Len(visits') : k = 1 \/ k \in 2..(Len(visits) - 1)
    BY <1>2
  <2> QED BY <1>16, <1>17, <2>1 DEF CallsFit
<1> QED BY <1>12, <1>13, <1>18 DEF PruneInv

LEMMA RuleEndExact ==
  ASSUME GrammarInv, FinInv, NamesInv, DepthInv, NEW E, ToSet(names) \subseteq E, PruneInv(E), ReachRuleEnd
  PROVE  PruneInv(E)'
<1>1. PICK i, call : RuleEnded(i, call)
  BY RuleEndIs
<1>2. /\ fin.pass = "reach" /\ i = fin.at /\ i \in 1..Len(Root) /\ Root[i].live
      /\ call = visits[1] /\ CallOK(call) /\ call.node = NoNode /\ call.at = Len(Root[i].items) + 1
      /\ visits # <<>> /\ Len(visits) = 1
      /\ fin'.pass = "reach" /\ fin'.at = i + 1 /\ fin'.depths = fin.depths
      /\ fin'.toPrune = (IF Root[i].keep \/ call.choice # <<>> THEN fin.toPrune ELSE fin.toPrune \cup {i})
      /\ visits' = <<>> /\ UNCHANGED <<grammar, names, inline>>
      /\ Len(Root') = Len(Root)
      /\ \A k \in 1..Len(Root) :
           /\ Root'[k].live = Root[k].live /\ Root'[k].keep = Root[k].keep
           /\ Root'[k].items = Root[k].items
           /\ Root'[k].choice = IF k = i THEN call.choice ELSE Root[k].choice
  BY <1>1 DEF RuleEnded
<1>3. /\ Len(Root) = Len(names) /\ Len(Root) \in Nat /\ AnySeq(names) /\ grammar \in Grammars
      /\ fin.at \in Nat
  BY Start DEF GrammarInv
<1>4. Tours(E) /\ RulesFound(E) /\ BuildableLive /\ PrunesLost(E) /\ DeadDepths /\ CallFits(call, E)
  BY <1>2 DEF PruneInv, CallsFit
<1>5. Kept' = Kept
  BY <1>2, KeptStays
<1>6. FirstPass' <=> FirstPass
  BY <1>2 DEF FirstPass
<1>7. \A n : Toured(n, E) => Toured(n, E)'
  <2>1. \A n \in Nodes : Fit(n, E) => Fit(n, E)'
    BY <1>2, <1>5, FitStays
  <2> QED BY <2>1, TouredStays
<1>8. \A name : Lost(name, E)' <=> Lost(name, E)
  BY <1>2, LostStays
<1>9. BuildableLive'
  BY <1>2, <1>4, <1>5, BuildableStays
<1>10. CallsFit(E)'
  BY <1>2, NoItems DEF CallsFit
<1>11. DeadDepths'
  <2> SUFFICES ASSUME NEW k \in DOMAIN fin.depths, ~Root'[k].live PROVE fin.depths[k] \in {-1, Inf}
    BY <1>2 DEF DeadDepths
  <2>1. k \in 1..Len(Root)
    BY <1>3 DEF DepthInv, DepthsOK
  <2> QED BY <1>2, <1>4, <2>1 DEF DeadDepths
\* What the call found of the items of the rule.
<1>12. PICK items, n : items = Root[i].items /\ n = Len(items)
  OBVIOUS
<1>13. n \in Nat /\ call.at - 1 = n
  <2>1. AnySeq(items)
    BY <1>2, <1>12, Start DEF RuleOK, AnySeq
  <2>2. n \in Nat
    BY <1>12, <2>1, SeqFacts
  <2> QED BY <1>2, <1>12, <2>2
<1>14. \A j \in 1..n : VisitItems(call)[j] = items[j].node
  BY <1>2, <1>12, VisitItemsAre DEF FinInv
<1>15. /\ \A j \in 1..n : j \in ToSet(call.choice) <=> Fulfilled(items[j].node, E)
       /\ Len(call.choice) = n => \A j \in 1..n : call.choice[j] = j
       /\ \A j \in 1..n : Toured(items[j].node, E)
  BY <1>4, <1>13, <1>14 DEF CallFits, Found, ItemsToured
<1>16. RuleFound(i, E)'
  <2>1. PICK items2, choice2 : items2 = Root'[i].items /\ choice2 = Root'[i].choice
    OBVIOUS
  <2>2. items2 = items /\ choice2 = call.choice
    BY <1>2, <1>12, <2>1
  <2> QED BY <1>12, <1>15, <2>1, <2>2 DEF RuleFound
<1>17. Hopeful(i, E) <=> \E j \in 1..n : Fulfilled(items[j].node, E)
  BY <1>12 DEF Hopeful
<1>18. call.choice # <<>> <=> Hopeful(i, E)
  <2>1. PICK choice : choice = call.choice
    OBVIOUS
  <2>2. choice \in Seq(1..n)
    BY <1>2, <1>13, <2>1 DEF CallOK
  <2>3. choice # <<>> => choice[1] \in ToSet(choice) /\ choice[1] \in 1..n
    <3>1. choice # <<>> => 1 \in DOMAIN choice /\ 1 \in 1..Len(choice)
      BY <2>2
    <3>2. PICK S : S = 1..n
      OBVIOUS
    <3>3. choice \in Seq(S)
      BY <2>2, <3>2
    <3>4. choice # <<>> => choice[1] \in S
      BY <3>1, <3>3
    <3> QED BY <3>1, <3>2, <3>4 DEF ToSet
  <2>4. choice = <<>> => ToSet(choice) = {}
    BY DEF ToSet
  <2> QED BY <1>15, <1>17, <2>1, <2>3, <2>4
<1>19. ASSUME NEW k
       PROVE  k \in fin'.toPrune => k \in fin.toPrune \/ (k = i /\ ~Root[i].keep /\ ~Hopeful(i, E))
  BY <1>2, <1>18
<1>20. Root[i].keep \/ Hopeful(i, E) \/ i \in fin'.toPrune
  BY <1>2, <1>18
<1>21. ~FirstPass => Root[i].keep \/ Hopeful(i, E)
  BY <1>2, <1>4 DEF RulesFound
<1>22. Root[i].keep \/ Whole(names[i], items, Len(grammar))
  BY <1>2, <1>3, <1>12 DEF NamesInv, RulesAre, Called
<1>23. PrunesLost(E)'
  <2>1. ASSUME ~FirstPass
        PROVE  fin'.toPrune = {}
    <3>1. fin.toPrune = {}
      BY <1>2, <1>4, <2>1 DEF PrunesLost
    <3>2. ASSUME NEW k \in fin'.toPrune PROVE FALSE
      BY <1>19, <1>21, <2>1, <3>1, <3>2
    <3> QED BY <3>2
  <2>2. ASSUME NEW k \in fin'.toPrune
        PROVE  Lost(names[k], E)
    <3>1. CASE k \in fin.toPrune
      BY <1>2, <1>4, <3>1 DEF PrunesLost
    <3>2. CASE k = i /\ ~Root[i].keep /\ ~Hopeful(i, E)
      <4>1. names[i] \in Given
        BY <1>2, <1>3, <3>2 DEF NamesInv, OwnNames
      <4>2. ASSUME NEW p \in 1..Len(grammar), grammar[p].name = names[i]
            PROVE  ~Fulfilled(grammar[p].node, E)
        <5>1. PICK j \in 1..n : items[j].node = grammar[p].node
          BY <1>12, <1>22, <3>2, <4>2 DEF Whole
        <5> QED BY <1>17, <3>2, <5>1
      <4> QED BY <3>2, <4>1, <4>2 DEF Lost
    <3> QED BY <1>19, <3>1, <3>2
  <2> QED BY <1>2, <1>6, <1>8, <2>1, <2>2 DEF PrunesLost
<1>24. Tours(E)'
  <2> SUFFICES ASSUME NEW p \in 1..Len(grammar), FirstPass => IndexOf(names, grammar[p].name) < i + 1
               PROVE  Toured(grammar[p].node, E)'
    BY <1>2, <1>6 DEF Tours
  <2>1. Toured(grammar[p].node, E)
    <3>1. CASE FirstPass => IndexOf(names, grammar[p].name) < i
      BY <1>2, <1>4, <3>1 DEF Tours
    <3>2. CASE FirstPass /\ ~ (IndexOf(names, grammar[p].name) < i)
      <4>1. grammar[p].name \in ToSet(names)
        BY <1>2 DEF NamesInv, CalledOK, Called
      <4> DEFINE k == IndexOf(names, grammar[p].name)
      <4>2. k \in 1..Len(names) /\ names[k] = grammar[p].name
        BY <1>3, <4>1, IndexNamed
      <4>3. k = i
        BY <1>2, <1>3, <3>2, <4>2
      <4>4. Whole(names[i], items, Len(grammar))
        BY <1>2, <1>3, <1>12, <3>2 DEF NamesInv, FirstOK, Called
      <4>5. PICK j \in 1..n : items[j].node = grammar[p].node
        BY <1>12, <4>2, <4>3, <4>4 DEF Whole
      <4> QED BY <1>15, <4>5
    <3> QED BY <3>1, <3>2
  <2> QED BY <1>2, <1>7, <2>1
<1>25. RulesFound(E)'
  <2> SUFFICES ASSUME NEW k \in 1..Len(Root), Root[k].live, FirstPass => k < i + 1
               PROVE  /\ RuleFound(k, E)'
                      /\ Root[k].keep \/ Hopeful(k, E)' \/ (FirstPass /\ k \in fin'.toPrune)
    BY <1>2, <1>6 DEF RulesFound
  <2>1. Hopeful(k, E) => Hopeful(k, E)'
    BY <1>2 DEF Hopeful
  <2>2. CASE k = i
    BY <1>16, <1>20, <1>21, <2>1, <2>2
  <2>3. CASE k # i
    <3>1. FirstPass => k < fin.at
      BY <1>2, <1>3, <2>3
    <3>2. /\ RuleFound(k, E)
          /\ Root[k].keep \/ Hopeful(k, E) \/ (FirstPass /\ k \in fin.toPrune)
      BY <1>4, <3>1 DEF RulesFound
    <3>3. RuleFound(k, E)'
      BY <1>2, <2>3, <3>2, RuleStays
    <3>4. k \in fin.toPrune => k \in fin'.toPrune
      BY <1>2
    <3> QED BY <2>1, <3>2, <3>3, <3>4
  <2> QED BY <2>2, <2>3
<1> QED BY <1>9, <1>10, <1>11, <1>23, <1>24, <1>25 DEF PruneInv

\* Rules are pruned after a pass of Reach or after the rounds of RefDepth.
LEMMA PruningStep ==
  ASSUME NEW E, NEW S, grammar' = grammar, names' = names,
         \A n \in OrNodes : inline'[n].choice = inline[n].choice, Len(Root') = Len(Root),
         \A i \in 1..Len(Root) : Root'[i] = IF i \in S THEN NoRule ELSE Root[i],
         \A i \in S : i \in 1..Len(Root) /\ (Root[i].live /\ Root[i].keep => Lost(names[i], E)),
         \A p \in 1..Len(grammar) : Toured(grammar[p].node, E),
         \A i \in 1..Len(Root) :
           i \notin S /\ Root[i].live => RuleFound(i, E) /\ (Root[i].keep \/ Hopeful(i, E))
  PROVE  Tours(E)' /\ RulesFound(E)' /\ Kept' \subseteq Kept
<1>1. ~NoRule.live
  BY DEF NoRule, Or
<1>2. \A i \in 1..Len(Root) : Root'[i].live => i \notin S /\ Root'[i] = Root[i] /\ Root[i].live
  BY <1>1
<1>3. Kept' \subseteq Kept
  <2> SUFFICES ASSUME NEW name \in Kept' PROVE name \in Kept
    OBVIOUS
  <2>1. PICK i \in 1..Len(Root') : name = names'[i] /\ Root'[i].live /\ Root'[i].keep
    BY DEF Kept
  <2>2. i \in 1..Len(Root) /\ names[i] = name /\ Root[i].live /\ Root[i].keep
    BY <1>2, <2>1
  <2> QED BY <2>2, KeptIs
<1>4. \A name \in Kept : name \in Kept' \/ Lost(name, E)
  <2> SUFFICES ASSUME NEW name \in Kept, ~Lost(name, E) PROVE name \in Kept'
    OBVIOUS
  <2>1. PICK i \in 1..Len(Root) : names[i] = name /\ Root[i].live /\ Root[i].keep
    BY KeptIs
  <2>2. i \notin S
    BY <2>1
  <2>3. i \in 1..Len(Root') /\ names'[i] = name /\ Root'[i].live /\ Root'[i].keep
    BY <2>1, <2>2
  <2> QED BY <2>3 DEF Kept
<1>5. \A n \in Nodes : Fit(n, E) => Fit(n, E)'
  BY <1>4, FitStays
<1>6. Tours(E)'
  <2>1. \A n : Toured(n, E) => Toured(n, E)'
    BY <1>5, TouredStays
  <2>2. \A p \in 1..Len(grammar) : Toured(grammar[p].node, E)'
    <3> SUFFICES ASSUME NEW p \in 1..Len(grammar) PROVE Toured(grammar[p].node, E)'
      OBVIOUS
    <3>1. PICK n : n = grammar[p].node
      OBVIOUS
    <3>2. Toured(n, E)'
      BY <2>1, <3>1
    <3> QED BY <3>1, <3>2
  <2> QED BY <2>2 DEF Tours
<1>7. RulesFound(E)'
  <2> SUFFICES ASSUME NEW i \in 1..Len(Root), Root'[i].live
               PROVE  RuleFound(i, E)' /\ (Root'[i].keep \/ Hopeful(i, E)')
    BY DEF RulesFound
  <2>1. i \notin S /\ Root'[i] = Root[i] /\ Root[i].live
    BY <1>2
  <2>2. RuleFound(i, E) /\ (Root[i].keep \/ Hopeful(i, E))
    BY <2>1
  <2>3. (RuleFound(i, E) => RuleFound(i, E)') /\ (Hopeful(i, E) => Hopeful(i, E)')
    BY <2>1, RuleStays
  <2> QED BY <2>1, <2>2, <2>3
<1> QED BY <1>3, <1>6, <1>7

\* A rule of which no given item can be built is not among those that can.
LEMMA LostIsOut ==
  ASSUME grammar \in Grammars, NEW E, NEW kept, kept \subseteq E, Given \subseteq E,
         NEW name, Lost(name, E), name \notin kept, NEW d \in 0..Inf
  PROVE  name \notin WithinOf(kept, grammar)[d]
<1> DEFINE W == WithinOf(kept, grammar)
<1>0. Inf \in Nat
  BY InfIsNat
<1>1. \A c \in ToSet(grammar) : \E p \in 1..Len(grammar) : grammar[p] = c
  BY GrammarIsSeq, SeqFacts DEF ToSet
<1>2. \A e \in 0..Inf : W[e] = IF e = 0 THEN {} ELSE Next1(kept, grammar, W[e - 1])
  BY WithinOfIs
<1> HIDE DEF W
<1>3. ASSUME NEW e \in 0..Inf
      PROVE  W[e] \subseteq E
  <2>1. CASE e = 0
    BY <1>2, <2>1
  <2>2. CASE e # 0
    <3>1. W[e] = Next1(kept, grammar, W[e - 1])
      BY <1>2, <2>2
    <3> QED BY <3>1 DEF Next1, Given
  <2> QED BY <2>1, <2>2
<1>4. SUFFICES ASSUME name \in W[d] PROVE FALSE
  BY DEF W
<1>5. d # 0 /\ d - 1 \in 0..Inf /\ name \in Next1(kept, grammar, W[d - 1])
  BY <1>0, <1>2, <1>4
<1>6. PICK c \in ToSet(grammar) : c.name = name /\ Fulfilled(c.node, W[d - 1])
  BY <1>5 DEF Next1
<1>7. PICK p \in 1..Len(grammar) : grammar[p] = c
  BY <1>1
<1>8. grammar[p].node \in Nodes
  BY UsedIsClosed
<1>9. Fulfilled(grammar[p].node, E)
  BY <1>3, <1>5, <1>6, <1>7, <1>8, MoreIsFulfilled
<1> QED BY <1>6, <1>7, <1>9 DEF Lost

LEMMA ReachEndExact ==
  ASSUME GrammarInv, FinInv, NamesInv, DepthInv, NEW E, ToSet(names) \subseteq E, PruneInv(E), ReachEnd
  PROVE  PruneInv(E)'
<1>1. /\ fin.pass = "reach" /\ visits = <<>> /\ fin.at > Len(Root) /\ fin'.pass = "depth"
      /\ fin'.depths = [i \in 1..Len(Root) |-> IF i \in DOMAIN fin.depths THEN fin.depths[i] ELSE -1]
      /\ UNCHANGED <<grammar, names, inline, index, visits>> /\ Len(Root') = Len(Root)
      /\ \A k \in 1..Len(Root) : Root'[k] = IF k \in fin.toPrune THEN NoRule ELSE Root[k]
  BY ReachEndIs DEF ReachEnded
<1>2. /\ Len(Root) = Len(names) /\ Len(Root) \in Nat /\ AnySeq(names) /\ grammar \in Grammars
      /\ fin.at \in Nat
  BY Start DEF GrammarInv
<1>3. Tours(E) /\ RulesFound(E) /\ BuildableLive /\ PrunesLost(E) /\ DeadDepths
  BY DEF PruneInv
<1>4. ~NoRule.live
  BY DEF NoRule, Or
<1>5. \A i \in fin.toPrune : i \in 1..Len(Root) /\ Lost(names[i], E)
  BY <1>1, <1>2, <1>3 DEF NamesInv, PrunesGiven, PrunesLost
<1>6. ~FirstPass => fin.toPrune = {}
  BY <1>1, <1>3 DEF PrunesLost
<1>7. ASSUME NEW p \in 1..Len(grammar)
      PROVE  Toured(grammar[p].node, E)
  <2>1. grammar[p].name \in ToSet(names)
    BY <1>1 DEF NamesInv, CalledOK, Called
  <2>2. IndexOf(names, grammar[p].name) \in 1..Len(names)
    BY <1>2, <2>1, IndexNamed
  <2>3. IndexOf(names, grammar[p].name) < fin.at
    BY <1>1, <1>2, <2>2
  <2> QED BY <1>3, <2>3 DEF Tours
<1>8. ASSUME NEW i \in 1..Len(Root), i \notin fin.toPrune, Root[i].live
      PROVE  RuleFound(i, E) /\ (Root[i].keep \/ Hopeful(i, E))
  <2>1. i < fin.at
    BY <1>1, <1>2
  <2> QED BY <1>3, <1>8, <2>1 DEF RulesFound
<1>9. Tours(E)' /\ RulesFound(E)' /\ Kept' \subseteq Kept
  BY <1>1, <1>5, <1>7, <1>8, PruningStep
<1>10. CallsFit(E)' /\ PrunesLost(E)'
  BY <1>1, NoItems DEF CallsFit, PrunesLost
<1>11. DeadDepths'
  <2> SUFFICES ASSUME NEW i \in 1..Len(Root), i \in DOMAIN fin.depths, ~Root'[i].live
               PROVE  fin.depths[i] \in {-1, Inf}
    BY <1>1 DEF DeadDepths
  <2>1. fin.toPrune = {}
    BY <1>1, <1>6 DEF FirstPass
  <2>2. ~Root[i].live
    BY <1>1, <2>1
  <2> QED BY <1>3, <2>2 DEF DeadDepths
<1>12. BuildableLive'
  <2>1. CASE ~FirstPass
    <3>1. \A i \in 1..Len(Root) : Root'[i].live = Root[i].live /\ Root'[i].keep = Root[i].keep
      BY <1>1, <1>6, <2>1
    <3>2. Kept' = Kept
      BY <1>1, <3>1, KeptStays
    <3> QED BY <1>1, <1>3, <3>1, <3>2, BuildableStays
  <2>2. CASE FirstPass
    <3>1. PICK W : W = Within'
      OBVIOUS
    <3>2. W = WithinOf(Kept', grammar)
      <4>1. (Within = WithinOf(Kept, grammar))'
        BY WithinSame, PTL
      <4> QED BY <1>1, <3>1, <4>1
    <3>3. SUFFICES ASSUME NEW d \in 0..Inf, NEW i \in 1..Len(Root), names[i] \in W[d]
                   PROVE  Root'[i].live
      BY <1>1, <3>1 DEF BuildableLive
    <3>4. SUFFICES ASSUME ~Root'[i].live PROVE FALSE
      OBVIOUS
    <3>5. i \in fin.toPrune
      <4>1. Root[i].live
        BY <1>2, <2>2 DEF NamesInv, FirstOK
      <4> QED BY <1>1, <3>4, <4>1
    <3>6. Lost(names[i], E)
      BY <1>5, <3>5
    <3>7. names[i] \notin Kept'
      <4> SUFFICES ASSUME names[i] \in Kept' PROVE FALSE
        OBVIOUS
      <4>1. PICK k \in 1..Len(Root') : names[i] = names'[k] /\ Root'[k].live
        BY DEF Kept
      <4>2. k = i
        BY <1>1, <1>2, <4>1 DEF NamesInv, Distinct
      <4> QED BY <3>4, <4>1, <4>2
    <3>8. Given \subseteq E /\ Kept' \subseteq E
      <4>1. Kept \subseteq ToSet(names)
        <5> SUFFICES ASSUME NEW name \in Kept PROVE name \in ToSet(names)
          OBVIOUS
        <5>1. \E k \in 1..Len(Root) : names[k] = name
          BY KeptIs
        <5> QED BY <1>2, <5>1, NamesSet
      <4>2. Given \subseteq ToSet(names)
        BY <1>1, <1>2, GivenHaveNames
      <4> QED BY <1>9, <4>1, <4>2
    <3>9. PICK kept : kept = Kept'
      OBVIOUS
    <3>10. names[i] \notin WithinOf(kept, grammar)[d]
      BY <1>2, <3>6, <3>7, <3>8, <3>9, LostIsOut
    <3> QED BY <3>2, <3>3, <3>9, <3>10
  <2> QED BY <2>1, <2>2
<1> QED BY <1>9, <1>10, <1>11, <1>12 DEF PruneInv

-----------------------------------------------------------------------------
(* The steps of RefDepth.                                                  *)

LEMMA NoVisits ==
  ASSUME FinInv, fin.pass # "reach"
  PROVE  visits = <<>> /\ Len(visits) = 0
<1>1. visits = <<>>
  BY DEF FinInv, VisitsOK
<1> QED BY <1>1, NoItems

LEMMA DepthRuleExact ==
  ASSUME GrammarInv, FinInv, DepthInv, at = "finalize", NEW E, PruneInv(E), DepthRule
  PROVE  PruneInv(E)'
<1>1. /\ fin.pass = "depth" /\ UNCHANGED <<grammar, names, visits>>
      /\ Len(Root) \in Nat /\ fin.at \in Nat /\ DOMAIN fin.depths = 1..Len(Root)
  BY Start DEF DepthRule, DepthInv, DepthsOK
<1>2. Tours(E) /\ RulesFound(E) /\ BuildableLive /\ PrunesLost(E) /\ DeadDepths
  BY DEF PruneInv
<1>3. ~FirstPass
  BY <1>1 DEF FirstPass
<1>4. CallsFit(E)'
  <2>1. Len(visits') = 0
    BY <1>1, NoVisits
  <2> QED BY <2>1 DEF CallsFit
<1>5. CASE ~Root[fin.at].live
  <2>1. fin' = [fin EXCEPT !.at = @ + 1] /\ UNCHANGED <<scopes, inline>>
    BY <1>5 DEF DepthRule
  <2>2. fin'.pass = "depth" /\ fin'.depths = fin.depths /\ Root' = Root
    BY <1>1, <2>1, Start DEF FinOK, Root
  <2>3. Tours(E)' /\ RulesFound(E)' /\ BuildableLive'
    BY <1>1, <1>2, <1>3, <2>1, <2>2, QuietStep
  <2>4. PrunesLost(E)' /\ DeadDepths'
    BY <1>2, <2>2 DEF PrunesLost, DeadDepths
  <2> QED BY <1>4, <2>3, <2>4 DEF PruneInv
<1>6. CASE Root[fin.at].live
  <2>1. PICK i, depth, shortest, changed, prune : DepthTurn(i, depth, shortest, changed, prune)
    BY <1>6, DepthRuleIs
  <2>2. /\ i \in 1..Len(Root) /\ Root[i].live /\ fin'.pass = "depth"
        /\ fin'.depths = [fin.depths EXCEPT ![i] = depth]
        /\ \A n \in OrNodes : inline'[n].choice = inline[n].choice
        /\ Len(Root') = Len(Root)
        /\ \A k \in 1..Len(Root) :
             /\ Root'[k].live = Root[k].live /\ Root'[k].keep = Root[k].keep
             /\ Root'[k].items = Root[k].items /\ Root'[k].choice = Root[k].choice
    BY <2>1 DEF DepthTurn
  <2>3. Tours(E)' /\ RulesFound(E)' /\ BuildableLive'
    BY <1>1, <1>2, <1>3, <2>2, QuietStep
  <2>4. PrunesLost(E)'
    BY <2>2 DEF PrunesLost
  <2>5. DeadDepths'
    <3> SUFFICES ASSUME NEW k \in 1..Len(Root), ~Root'[k].live PROVE fin'.depths[k] \in {-1, Inf}
      BY <1>1, <2>2 DEF DeadDepths
    <3>1. ~Root[k].live
      BY <2>2
    <3>2. fin'.depths[k] = fin.depths[k]
      BY <1>1, <2>2, <3>1
    <3> QED BY <1>1, <1>2, <3>1, <3>2 DEF DeadDepths
  <2> QED BY <1>4, <2>3, <2>4, <2>5 DEF PruneInv
<1> QED BY <1>5, <1>6

-----------------------------------------------------------------------------
(* The depths when the rounds are over.                                    *)

\* Every live rule would be found as it is, and the rules that can be built are live.
Balanced(E) ==
  /\ Given \cup Kept \subseteq E /\ Tours(E) /\ fin.pass \in {"depth", "done"} /\ RulesFound(E)
  /\ \A i \in 1..Len(Root) : Root[i].live => Rounded(i)
  /\ DOMAIN fin.depths = 1..Len(Root)

LEMMA DepthOfName ==
  ASSUME GrammarInv, FinInv, NamesInv, DepthInv, DOMAIN fin.depths = 1..Len(Root), NEW i \in 1..Len(Root)
  PROVE  DepthOf(View, names[i]) = IF fin.depths[i] = -1 THEN Inf ELSE fin.depths[i]
<1>1. AnySeq(names) /\ Len(Root) = Len(names) /\ Len(names) \in Nat
  BY Start
<1>2. names[i] \in ToSet(names)
  BY <1>1, NamesSet
<1>3. PICK k : k = IndexOf(names, names[i])
  OBVIOUS
<1>4. k \in 1..Len(names) /\ names[k] = names[i]
  BY <1>1, <1>2, <1>3, IndexNamed
<1>5. k = i
  BY <1>1, <1>4 DEF NamesInv, Distinct
<1>6. DepthOf(View, names[i]) = IF k \in DOMAIN fin.depths /\ fin.depths[k] # -1 THEN fin.depths[k] ELSE Inf
  BY <1>3, ViewIsOK DEF DepthInv
<1> QED BY <1>5, <1>6

\* What can be built with d nested references is found no deeper.
LEMMA NodeIsShallow ==
  ASSUME GrammarInv, FinInv, NamesInv, DepthInv, NEW E, Balanced(E), NEW d \in Nat, d < Inf,
         \A i \in 1..Len(Root) : names[i] \in Within[d] => fin.depths[i] \in 0..(d - 1),
         Within[d] \subseteq E, Within[d] \subseteq ToSet(names)
  PROVE  \A n \in Nodes : Toured(n, E) /\ Fulfilled(n, Within[d]) => CalcRefDepth(n, View) <= d
<1> DEFINE S == {n \in Nodes : Toured(n, E) /\ Fulfilled(n, Within[d]) => CalcRefDepth(n, View) <= d}
<1>0. Inf \in Nat
  BY InfIsNat
<1>1. PICK v : v = View
  OBVIOUS
<1>2. ViewOK(v) /\ \A n \in OrNodes : v.choice[n] = inline[n].choice
  BY <1>1, ViewIsOK DEF DepthInv
<1>3. ASSUME NEW n \in Nodes, KidsOf(n) \subseteq S
      PROVE  n \in S
  <2> SUFFICES ASSUME Toured(n, E), Fulfilled(n, Within[d]) PROVE CalcRefDepth(n, v) <= d
    BY <1>1
  <2>1. Fit(n, E) /\ \A k \in Open(n, E) : Toured(Item[n].kids[k], E)
    BY TouredIsFit
  <2>2. ASSUME NEW k \in Open(n, E), Fulfilled(Item[n].kids[k], Within[d])
        PROVE  CalcRefDepth(Item[n].kids[k], v) <= d
    <3>1. Item[n].kids[k] \in KidsOf(n)
      BY KidsAre DEF Open
    <3> QED BY <1>1, <1>3, <2>1, <2>2, <3>1
  <2>3. CASE Item[n].kind \in RefKinds
    <3>1. Item[n].name \in Within[d]
      BY <2>3, FulfilledIs
    <3>2. PICK i \in 1..Len(Root) : names[i] = Item[n].name
      <4>1. AnySeq(names) /\ Len(Root) = Len(names)
        BY Start
      <4> QED BY <3>1, <4>1, NamesSet
    <3>3. fin.depths[i] \in 0..(d - 1)
      BY <3>1, <3>2
    <3>4. DepthOf(v, Item[n].name) = fin.depths[i]
      BY <1>1, <3>2, <3>3, DepthOfName DEF Balanced
    <3>5. DepthOf(v, Item[n].name) + 1 <= d
      BY <3>3, <3>4
    <3> QED BY <1>2, <2>3, <3>5, DepthAtMost
  <2>4. CASE Item[n].kind = "or"
    <3>1. PICK m \in KidsOf(n) : Fulfilled(m, Within[d])
      BY <2>4, FulfilledIs
    <3>2. PICK k \in 1..Len(Item[n].kids) : m = Item[n].kids[k]
      BY KidsAre
    <3>3. Fulfilled(m, E) /\ k \in Open(n, E)
      <4>1. m \in Nodes
        BY <3>2, KidsAre
      <4> QED BY <2>4, <3>1, <4>1, MoreIsFulfilled DEF Open
    <3>4. k \in ToSet(v.choice[n])
      <4>1. v.choice[n] = inline[n].choice
        BY <1>2, <2>4 DEF OrNodes
      <4> QED BY <2>1, <2>4, <3>2, <3>3, <4>1 DEF Fit, FitChoice
    <3>5. CalcRefDepth(Item[n].kids[k], v) <= d
      BY <2>2, <3>1, <3>2, <3>3
    <3> QED BY <1>2, <2>4, <3>4, <3>5, DepthAtMost
  <2>5. CASE Item[n].kind = "opt"
    BY <1>2, <2>5, DepthAtMost
  <2>6. CASE Item[n].kind \notin RefKinds \cup {"or", "opt"}
    <3>1. \A m \in KidsOf(n) : Fulfilled(m, Within[d]) /\ Fulfilled(m, E)
      <4> SUFFICES ASSUME NEW m \in KidsOf(n) PROVE Fulfilled(m, Within[d]) /\ Fulfilled(m, E)
        OBVIOUS
      <4>1. m \in Nodes /\ Fulfilled(m, Within[d])
        BY <2>6, FulfilledIs, KidsAreNodes
      <4> QED BY <4>1, MoreIsFulfilled
    <3>2. \A m \in KidsOf(n) : CalcRefDepth(m, v) <= d
      <4> SUFFICES ASSUME NEW m \in KidsOf(n) PROVE CalcRefDepth(m, v) <= d
        OBVIOUS
      <4>1. PICK k \in 1..Len(Item[n].kids) : m = Item[n].kids[k]
        BY KidsAre
      <4>2. \A i \in 1..(k - 1) : i \in 1..Len(Item[n].kids)
        BY <4>1, KidsAre
      <4>3. \A i \in 1..(k - 1) : Fulfilled(Item[n].kids[i], E)
        BY <3>1, <4>2, KidsAre
      <4>4. k \in Open(n, E)
        BY <4>1, <4>3 DEF Open
      <4> QED BY <2>2, <3>1, <4>1, <4>4
    <3> QED BY <1>2, <2>6, <3>2, DepthAtMost
  <2> QED BY <2>3, <2>4, <2>5, <2>6
<1> HIDE DEF S
<1>4. Nodes \subseteq S
  BY <1>3, NodeInduction
<1> QED BY <1>4 DEF S

LEMMA KeptAreNamed ==
  ASSUME GrammarInv, FinInv
  PROVE  Kept \subseteq ToSet(names)
<1> SUFFICES ASSUME NEW name \in Kept PROVE name \in ToSet(names)
  OBVIOUS
<1>1. \E i \in 1..Len(Root) : names[i] = name
  BY KeptIs
<1>2. AnySeq(names) /\ Len(Root) = Len(names)
  BY Start
<1> QED BY <1>1, <1>2, NamesSet

\* What can be built is named.
LEMMA WithinIsNamed ==
  ASSUME GrammarInv, FinInv, NamesInv, NEW E, Balanced(E), NEW d \in 0..Inf
  PROVE  Within[d] \subseteq E /\ Within[d] \subseteq ToSet(names)
<1>1. grammar \in Grammars /\ fin.pass # "add"
  BY DEF GrammarInv, Balanced
<1>2. Given \subseteq ToSet(names) /\ Kept \subseteq ToSet(names)
  BY <1>1, GivenHaveNames, KeptAreNamed
<1>3. Within[d] \subseteq Kept \cup Given
  BY <1>1, WithinIsSmall
<1> QED BY <1>2, <1>3 DEF Balanced

\* A rule with no items of its own is one for values.
LEMMA LiveRuleIsWhole ==
  ASSUME GrammarInv, FinInv, NamesInv, fin.pass # "add", NEW i \in 1..Len(Root), Root[i].live, ~Root[i].keep
  PROVE  /\ \A j \in 1..Len(Root[i].items) : \E p \in 1..Len(grammar) :
              grammar[p].name = names[i] /\ grammar[p].node = Root[i].items[j].node
         /\ \A p \in 1..Len(grammar) : grammar[p].name = names[i] =>
              \E j \in 1..Len(Root[i].items) : Root[i].items[j].node = grammar[p].node
<1>1. Len(Root) = Len(names)
  BY Start
<1>2. Whole(names[i], Root[i].items, Len(grammar))
  BY <1>1 DEF NamesInv, RulesAre, Called
<1> QED BY <1>2 DEF Whole

\* A rule that can be built is found no deeper than it nests.
LEMMA RuleIsShallow ==
  ASSUME GrammarInv, FinInv, NamesInv, DepthInv, NEW E, Balanced(E),
         \A d \in 0..Inf : \A i \in 1..Len(Root) : names[i] \in Within[d] => Root[i].live
  PROVE  \A d \in 0..Inf : \A i \in 1..Len(Root) : names[i] \in Within[d] => fin.depths[i] \in 0..(d - 1)
<1> DEFINE H == {d \in Nat : d <= Inf /\ \E i \in 1..Len(Root) : names[i] \in Within[d] /\ fin.depths[i] \notin 0..(d - 1)}
<1>0. Inf \in Nat \ {0}
  BY InfIsNat
<1>1. SUFFICES ASSUME H # {} PROVE FALSE
  BY <1>0
<1>2. PICK d \in H : \A y \in H : d <= y
  <2>1. H \in SUBSET Nat
    OBVIOUS
  <2> HIDE DEF H
  <2> QED BY <1>1, <2>1, Least
<1>3. PICK i \in 1..Len(Root) : d \in Nat /\ d <= Inf /\ names[i] \in Within[d] /\ fin.depths[i] \notin 0..(d - 1)
  OBVIOUS
<1>4. grammar \in Grammars /\ fin.pass # "add" /\ d \in 0..Inf /\ Len(Root) = Len(names)
  BY <1>0, <1>3, Start DEF GrammarInv, Balanced
<1>5. d # 0
  BY <1>3, <1>4, WithinIs
<1>6. d - 1 \in Nat /\ d - 1 < Inf /\ d - 1 \in 0..Inf
  BY <1>0, <1>3, <1>5
<1>7. \A k \in 1..Len(Root) : names[k] \in Within[d - 1] => fin.depths[k] \in 0..((d - 1) - 1)
  <2>1. d - 1 \notin H
    <3>1. d \in Nat /\ ~ (d <= d - 1)
      BY <1>3
    <3> HIDE DEF H
    <3> QED BY <1>2, <3>1
  <2> QED BY <1>6, <2>1
<1> HIDE DEF H
<1>8. \A n \in Nodes : Toured(n, E) /\ Fulfilled(n, Within[d - 1]) => CalcRefDepth(n, View) <= d - 1
  BY <1>6, <1>7, WithinIsNamed, NodeIsShallow
<1>9. Root[i].live /\ fin.depths[i] = RoundDepth(i)
  BY <1>3, <1>4 DEF Balanced, Rounded
<1>10. RoundDepth(i) \in 0..Inf /\ ~ (RoundDepth(i) <= d - 1)
  <2>1. RoundDepth(i) \in 0..Inf
    BY RoundDepthIs DEF DepthInv
  <2> QED BY <1>0, <1>3, <1>6, <1>9, <2>1
<1>11. ~Root[i].keep /\ ~ \E j \in ToSet(Root[i].choice) : CalcRefDepth(RootItems(i)[j], View) <= d - 1
  BY <1>6, <1>10, RoundDepthIs DEF DepthInv
<1>12. names[i] \notin Kept
  <2> SUFFICES ASSUME names[i] \in Kept PROVE FALSE
    OBVIOUS
  <2>1. PICK k \in 1..Len(Root) : names[k] = names[i] /\ Root[k].live /\ Root[k].keep
    BY KeptIs
  <2>2. k = i
    BY <1>4, <2>1 DEF NamesInv, Distinct
  <2> QED BY <1>11, <2>1, <2>2
<1>13. PICK p \in 1..Len(grammar) : grammar[p].name = names[i] /\ Fulfilled(grammar[p].node, Within[d - 1])
  BY <1>3, <1>4, <1>5, <1>12, WithinIs
<1>14. PICK j \in 1..Len(Root[i].items) : Root[i].items[j].node = grammar[p].node
  BY <1>4, <1>9, <1>11, <1>13, LiveRuleIsWhole
<1>15. grammar[p].node \in Nodes
  BY <1>4, UsedIsClosed
<1>16. Fulfilled(grammar[p].node, E)
  BY <1>6, <1>13, <1>15, WithinIsNamed, MoreIsFulfilled
<1>17. Toured(grammar[p].node, E)
  BY DEF Balanced, Tours, FirstPass
<1>18. j \in ToSet(Root[i].choice)
  BY <1>9, <1>14, <1>16 DEF Balanced, RulesFound, RuleFound, FirstPass
<1>19. RootItems(i)[j] = grammar[p].node
  BY <1>14, RuleItemsAre
<1> QED BY <1>8, <1>11, <1>13, <1>15, <1>17, <1>18, <1>19

-----------------------------------------------------------------------------
(* What is found can be built.                                             *)

LEMMA NodeIsBuildable ==
  ASSUME GrammarInv, FinInv, NamesInv, DepthInv, DOMAIN fin.depths = 1..Len(Root), NEW d \in Nat, d < Inf,
         \A i \in 1..Len(Root) : fin.depths[i] \in 0..(d - 1) => names[i] \in Within[d]
  PROVE  \A n \in Nodes : CalcRefDepth(n, View) <= d => Fulfilled(n, Within[d])
<1> DEFINE S == {n \in Nodes : CalcRefDepth(n, View) <= d => Fulfilled(n, Within[d])}
<1>0. Inf \in Nat
  BY InfIsNat
<1>1. PICK v : v = View
  OBVIOUS
<1>2. ViewOK(v)
  BY <1>1, ViewIsOK DEF DepthInv
<1>3. ASSUME NEW n \in Nodes, KidsOf(n) \subseteq S
      PROVE  n \in S
  <2> SUFFICES ASSUME CalcRefDepth(n, v) <= d PROVE Fulfilled(n, Within[d])
    BY <1>1
  <2>1. \A k \in KidsOf(n) : CalcRefDepth(k, v) <= d => Fulfilled(k, Within[d])
    BY <1>1, <1>3
  <2>2. CASE Item[n].kind \in RefKinds
    <3>1. DepthOf(v, Item[n].name) + 1 <= d /\ DepthOf(v, Item[n].name) \in 0..Inf
      BY <1>2, <2>2, DepthAtMost DEF ViewOK
    <3>2. AnySeq(names) /\ Len(Root) = Len(names) /\ Len(Root) \in Nat
      BY Start
    <3>3. PICK i : i = IndexOf(names, Item[n].name)
      OBVIOUS
    <3>4. DepthOf(v, Item[n].name) = IF i \in 1..Len(Root) /\ fin.depths[i] # -1 THEN fin.depths[i] ELSE Inf
      BY <1>1, <3>3, ViewIsOK DEF DepthInv
    <3>5. DepthOf(v, Item[n].name) # Inf
      BY <1>0, <3>1
    <3>6. i \in 1..Len(Root) /\ fin.depths[i] # -1 /\ DepthOf(v, Item[n].name) = fin.depths[i]
      BY <3>4, <3>5
    <3>7. fin.depths[i] \in 0..(d - 1)
      BY <1>0, <3>1, <3>6
    <3>8. names[i] = Item[n].name
      <4>1. CASE Item[n].name \in ToSet(names)
        BY <3>2, <3>3, <4>1, IndexNamed
      <4>2. CASE Item[n].name \notin ToSet(names)
        <5>1. i = 0
          BY <3>3, <4>2 DEF IndexOf
        <5> QED BY <3>2, <3>6, <5>1
      <4> QED BY <4>1, <4>2
    <3>9. Item[n].name \in Within[d]
      BY <3>6, <3>7, <3>8
    <3> QED BY <2>2, <3>9, FulfilledIs
  <2>3. CASE Item[n].kind = "or"
    <3>1. PICK k \in ToSet(v.choice[n]) : CalcRefDepth(Item[n].kids[k], v) <= d
      BY <1>2, <2>3, DepthAtMost
    <3>2. k \in 1..Len(Item[n].kids)
      BY <1>2, <2>3 DEF ViewOK, OrNodes
    <3>3. Item[n].kids[k] \in KidsOf(n)
      BY <3>2, KidsAre
    <3> QED BY <2>1, <2>3, <3>1, <3>3, FulfilledIs
  <2>4. CASE Item[n].kind = "opt"
    BY <2>4, FulfilledIs
  <2>5. CASE Item[n].kind \notin RefKinds \cup {"or", "opt"}
    <3>1. \A k \in KidsOf(n) : CalcRefDepth(k, v) <= d
      BY <1>2, <2>5, DepthAtMost
    <3> QED BY <2>1, <2>5, <3>1, FulfilledIs
  <2> QED BY <2>2, <2>3, <2>4, <2>5
<1> HIDE DEF S
<1>4. Nodes \subseteq S
  BY <1>3, NodeInduction
<1> QED BY <1>4 DEF S

LEMMA RuleIsBuildable ==
  ASSUME GrammarInv, FinInv, NamesInv, DepthInv, NEW E, Balanced(E), DeadDepths
  PROVE  \A d \in 0..Inf : \A i \in 1..Len(Root) : fin.depths[i] \in 0..(d - 1) => names[i] \in Within[d]
<1> DEFINE H == {d \in Nat : d <= Inf /\ \E i \in 1..Len(Root) : fin.depths[i] \in 0..(d - 1) /\ names[i] \notin Within[d]}
<1>0. Inf \in Nat \ {0}
  BY InfIsNat
<1>1. SUFFICES ASSUME H # {} PROVE FALSE
  BY <1>0
<1>2. PICK d \in H : \A y \in H : d <= y
  <2>1. H \in SUBSET Nat
    OBVIOUS
  <2> HIDE DEF H
  <2> QED BY <1>1, <2>1, Least
<1>3. PICK i \in 1..Len(Root) : d \in Nat /\ d <= Inf /\ fin.depths[i] \in 0..(d - 1) /\ names[i] \notin Within[d]
  OBVIOUS
<1>4. /\ grammar \in Grammars /\ fin.pass # "add" /\ d \in 0..Inf /\ d # 0
      /\ DOMAIN fin.depths = 1..Len(Root) /\ Len(Root) = Len(names)
  BY <1>0, <1>3, Start DEF GrammarInv, Balanced
<1>5. d - 1 \in Nat /\ d - 1 < Inf /\ d - 1 \in 0..Inf
  BY <1>0, <1>3, <1>4
<1>6. \A k \in 1..Len(Root) : fin.depths[k] \in 0..((d - 1) - 1) => names[k] \in Within[d - 1]
  <2>1. d - 1 \notin H
    <3>1. d \in Nat /\ ~ (d <= d - 1)
      BY <1>3
    <3> HIDE DEF H
    <3> QED BY <1>2, <3>1
  <2> QED BY <1>5, <2>1
<1> HIDE DEF H
<1>7. \A n \in Nodes : CalcRefDepth(n, View) <= d - 1 => Fulfilled(n, Within[d - 1])
  BY <1>4, <1>5, <1>6, NodeIsBuildable
<1>8. Root[i].live
  <2> SUFFICES ASSUME ~Root[i].live PROVE FALSE
    OBVIOUS
  <2>1. fin.depths[i] \in {-1, Inf}
    BY <1>4 DEF DeadDepths
  <2> QED BY <1>0, <1>3, <2>1
<1>9. fin.depths[i] = RoundDepth(i)
  BY <1>8 DEF Balanced, Rounded
<1>10. RoundDepth(i) <= d - 1
  BY <1>3, <1>9
<1>11. Root[i].keep \/ \E j \in ToSet(Root[i].choice) : CalcRefDepth(RootItems(i)[j], View) <= d - 1
  BY <1>5, <1>10, RoundDepthIs DEF DepthInv
<1>12. CASE Root[i].keep
  <2>1. names[i] \in Kept
    BY <1>8, <1>12, KeptIs
  <2> QED BY <1>3, <1>4, <2>1, WithinIs
<1>13. CASE ~Root[i].keep
  <2>1. PICK j \in ToSet(Root[i].choice) : CalcRefDepth(RootItems(i)[j], View) <= d - 1
    BY <1>11, <1>13
  <2>2. j \in 1..Len(Root[i].items) /\ RootItems(i)[j] = Root[i].items[j].node /\ RootItems(i)[j] \in Nodes
    BY RuleItemsAre
  <2>3. PICK p \in 1..Len(grammar) : grammar[p].name = names[i] /\ grammar[p].node = Root[i].items[j].node
    BY <1>4, <1>8, <1>13, <2>2, LiveRuleIsWhole
  <2>4. Fulfilled(grammar[p].node, Within[d - 1])
    BY <1>7, <2>1, <2>2, <2>3
  <2> QED BY <1>3, <1>4, <2>3, <2>4, WithinIs
<1> QED BY <1>12, <1>13

-----------------------------------------------------------------------------
(* The end of the rounds.                                                  *)

LEMMA DepthEndExact ==
  ASSUME GrammarInv, FinInv, NamesInv, DepthInv, NEW E, ToSet(names) \subseteq E, PruneInv(E), DepthEnd
  PROVE  PruneInv(E)'
<1>1. DepthEnded
  BY DepthEndIs
<1>2. /\ fin.pass = "depth" /\ fin.at > Len(Root) /\ visits = <<>>
      /\ fin'.toPrune = {} /\ fin'.depths = fin.depths
      /\ UNCHANGED <<grammar, names, inline, visits>>
      /\ RoundAgain \/ RoundsOver
  BY <1>1 DEF DepthEnded
<1>3. /\ Len(Root) = Len(names) /\ Len(Root) \in Nat /\ grammar \in Grammars /\ fin.at \in Nat
      /\ DOMAIN fin.depths = 1..Len(Root)
  BY <1>2, Start DEF GrammarInv, DepthInv, DepthsOK
<1>4. Tours(E) /\ RulesFound(E) /\ BuildableLive /\ DeadDepths /\ ~FirstPass
  BY <1>2 DEF PruneInv, FirstPass
<1>5. CallsFit(E)' /\ PrunesLost(E)'
  BY <1>2, NoItems DEF CallsFit, PrunesLost
<1>6. CASE RoundAgain
  <2>1. Root' = Root
    BY <1>6 DEF RoundAgain
  <2>2. Tours(E)' /\ RulesFound(E)' /\ BuildableLive'
    BY <1>2, <1>4, <2>1, QuietStep
  <2>3. DeadDepths'
    BY <1>2, <1>4, <2>1 DEF DeadDepths
  <2> QED BY <1>5, <2>2, <2>3 DEF PruneInv
<1>7. CASE RoundsOver
  <2>1. /\ ~fin.changed /\ Len(Root') = Len(Root)
        /\ \A k \in 1..Len(Root) : Root'[k] = IF k \in fin.toPrune THEN NoRule ELSE Root[k]
    BY <1>7 DEF RoundsOver
  <2>2. \A i \in fin.toPrune :
          i \in 1..Len(Root) /\ Root[i].live /\ ~Root[i].keep /\ fin.depths[i] = Inf
    BY <1>2 DEF DepthInv, ToPruneOK
  <2>3. \A p \in 1..Len(grammar) : Toured(grammar[p].node, E)
    BY <1>4 DEF Tours
  <2>4. \A i \in 1..Len(Root) :
          i \notin fin.toPrune /\ Root[i].live => RuleFound(i, E) /\ (Root[i].keep \/ Hopeful(i, E))
    BY <1>4 DEF RulesFound
  <2>5. Tours(E)' /\ RulesFound(E)' /\ Kept' \subseteq Kept
    <3>1. PICK S : S = fin.toPrune
      OBVIOUS
    <3>2. \A k \in 1..Len(Root) : Root'[k] = IF k \in S THEN NoRule ELSE Root[k]
      BY <2>1, <3>1
    <3>3. \A i \in S : i \in 1..Len(Root) /\ (Root[i].live /\ Root[i].keep => Lost(names[i], E))
      BY <2>2, <3>1
    <3> QED BY <1>2, <2>1, <2>3, <2>4, <3>1, <3>2, <3>3, PruningStep
  <2>6. Kept' = Kept
    <3> SUFFICES ASSUME NEW name \in Kept PROVE name \in Kept'
      BY <2>5
    <3>1. PICK i \in 1..Len(Root) : names[i] = name /\ Root[i].live /\ Root[i].keep
      BY KeptIs
    <3>2. i \in 1..Len(Root') /\ names'[i] = name /\ Root'[i].live /\ Root'[i].keep
      BY <1>2, <2>1, <2>2, <3>1
    <3> QED BY <3>2 DEF Kept
  <2>7. ~NoRule.live
    BY DEF NoRule, Or
  <2>8. DeadDepths'
    <3> SUFFICES ASSUME NEW i \in 1..Len(Root), ~Root'[i].live PROVE fin.depths[i] \in {-1, Inf}
      BY <1>2, <1>3 DEF DeadDepths
    <3>1. CASE i \in fin.toPrune
      BY <2>2, <3>1
    <3>2. CASE i \notin fin.toPrune
      BY <1>3, <1>4, <2>1, <3>2 DEF DeadDepths
    <3> QED BY <3>1, <3>2
  <2>9. Balanced(E)
    <3>1. Given \cup Kept \subseteq E
      <4>1. Given \subseteq ToSet(names) /\ Kept \subseteq ToSet(names)
        BY <1>2, <1>3, GivenHaveNames, KeptAreNamed
      <4> QED BY <4>1
    <3>2. ASSUME NEW i \in 1..Len(Root), Root[i].live
          PROVE  Rounded(i)
      <4>1. i < fin.at
        BY <1>2, <1>3
      <4> QED BY <1>2, <2>1, <3>2, <4>1 DEF DepthInv, RoundOK
    <3> QED BY <1>2, <1>3, <1>4, <3>1, <3>2 DEF Balanced
  <2>10. BuildableLive'
    <3>1. Within' = Within
      BY <1>2, <2>6, WithinStays
    <3>2. PICK W : W = Within
      OBVIOUS
    <3>3. Vindicated' => Vindicated
      BY <1>2, <2>6 DEF Vindicated, Given
    <3>4. SUFFICES ASSUME Vindicated, NEW d \in 0..Inf, NEW i \in 1..Len(Root), names[i] \in W[d]
                   PROVE  Root'[i].live
      BY <1>2, <2>1, <3>1, <3>2, <3>3 DEF BuildableLive
    <3>5. \A e \in 0..Inf : \A k \in 1..Len(Root) : names[k] \in Within[e] => Root[k].live
      BY <1>4, <3>4 DEF BuildableLive
    <3>6. fin.depths[i] \in 0..(d - 1)
      BY <2>9, <3>2, <3>4, <3>5, RuleIsShallow
    <3>7. fin.depths[i] # Inf
      <4>1. Inf \in Nat
        BY InfIsNat
      <4> QED BY <3>6, <4>1
    <3>8. i \notin fin.toPrune /\ Root[i].live
      BY <2>2, <3>2, <3>4, <3>5, <3>7
    <3> QED BY <2>1, <3>8
  <2> QED BY <1>5, <2>5, <2>8, <2>10 DEF PruneInv
<1> QED BY <1>2, <1>6, <1>7

-----------------------------------------------------------------------------
(* The analysis, step by step.                                             *)

LEMMA LateFreeStays ==
  ASSUME grammar' = grammar, NEW E
  PROVE  LateFree(E)' <=> LateFree(E)
<1>1. /\ \A n : Adds(n)' = Adds(n) /\ Needs(n)' = Needs(n)
      /\ \A p : Before(p)' = Before(p)
      /\ Given' = Given
  BY NeedsStay DEF Before, FirstOf, Given
<1> QED BY <1>1 DEF LateFree

\* The last call of ResmackGrammarInit has returned.
LEMMA AddRuleExact ==
  ASSUME GrammarInv, FinInv, NamesInv, NamesInv', DepthInv, AddRule, fin'.pass # "add", NEW E
  PROVE  PruneInv(E)'
<1>1. /\ fin.pass = "add" /\ fin.at > Len(grammar) /\ UNCHANGED <<grammar, names, scopes, visits>>
      /\ fin' = [fin EXCEPT !.pass = "reach", !.at = 1] /\ DOMAIN fin.depths = {} /\ fin.toPrune = {}
  <2>1. fin.pass = "add" /\ DOMAIN fin.depths = {} /\ fin.toPrune = {}
    BY DEF AddRule, NamesInv, AddOK
  <2>2. fin' = [fin EXCEPT !.at = @ + 1] => fin'.pass = fin.pass
    BY Start DEF FinOK
  <2> QED BY <2>1, <2>2 DEF AddRule
<1>2. fin'.pass = "reach" /\ fin'.at = 1 /\ fin'.toPrune = {} /\ DOMAIN fin'.depths = {} /\ Root' = Root
  BY <1>1, Start DEF FinOK, Root
<1>3. /\ FirstPass' /\ FirstPass /\ Len(Root) = Len(names) /\ Len(Root) \in Nat /\ grammar \in Grammars
      /\ AnySeq(names)
  BY <1>1, <1>2, Start DEF FirstPass, GrammarInv
<1>4. CallsFit(E)'
  <2>1. Len(visits') = 0
    BY <1>1, NoVisits
  <2> QED BY <2>1 DEF CallsFit
<1>5. Tours(E)'
  <2> SUFFICES ASSUME NEW p \in 1..Len(grammar), IndexOf(names, grammar[p].name) < 1 PROVE FALSE
    BY <1>1, <1>2, <1>3 DEF Tours
  <2>1. Called' = Len(grammar)
    BY <1>1, <1>2 DEF Called
  <2>2. grammar[p].name \in ToSet(names)
    BY <1>1, <2>1 DEF NamesInv, CalledOK
  <2>3. IndexOf(names, grammar[p].name) \in 1..Len(names)
    BY <1>3, <2>2, IndexNamed
  <2> QED BY <1>3, <2>3
<1>6. RulesFound(E)'
  BY <1>2, <1>3 DEF RulesFound
<1>7. PrunesLost(E)' /\ DeadDepths'
  BY <1>2, <1>3 DEF PrunesLost, DeadDepths
<1>8. BuildableLive'
  BY <1>2, <1>3 DEF NamesInv, FirstOK, BuildableLive
<1> QED BY <1>4, <1>5, <1>6, <1>7, <1>8 DEF PruneInv

AnalysisInv == NamesInv /\ DepthInv /\ Exact

LEMMA FinalizeNames ==
  ASSUME GrammarInv, FinInv, GrammarInv', FinInv', NamesInv, DepthInv, at = "finalize", Finalize
  PROVE  NamesInv' /\ DepthInv'
<1>1. ASSUME AddRule PROVE NamesInv'
  BY <1>1, AddRuleNames
<1>2. ASSUME ReachRule \/ ReachItem \/ ReachReturn \/ ReachRuleEnd PROVE NamesInv'
  BY <1>2, ReachRuleNames, ReachItemNames, ReachReturnNames, RuleEndNames
<1>3. ASSUME ReachEnd PROVE NamesInv'
  BY <1>3, ReachEndNames
<1>4. ASSUME DepthRule PROVE NamesInv'
  BY <1>4, DepthRuleNames
<1>5. ASSUME DepthEnd PROVE NamesInv'
  <2>1. fin.pass = "depth"
    BY <1>5 DEF DepthEnd
  <2>2. DOMAIN fin.depths = 1..Len(Root)
    BY <2>1 DEF DepthInv, DepthsOK
  <2> QED BY <1>5, <2>2, DepthEndNames
<1>6. NamesInv'
  BY <1>1, <1>2, <1>3, <1>4, <1>5 DEF Finalize
<1>7. DepthInv'
  BY ReachEndDepths, DepthEndDepths, DepthRuleDepths, DepthIdle
<1> QED BY <1>6, <1>7

LEMMA FinalizeGrows ==
  ASSUME GrammarInv, FinInv, Finalize
  PROVE  /\ grammar' = grammar
         /\ fin'.pass # "add" => ToSet(names) \subseteq ToSet(names')
         /\ fin'.pass # "add" /\ ~AddRule => fin.pass # "add"
<1>1. CASE AddRule
  <2>1. fin' = [fin EXCEPT !.at = @ + 1] => fin'.pass = fin.pass
    BY Start DEF FinOK
  <2>2. fin'.pass # "add" => names' = names
    BY <1>1, <2>1 DEF AddRule
  <2> QED BY <1>1, <2>2 DEF AddRule
<1>2. CASE ReachItem
  <2>1. PICK call, n : ItemTurn(call, n)
    BY <1>2, ReachItemIs
  <2>2. ItemGrowth(n)
    <3>1. CASE Item[n].kind \notin Adders /\ UNCHANGED <<names, scopes>>
      BY <3>1, PlainGrowth
    <3>2. CASE \E i : AdderTurn(n, i)
      BY <3>2, AdderGrowth
    <3> QED BY <2>1, <3>1, <3>2 DEF ItemTurn
  <2> QED BY <2>1, <2>2 DEF ItemTurn, ItemGrowth
<1>3. CASE ReachRule \/ ReachRuleEnd \/ ReachEnd \/ DepthRule \/ DepthEnd
  BY <1>3 DEF ReachRule, ReachRuleEnd, ReachEnd, DepthRule, DepthEnd, FinInv, VisitsOK
<1>4. CASE ReachReturn
  BY <1>4, ReachReturnIs DEF ReturnTurn
<1> QED BY <1>1, <1>2, <1>3, <1>4 DEF Finalize

LEMMA FinalizeAnalyses ==
  ASSUME GrammarInv, FinInv, GrammarInv', FinInv', AnalysisInv, at = "finalize", Finalize
  PROVE  AnalysisInv'
<1>1. NamesInv /\ DepthInv /\ NamesInv' /\ DepthInv'
  BY FinalizeNames DEF AnalysisInv
<1>2. ASSUME fin'.pass # "add", NEW E, ToSet(names') \subseteq E, LateFree(E)'
      PROVE  PruneInv(E)'
  <2>1. CASE AddRule
    BY <1>1, <1>2, <2>1, AddRuleExact
  <2>2. CASE ~AddRule
    <3>1. grammar' = grammar /\ fin.pass # "add" /\ ToSet(names) \subseteq E
      BY <1>2, <2>2, FinalizeGrows
    <3>2. LateFree(E)
      BY <1>2, <3>1, LateFreeStays
    <3>3. PruneInv(E)
      BY <3>1, <3>2 DEF AnalysisInv, Exact
    <3>4. ASSUME ReachRule \/ ReachReturn \/ ReachRuleEnd PROVE PruneInv(E)'
      BY <1>1, <3>1, <3>3, <3>4, ReachRuleExact, ReachReturnExact, RuleEndExact
    <3>5. ASSUME ReachItem PROVE PruneInv(E)'
      BY <1>1, <1>2, <3>2, <3>3, <3>5, ReachItemExact
    <3>6. ASSUME ReachEnd \/ DepthRule \/ DepthEnd PROVE PruneInv(E)'
      BY <1>1, <3>1, <3>3, <3>6, ReachEndExact, DepthRuleExact, DepthEndExact
    <3> QED BY <2>2, <3>4, <3>5, <3>6 DEF Finalize
  <2> QED BY <2>1, <2>2
<1>3. Exact'
  BY <1>2 DEF Exact
<1> QED BY <1>1, <1>3 DEF AnalysisInv

LEMMA InitAnalysis == Init => AnalysisInv
<1> SUFFICES ASSUME Init PROVE AnalysisInv
  OBVIOUS
<1>1. /\ names = <<>> /\ Len(names) = 0 /\ Root = <<>> /\ Len(Root) = 0 /\ grammar \in Grammars
      /\ fin.pass = "add" /\ fin.at = 1 /\ fin.toPrune = {} /\ fin.depths = <<>>
  BY DEF Init, GrammarInit, Root
<1>2. Len(grammar) \in Nat /\ DOMAIN fin.depths = {} /\ Called = 0 /\ 1..0 = {}
  BY <1>1, GrammarIsSeq, SeqFacts DEF Called
<1>3. NamesInv
  BY <1>1, <1>2 DEF NamesInv, AddOK, Distinct, CalledOK, OwnNames, InOrder, FirstOK, RulesAre, PrunesGiven
<1>4. DepthInv
  BY <1>1, <1>2 DEF DepthInv, DepthsOK, ToPruneOK, RoundOK, DoneOK
<1>5. Exact
  BY <1>1 DEF Exact
<1> QED BY <1>3, <1>4, <1>5 DEF AnalysisInv

-----------------------------------------------------------------------------
(* What Finalize leaves.                                                   *)

LEMMA DoneIsBalanced ==
  ASSUME GrammarInv, FinInv, AnalysisInv, fin.pass = "done", KnownInTime, NEW E, E = ToSet(names)
  PROVE  Balanced(E) /\ Vindicated /\ PruneInv(E)
<1>1. NamesInv /\ DepthInv /\ Exact /\ grammar \in Grammars
  BY DEF AnalysisInv, GrammarInv
<1>2. DOMAIN grammar = 1..Len(grammar)
  BY <1>1, GrammarIsSeq, SeqFacts
<1>3. LateFree(E) /\ Vindicated
  BY <1>2 DEF KnownInTime, LateFree, Vindicated
<1>4. PruneInv(E)
  BY <1>1, <1>3 DEF Exact
<1>5. Given \subseteq E /\ Kept \subseteq E
  BY <1>1, GivenHaveNames, KeptAreNamed
<1>6. (\A i \in 1..Len(Root) : Root[i].live => Rounded(i)) /\ DOMAIN fin.depths = 1..Len(Root)
  BY <1>1 DEF DepthInv, DepthsOK, DoneOK
<1> QED BY <1>3, <1>4, <1>5, <1>6 DEF Balanced, PruneInv

LEMMA FinalizeIsExact ==
  ASSUME GrammarInv, FinInv, AnalysisInv
  PROVE  PruningIsExact
<1> SUFFICES ASSUME fin.pass = "done", KnownInTime, NEW i \in DOMAIN names
             PROVE  Root[i].live <=> names[i] \in Within[Inf]
  BY DEF PruningIsExact
<1>1. PICK E : E = ToSet(names)
  OBVIOUS
<1>2. NamesInv /\ DepthInv /\ grammar \in Grammars /\ Inf \in Nat \ {0}
  BY InfIsNat DEF AnalysisInv, GrammarInv
<1>3. Balanced(E) /\ Vindicated /\ BuildableLive /\ DeadDepths
  BY <1>1, DoneIsBalanced DEF PruneInv
<1>4. i \in 1..Len(Root)
  <2>1. AnySeq(names) /\ Len(Root) = Len(names)
    BY Start
  <2> QED BY <2>1, SeqFacts
<1>5. ASSUME names[i] \in Within[Inf] PROVE Root[i].live
  BY <1>2, <1>3, <1>4, <1>5 DEF BuildableLive
<1>6. ASSUME Root[i].live PROVE names[i] \in Within[Inf]
  <2>1. CASE Root[i].keep
    <3>1. names[i] \in Kept
      BY <1>4, <1>6, <2>1, KeptIs
    <3> QED BY <1>2, <3>1, WithinIs
  <2>2. CASE ~Root[i].keep
    <3>1. fin.depths[i] = RoundDepth(i) /\ fin.depths[i] # Inf
      BY <1>2, <1>4, <1>6, <2>2 DEF DepthInv, DoneOK, Rounded
    <3>2. fin.depths[i] \in 0..Inf
      BY <1>2, <1>4, <3>1, RoundDepthIs DEF DepthInv
    <3>3. PICK d : d = fin.depths[i] + 1
      OBVIOUS
    <3>4. d \in 0..Inf /\ fin.depths[i] \in 0..(d - 1) /\ d <= Inf
      BY <1>2, <3>1, <3>2, <3>3
    <3>5. names[i] \in Within[d]
      BY <1>2, <1>3, <1>4, <3>4, RuleIsBuildable
    <3>6. Within[d] \subseteq Within[Inf]
      BY <1>2, <3>4, WithinGrows
    <3> QED BY <3>5, <3>6
  <2> QED BY <2>1, <2>2
<1> QED BY <1>5, <1>6

\* Of a live rule of the grammar, an alternative is found x deep iff it can be built so.
LEMMA ItemDepthIs ==
  ASSUME GrammarInv, FinInv, AnalysisInv, fin.pass = "done", KnownInTime,
         NEW i \in 1..Len(Root), Root[i].live, ~Root[i].keep, NEW j \in 1..Len(Root[i].items),
         NEW x \in Nat, x < Inf
  PROVE  CalcRefDepth(RootItems(i)[j], View) <= x <=> Fulfilled(RootItems(i)[j], Within[x])
<1>1. PICK E, n : E = ToSet(names) /\ n = RootItems(i)[j]
  OBVIOUS
<1>2. NamesInv /\ DepthInv /\ grammar \in Grammars /\ Inf \in Nat \ {0} /\ x \in 0..Inf /\ fin.pass # "add"
  BY InfIsNat DEF AnalysisInv, GrammarInv
<1>3. Balanced(E) /\ Vindicated /\ BuildableLive /\ DeadDepths /\ DOMAIN fin.depths = 1..Len(Root)
  BY <1>1, DoneIsBalanced DEF PruneInv, Balanced
<1>4. n \in Nodes /\ n = Root[i].items[j].node
  BY <1>1, RuleItemsAre
<1>5. Toured(n, E)
  <2>1. PICK p \in 1..Len(grammar) : grammar[p].name = names[i] /\ grammar[p].node = Root[i].items[j].node
    BY <1>2, LiveRuleIsWhole
  <2> QED BY <1>3, <1>4, <2>1 DEF Balanced, Tours, FirstPass
<1>6. \A k \in 1..Len(Root) : names[k] \in Within[x] => fin.depths[k] \in 0..(x - 1)
  <2>1. \A d \in 0..Inf : \A k \in 1..Len(Root) : names[k] \in Within[d] => Root[k].live
    BY <1>3 DEF BuildableLive
  <2> QED BY <1>2, <1>3, <2>1, RuleIsShallow
<1>7. \A k \in 1..Len(Root) : fin.depths[k] \in 0..(x - 1) => names[k] \in Within[x]
  BY <1>2, <1>3, RuleIsBuildable
<1>8. Within[x] \subseteq E /\ Within[x] \subseteq ToSet(names)
  BY <1>2, <1>3, WithinIsNamed
<1>9. Fulfilled(n, Within[x]) => CalcRefDepth(n, View) <= x
  BY <1>2, <1>3, <1>4, <1>5, <1>6, <1>8, NodeIsShallow
<1>10. CalcRefDepth(n, View) <= x => Fulfilled(n, Within[x])
  BY <1>2, <1>3, <1>4, <1>7, NodeIsBuildable
<1> QED BY <1>1, <1>9, <1>10

\* The shortest of the choices of an Or.
ShortestAt(least, n, kids, choice, v, shortest) ==
  /\ least \in Nat /\ \E k \in 1..n : least = CalcRefDepth(kids[choice[k]], v)
  /\ \A k \in 1..n : least <= CalcRefDepth(kids[choice[k]], v)
  /\ ToSet(shortest) = {k \in 1..n : CalcRefDepth(kids[choice[k]], v) = least}

LEMMA ShortestAre ==
  ASSUME NEW n \in Nat, n # 0, NEW choice, Len(choice) = n,
         NEW kids, NEW v, \A k \in 1..n : CalcRefDepth(kids[choice[k]], v) \in Nat
  PROVE  \E least : ShortestAt(least, n, kids, choice, v, ShortestOf(choice, kids, v))
<1> DEFINE lens == [i \in 1..n |-> CalcRefDepth(kids[choice[i]], v)]
           S == ToSet(lens)
           oks == [i \in 1..n |-> lens[i] = MinIn(S)]
<1>1. \A k \in 1..n : lens[k] = CalcRefDepth(kids[choice[k]], v)
  OBVIOUS
<1>2. ShortestOf(choice, kids, v) = Positions(oks)
  BY DEF ShortestOf
<1>3. S = {lens[k] : k \in 1..n} /\ 1 \in 1..n
  BY DEF ToSet
<1>4. S \in SUBSET Nat /\ S # {}
  <2>1. \A k \in 1..n : lens[k] \in Nat
    BY <1>1
  <2> HIDE DEF lens, S
  <2> QED BY <1>3, <2>1
<1>5. Len(oks) = n /\ \A k \in 1..n : oks[k] <=> lens[k] = MinIn(S)
  <2>1. \A k \in 1..n : oks[k] <=> lens[k] = MinIn(S)
    OBVIOUS
  <2>2. Len(oks) = n
    <3> HIDE DEF lens, S
    <3> QED OBVIOUS
  <2> QED BY <2>1, <2>2
<1> HIDE DEF lens, oks
<1>6. MinIn(S) \in S /\ \A y \in S : MinIn(S) <= y
  <2> HIDE DEF S
  <2> QED BY <1>4, Least
<1>7. ToSet(Positions(oks)) = {k \in 1..n : oks[k]}
  BY <1>5, PositionsHold
<1>8. PICK least : least = MinIn(S)
  OBVIOUS
<1>9. least \in Nat
  BY <1>4, <1>6, <1>8
<1>10. \E k \in 1..n : least = CalcRefDepth(kids[choice[k]], v)
  BY <1>1, <1>3, <1>6, <1>8
<1>11. \A k \in 1..n : least <= CalcRefDepth(kids[choice[k]], v)
  BY <1>1, <1>3, <1>6, <1>8
<1>12. {k \in 1..n : oks[k]} = {k \in 1..n : CalcRefDepth(kids[choice[k]], v) = least}
  BY <1>1, <1>5, <1>8
<1> QED BY <1>2, <1>7, <1>9, <1>10, <1>11, <1>12 DEF ShortestAt

LEMMA FinalizeFindsShortest ==
  ASSUME GrammarInv, FinInv, AnalysisInv
  PROVE  ShortestIsLeast
<1> DEFINE Buildable(i, d) == LET D == Within[d] IN {j \in DOMAIN RootItems(i) : Fulfilled(RootItems(i)[j], D)}
           Leasts(i) == {Buildable(i, d) : d \in 0..Inf} \ {{}}
<1> SUFFICES ASSUME fin.pass = "done", KnownInTime, NEW i \in DOMAIN names, Root[i].live, ~Root[i].keep
             PROVE  {Root[i].choice[k] : k \in ToSet(Root[i].shortest)} =
                      {j \in DOMAIN RootItems(i) : \A S \in Leasts(i) : j \in S}
  BY DEF ShortestIsLeast
<1>1. PICK E, kids, v, n, choice, m :
        /\ E = ToSet(names) /\ kids = RootItems(i) /\ v = View
        /\ n = Len(Root[i].items) /\ choice = Root[i].choice /\ m = Len(choice)
  OBVIOUS
<1>2. NamesInv /\ DepthInv /\ grammar \in Grammars /\ Inf \in Nat \ {0}
  BY InfIsNat DEF AnalysisInv, GrammarInv
<1>3. i \in 1..Len(Root)
  <2>1. AnySeq(names) /\ Len(Root) = Len(names)
    BY Start
  <2> QED BY <2>1, SeqFacts
<1>4. /\ n \in Nat /\ DOMAIN kids = 1..n /\ ToSet(choice) \subseteq 1..n
      /\ choice \in Seq(1..n) /\ m \in Nat
      /\ \A j \in 1..n : kids[j] \in Nodes /\ kids[j] = Root[i].items[j].node
  BY <1>1, <1>3, RuleItemsAre
<1>5. /\ \A k \in 1..m : choice[k] \in ToSet(choice) /\ choice[k] \in 1..n
      /\ \A j \in ToSet(choice) : \E k \in 1..m : choice[k] = j
  BY <1>1, <1>4 DEF ToSet
<1>6. \A j \in 1..n : \A x \in Nat : x < Inf =>
        (CalcRefDepth(kids[j], v) <= x <=> Fulfilled(kids[j], Within[x]))
  BY <1>1, <1>3, ItemDepthIs
<1>7. \A j \in 1..n : CalcRefDepth(kids[j], v) \in Nat
  <2>1. ViewOK(v)
    BY <1>1, <1>2, ViewIsOK DEF DepthInv
  <2>2. \A j \in 1..n : CalcRefDepth(kids[j], v) \in 0..Inf
    BY <1>4, <2>1, CalcRefDepthIs
  <2> QED BY <1>2, <2>2
<1>8. /\ Root[i].shortest = ShortestOf(choice, kids, v)
      /\ fin.depths[i] = RoundDepth(i) /\ fin.depths[i] # Inf
  BY <1>1, <1>2, <1>3 DEF DepthInv, DoneOK, Rounded, RoundShortest
<1>9. PICK k \in ToSet(choice) : CalcRefDepth(kids[k], v) < Inf
  <2>1. RoundDepth(i) \in 0..Inf
    BY <1>2, <1>3, RoundDepthIs DEF DepthInv
  <2>2. PICK x : x = RoundDepth(i) /\ x \in Nat /\ x < Inf /\ x <= x
    BY <1>2, <1>8, <2>1
  <2>3. \E j \in ToSet(choice) : CalcRefDepth(kids[j], v) <= x
    BY <1>1, <1>2, <1>3, <2>2, RoundDepthIs DEF DepthInv
  <2> QED BY <1>2, <1>4, <1>7, <2>2, <2>3
<1>10. m \in Nat /\ m # 0 /\ Len(choice) = m
  BY <1>1, <1>4, <1>5, <1>9
<1>11. PICK least \in Nat :
         /\ \E k1 \in 1..m : least = CalcRefDepth(kids[choice[k1]], v)
         /\ \A k1 \in 1..m : least <= CalcRefDepth(kids[choice[k1]], v)
         /\ ToSet(ShortestOf(choice, kids, v)) = {k1 \in 1..m : CalcRefDepth(kids[choice[k1]], v) = least}
  <2>1. \A k1 \in 1..m : CalcRefDepth(kids[choice[k1]], v) \in Nat
    BY <1>5, <1>7
  <2>2. \E least : ShortestAt(least, m, kids, choice, v, ShortestOf(choice, kids, v))
    BY <1>10, <2>1, ShortestAre
  <2> QED BY <2>2 DEF ShortestAt
<1>12. /\ \A j \in ToSet(choice) : least <= CalcRefDepth(kids[j], v)
       /\ \E j \in ToSet(choice) : CalcRefDepth(kids[j], v) = least
       /\ least < Inf
  <2>1. \A j \in ToSet(choice) : least <= CalcRefDepth(kids[j], v)
    BY <1>5, <1>11
  <2>2. \E j \in ToSet(choice) : CalcRefDepth(kids[j], v) = least
    BY <1>5, <1>11
  <2>3. least < Inf
    BY <1>2, <1>4, <1>7, <1>9, <2>1
  <2> QED BY <2>1, <2>2, <2>3
\* What can be built was found reachable.
<1>13. ASSUME NEW d \in 0..Inf, NEW j \in 1..n, Fulfilled(kids[j], Within[d])
       PROVE  j \in ToSet(choice)
  <2>1. Balanced(E) /\ RulesFound(E)
    BY <1>1, DoneIsBalanced DEF PruneInv
  <2>2. Within[d] \subseteq E
    BY <1>2, <2>1, WithinIsNamed
  <2>3. Fulfilled(kids[j], E)
    BY <1>4, <1>13, <2>2, MoreIsFulfilled
  <2> QED BY <1>1, <1>3, <1>4, <2>1, <2>3 DEF RulesFound, RuleFound, FirstPass
<1>14. ASSUME NEW j \in ToSet(choice), CalcRefDepth(kids[j], v) = least, NEW S \in Leasts(i)
       PROVE  j \in S
  <2>1. PICK d \in 0..Inf : S = Buildable(i, d)
    OBVIOUS
  <2>2. PICK w \in 1..n : Fulfilled(kids[w], Within[d])
    BY <1>1, <1>4, <2>1
  <2>3. Fulfilled(kids[j], Within[d])
    <3>1. CASE d # Inf
      <4>1. d \in Nat /\ d < Inf
        BY <1>2, <3>1
      <4>2. CalcRefDepth(kids[w], v) <= d /\ w \in ToSet(choice)
        BY <1>6, <1>13, <2>2, <4>1
      <4>3. CalcRefDepth(kids[j], v) <= d
        BY <1>4, <1>7, <1>12, <1>14, <4>1, <4>2
      <4> QED BY <1>4, <1>6, <4>1, <4>3
    <3>2. CASE d = Inf
      <4>1. PICK x \in Nat : x = Inf - 1 /\ x < Inf /\ x \in 0..Inf /\ Inf \in 0..Inf /\ x <= Inf /\ least <= x
        BY <1>2, <1>12
      <4>2. Fulfilled(kids[j], Within[x])
        BY <1>4, <1>6, <1>14, <4>1
      <4>3. Within[x] \subseteq Within[d]
        BY <1>2, <3>2, <4>1, WithinGrows
      <4> QED BY <1>4, <4>2, <4>3, MoreIsFulfilled
    <3> QED BY <3>1, <3>2
  <2> QED BY <1>1, <1>4, <2>1, <2>3
<1>15. ASSUME NEW j \in 1..n, \A S \in Leasts(i) : j \in S
       PROVE  j \in ToSet(choice) /\ CalcRefDepth(kids[j], v) = least
  <2>1. PICK w \in ToSet(choice) : CalcRefDepth(kids[w], v) = least
    BY <1>12
  <2>2. Fulfilled(kids[w], Within[least]) /\ least \in 0..Inf /\ w \in 1..n
    BY <1>2, <1>4, <1>6, <1>12, <2>1
  <2>3. w \in Buildable(i, least)
    BY <1>1, <1>4, <2>2
  <2>4. Buildable(i, least) \in Leasts(i)
    BY <2>2, <2>3
  <2>5. j \in Buildable(i, least)
    BY <1>15, <2>4
  <2>6. Fulfilled(kids[j], Within[least])
    BY <1>1, <2>5
  <2>7. CalcRefDepth(kids[j], v) <= least /\ j \in ToSet(choice)
    BY <1>6, <1>12, <1>13, <2>2, <2>6
  <2> QED BY <1>7, <1>12, <2>7
<1>16. {choice[k1] : k1 \in ToSet(Root[i].shortest)} = {j \in ToSet(choice) : CalcRefDepth(kids[j], v) = least}
  BY <1>5, <1>8, <1>11
<1> HIDE DEF Leasts
<1> QED BY <1>1, <1>4, <1>14, <1>15, <1>16

-----------------------------------------------------------------------------
(* The invariant holds.                                                    *)

LEMMA AnalysisRests ==
  ASSUME UNCHANGED gramVars, AnalysisInv
  PROVE  AnalysisInv'
<1>1. UNCHANGED <<grammar, names, index, inline, scopes, visits, fin>> /\ Root' = Root /\ Len(Root') = Len(Root)
      /\ names' = names /\ Len(names') = Len(names) /\ grammar' = grammar
  BY DEF gramVars, Root
<1>2. /\ Called' = Called /\ (FirstPass' <=> FirstPass) /\ Given' = Given
      /\ \A name : FirstOf(name)' = FirstOf(name)
      /\ \A name, items, n : Whole(name, items, n)' <=> Whole(name, items, n)
  BY <1>1 DEF Called, FirstPass, Given, FirstOf, Whole
<1>3. NamesInv'
  <2>1. AddOK'
    BY <1>1, <1>2 DEF AnalysisInv, NamesInv, AddOK
  <2>2. Distinct' /\ CalledOK' /\ OwnNames' /\ InOrder' /\ PrunesGiven'
    BY <1>1, <1>2 DEF AnalysisInv, NamesInv, Distinct, CalledOK, OwnNames, InOrder, PrunesGiven
  <2>3. FirstOK' /\ RulesAre'
    BY <1>1, <1>2 DEF AnalysisInv, NamesInv, FirstOK, RulesAre
  <2> QED BY <2>1, <2>2, <2>3 DEF NamesInv
<1>4. DepthInv'
  <2>1. View' = View
    BY <1>1 DEF View
  <2>2. \A k : Rounded(k)' <=> Rounded(k)
    <3> SUFFICES ASSUME NEW k PROVE Rounded(k)' <=> Rounded(k)
      OBVIOUS
    <3>1. /\ Root'[k].keep = Root[k].keep /\ Root'[k].choice = Root[k].choice
          /\ Root'[k].items = Root[k].items /\ Root'[k].shortest = Root[k].shortest
      BY <1>1
    <3>2. RoundDepth(k)' = RoundDepth(k)
      BY <2>1, <3>1, RoundStays
    <3>3. RoundShortest(k)' = RoundShortest(k)
      <4>1. CASE Root[k].keep
        BY <2>1, <3>1, <4>1, RoundStays DEF RoundShortest
      <4>2. CASE ~Root[k].keep
        BY <2>1, <3>1, <4>2, RoundStays
      <4> QED BY <4>1, <4>2
    <3> QED BY <1>1, <3>1, <3>2, <3>3 DEF Rounded
  <2> QED BY <1>1, <2>2 DEF AnalysisInv, DepthInv, DepthsOK, ToPruneOK, RoundOK, DoneOK
<1>5. ASSUME NEW E, PruneInv(E)
      PROVE  PruneInv(E)'
  <2>1. /\ \A n \in OrNodes : inline'[n].choice = inline[n].choice
        /\ \A i \in 1..Len(Root) : /\ Root'[i].live = Root[i].live /\ Root'[i].keep = Root[i].keep
                                   /\ Root'[i].items = Root[i].items /\ Root'[i].choice = Root[i].choice
        /\ fin'.at = fin.at /\ fin'.toPrune = fin.toPrune /\ fin'.pass = fin.pass /\ fin'.depths = fin.depths
    BY <1>1
  <2>2. Tours(E)' /\ RulesFound(E)' /\ BuildableLive'
    BY <1>1, <1>2, <1>5, <2>1, QuietStep DEF PruneInv
  <2>3. \A name : Lost(name, E)' <=> Lost(name, E)
    BY <1>1, LostStays
  <2>4. PrunesLost(E)' /\ DeadDepths'
    BY <1>1, <1>2, <1>5, <2>3 DEF PruneInv, PrunesLost, DeadDepths
  <2>5. CallsFit(E)'
    <3>1. Kept' = Kept
      BY <1>1, KeptStays
    <3>2. \A n \in Nodes : (FitName(n, E) => FitName(n, E)') /\ (Fit(n, E) => Fit(n, E)')
      BY <1>1, <2>1, <3>1, FitStays
    <3>3. ASSUME NEW call, CallFits(call, E)
          PROVE  CallFits(call, E)'
      <4>1. VisitItems(call)' = VisitItems(call)
        BY <1>1 DEF VisitItems, RootItems
      <4>2. \A n : Toured(n, E) => Toured(n, E)'
        BY <3>2, TouredStays
      <4>3. Found(call, E)' /\ ItemsToured(call, E)'
        <5>1. Found(call, E)'
          BY <3>3, <4>1 DEF CallFits, Found
        <5>2. ASSUME NEW j \in 1..(call.at - 1), NEW n, n = VisitItems(call)[j]
              PROVE  Toured(n, E)' /\ n = VisitItems(call)'[j]
          BY <3>3, <4>1, <4>2, <5>2 DEF CallFits, ItemsToured
        <5> QED BY <5>1, <5>2 DEF ItemsToured
      <4>4. Asked(call.node, E)'
        <5>1. FitName(call.node, E) => FitName(call.node, E)'
          BY <1>1, <2>3, <3>1 DEF FitName
        <5>2. Needs(call.node)' = Needs(call.node)
          BY <1>1, NeedsStay
        <5> QED BY <1>1, <1>2, <3>3, <4>2, <5>1, <5>2 DEF CallFits, Asked
      <4> QED BY <4>3, <4>4 DEF CallFits
    <3>4. PICK calls : calls = visits
      OBVIOUS
    <3>5. visits' = calls
      BY <1>1, <3>4
    <3> QED BY <1>5, <3>3, <3>4, <3>5 DEF PruneInv, CallsFit
  <2> QED BY <2>2, <2>4, <2>5 DEF PruneInv
<1>6. Exact'
  <2> SUFFICES ASSUME fin.pass # "add", NEW E, ToSet(names) \subseteq E, LateFree(E)'
               PROVE  PruneInv(E)'
    BY <1>1 DEF Exact
  <2>1. LateFree(E)
    BY <1>1, LateFreeStays
  <2> QED BY <1>5, <2>1 DEF AnalysisInv, Exact
<1> QED BY <1>3, <1>4, <1>6 DEF AnalysisInv

Analysed ==
  /\ at = "finalize" => FinInv /\ AnalysisInv
  /\ at # "finalize" => fin.pass # "done"

LEMMA AnalysedOn ==
  ASSUME BuildInv, BuildInv', Analysed, [Next]_vars
  PROVE  Analysed'
<1>1. CASE UNCHANGED vars
  <2>1. at' = at /\ fin' = fin /\ UNCHANGED gramVars
    BY <1>1 DEF vars, gramVars
  <2> QED BY <2>1, FinalizeRests, AnalysisRests DEF Analysed
<1>2. CASE FinalizeStep
  <2>1. at = "finalize" /\ at' = "finalize" /\ Finalize
    BY <1>2 DEF FinalizeStep
  <2>2. GrammarInv /\ GrammarInv' /\ FinInv /\ AnalysisInv
    BY <2>1 DEF Analysed, BuildInv
  <2>3. FinInv'
    BY <2>1, <2>2, FinalizeTurns
  <2>4. AnalysisInv'
    BY <2>1, <2>2, <2>3, FinalizeAnalyses
  <2> QED BY <2>1, <2>3, <2>4 DEF Analysed
<1>3. CASE LaunchCampaign
  <2>1. at = "finalize" /\ at' # "finalize" /\ fin' = [fin EXCEPT !.pass = "over"]
    BY <1>3 DEF LaunchCampaign, Forked
  <2>2. fin'.pass = "over"
    BY <2>1 DEF Analysed, FinInv, FinOK
  <2> QED BY <2>1, <2>2 DEF Analysed
<1>4. CASE Build
  BY <1>4, StepsOrFails DEF Build, gramRest, Analysed
<1>5. CASE Next /\ ~FinalizeStep /\ ~LaunchCampaign /\ ~Build
  <2>1. at # "finalize" /\ at' # "finalize" /\ fin' = fin
    <3> USE DEF gramRest, gramVars, genVars, loopVars, Built
    <3>1. CASE Relaunch
      BY <3>1 DEF Relaunch, Forked
    <3>2. CASE Create \/ BuildMutated \/ RunAndCrash \/ DumpEntry
      BY <3>2 DEF Create, BuildMutated, RunAndCrash, DumpEntry, StartBuild
    <3>3. CASE PickInput \/ KeepSnapshot \/ MutateSnapshot
      BY <3>3 DEF PickInput, KeepSnapshot, MutateSnapshot, Mutating
    <3>4. CASE RunQuietly \/ RunWithNews \/ StartDump
      BY <3>4 DEF RunQuietly, RunWithNews, StartDump
    <3> QED BY <1>5, <3>1, <3>2, <3>3, <3>4 DEF Next
  <2> QED BY <2>1 DEF Analysed
<1> QED BY <1>1, <1>2, <1>3, <1>4, <1>5

LEMMA AnalysedIsExact ==
  ASSUME BuildInv, Analysed
  PROVE  PruningIsExact /\ ShortestIsLeast
<1>1. CASE fin.pass = "done"
  BY <1>1, FinalizeIsExact, FinalizeFindsShortest DEF Analysed, BuildInv
<1>2. CASE fin.pass # "done"
  BY <1>2 DEF PruningIsExact, ShortestIsLeast
<1> QED BY <1>1, <1>2

LEMMA AnalysisIsExact == Spec => [](PruningIsExact /\ ShortestIsLeast)
<1>1. Init => Analysed
  <2> SUFFICES ASSUME Init PROVE Analysed
    OBVIOUS
  <2>1. at = "finalize" /\ FinInv /\ AnalysisInv
    BY InitTurns, InitAnalysis DEF Init
  <2> QED BY <2>1 DEF Analysed
<1>2. BuildInv /\ BuildInv' /\ Analysed /\ [Next]_vars => Analysed'
  BY AnalysedOn
<1>3. BuildInv /\ Analysed => PruningIsExact /\ ShortestIsLeast
  BY AnalysedIsExact
<1> QED BY <1>1, <1>2, <1>3, BuildsInOrder, PTL DEF Spec

\* Finalize keeps exactly the rules that can be built with finitely many references,
\* for every grammar: the two calculators of reach.cpp and ref_depth.cpp, which prune by
\* different criteria and see each other's pruning, end in the least fixed point.
THEOREM FinalizeKeepsTheBuildable == Spec => []PruningIsExact
BY AnalysisIsExact, PTL

\* What RefDepth finds shortest among the reachable alternatives of a rule are the ones
\* with the fewest nested references, in every grammar that is KnownInTime and however its
\* rules refer to each other (ref_depth.cpp:16-46).  Builds fall back on these only where
\* all alternatives are reachable (or.cpp:131); choices inside a rule are not meant.
THEOREM ShortestAreFound == Spec => []ShortestIsLeast
BY AnalysisIsExact, PTL
=============================================================================
