------------------------------ MODULE MCReplay ------------------------------
(***************************************************************************)
(* Small grammars for TLC, most of them cut down from the tests of         *)
(* libresmack.                                                             *)
(***************************************************************************)
EXTENDS Replay

\* Items with other items, items that name a rule, and both.
I(kind, kids) == [kind |-> kind, kids |-> kids, name |-> ""]
N(kind, name) == [kind |-> kind, kids |-> <<>>, name |-> name]
IN_(kind, kid, name) == [kind |-> kind, kids |-> <<kid>>, name |-> name]
Rule(name, node) == [name |-> name, node |-> node]

MCNames == {"S", "T", "U", "V", "W"}

MCItem == [
  a |-> I("raw", <<>>), b |-> I("raw", <<>>), c |-> I("raw", <<>>), d |-> I("raw", <<>>),
  int |-> I("draw", <<>>), or_cd |-> I("or", <<"c", "d">>), or_ab |-> I("or", <<"a", "b">>), opt_a |-> I("opt", <<"a">>),
  refS |-> N("ref", "S"), refT |-> N("ref", "T"), refU |-> N("ref", "U"),
  refV |-> N("ref", "V"), refW |-> N("ref", "W"), scopedV |-> N("scoped", "V"),
  idV |-> N("id", "V"), setV |-> IN_("set", "or_ab", "V"), storeV |-> IN_("store", "b", "V"),
  istoreV |-> IN_("istore", "c", "V"), isetV |-> IN_("iset", "c", "V"),
  push |-> I("push", <<>>), pop |-> I("pop", <<>>), flush |-> I("flush", <<>>),
  captured |-> I("captured", <<>>),

  call |-> I("and_s", <<"int", "refS", "refT">>), chain |-> I("and", <<"opt_a", "refS">>), more |-> I("and", <<"b", "refS">>),
  late |-> I("and", <<"refT", "or_ab">>),

  pre_a |-> I("pre", <<"a">>), post_b |-> I("post", <<"b">>),
  wrap |-> I("and", <<"pre_a", "refT", "post_b">>), flushT |-> I("flushed", <<"refU">>),
  pre_int |-> I("pre", <<"int">>), inner |-> I("and", <<"pre_int", "c", "post_b">>),

  decl |-> I("scope", <<"refU">>), use |-> I("and", <<"idV", "decl", "refV">>),
  assign |-> I("and", <<"idV", "refV">>),

  cap |-> I("capture", <<"idV">>), open |-> I("and", <<"push", "cap">>),
  pre_open |-> I("pre", <<"open">>), close |-> I("and", <<"c", "pop">>),
  post_close |-> I("post", <<"close">>),
  cache |-> I("and", <<"pre_open", "captured", "post_close">>),
  two |-> I("and", <<"refT", "refT">>),

  loopU |-> I("and", <<"b", "refU">>), loopT |-> I("and", <<"c", "refT">>),
  opt_W |-> I("opt", <<"refW">>),

  fill |-> I("and", <<"istoreV", "or_set">>), or_set |-> I("or", <<"setV", "isetV">>),
  vars |-> I("and", <<"fill", "storeV", "refV">>), inner_V |-> I("scope", <<"hide">>),
  hide |-> I("and", <<"idV", "scopedV">>), late_V |-> I("and", <<"refV", "idV">>),

  flushFlush |-> I("flushed", <<"flush">>), early |-> I("and", <<"post_b", "flushFlush">>),
  post_T |-> I("post", <<"refT">>), nothing |-> I("and", <<"post_T", "opt_W">>),
  scopePop |-> I("scope", <<"pop">>), pop_push |-> I("and", <<"pop", "push">>), renew |-> I("scope", <<"pop_push">>),
  odd1 |-> I("or", <<"flush", "captured">>), odd2 |-> I("or", <<"pop", "scopePop">>),
  flushed_pre |-> I("and", <<"flush", "pre_a">>),
  or_W |-> I("or", <<"refW">>), opt_or |-> I("opt", <<"or_W">>),
  id_W |-> I("and", <<"refW", "idV">>), opt_id |-> I("opt", <<"id_W">>),
  emptyV |-> IN_("set", "opt_a", "V"), set_W |-> I("and", <<"refW", "emptyV">>),
  scope_W |-> I("scope", <<"opt_W">>), opt_set |-> I("opt", <<"set_W">>),
  or_none |-> I("or", <<>>), opt_none |-> I("opt", <<"or_none">>), flushes |-> I("and", <<"flush", "flush">>)
]

MCHeight[n \in DOMAIN MCItem] ==
  1 + MaxIn({0} \cup {MCHeight[k] : k \in ToSet(MCItem[n].kids)})

\* Choices come before references; S and T refer to each other.
Recursive == <<Rule("S", "a"), Rule("S", "call"), Rule("T", "b"), Rule("T", "chain")>>
Chain == <<Rule("S", "a"), Rule("S", "more")>>
\* The depths of its rules take rounds to find.
Forward == <<Rule("S", "refU"), Rule("S", "refT"), Rule("U", "refT"), Rule("T", "a")>>
\* From the limit on it is three references to the least nesting.
Deep == <<Rule("S", "more"), Rule("S", "refT"), Rule("T", "refU"), Rule("U", "refV"), Rule("V", "a")>>
\* A choice after a reference.
Late == <<Rule("S", "late"), Rule("T", "int")>>
\* test_flush.cpp: PRE, POST and FLUSHED through references.
Flushing == <<Rule("S", "wrap"), Rule("T", "flushT"), Rule("T", "refU"), Rule("U", "inner")>>
\* test_id.cpp and test_store_set.cpp: values that the root collects.
Ids == <<Rule("S", "assign"), Rule("V", "or_cd")>>
\* test_scope.cpp
Scopes == <<Rule("S", "use"), Rule("U", "assign")>>
Caches == <<Rule("S", "two"), Rule("T", "cache")>>
\* test_ref.cpp: references to nothing and in circles.
Circular == <<Rule("S", "refW"), Rule("S", "loopT"), Rule("S", "loopU"), Rule("S", "a"),
              Rule("T", "loopU"), Rule("U", "refT")>>

Stores == <<Rule("S", "vars"), Rule("S", "inner_V"), Rule("V", "a")>>
\* Rules for collected values that are empty when they are built.
Empty == <<Rule("S", "late_V"), Rule("S", "inner_V")>>
\* What is undefined: FLUSH, SCOPE_POP, CAPTURED and POST where they do not belong,
\* choices of nothing and items that no pass has visited.
Odd == <<Rule("S", "early"), Rule("S", "odd1")>>
Scopeless == <<Rule("S", "odd2"), Rule("S", "flushed_pre")>>
Renewed == <<Rule("S", "renew"), Rule("S", "a")>>
Unset == <<Rule("S", "nothing"), Rule("T", "post_b")>>
Missing == <<Rule("S", "opt_or"), Rule("S", "opt_id")>>
Unvisited == <<Rule("S", "opt_set"), Rule("S", "flushes")>>
Nowhere == <<Rule("S", "scope_W")>>
\* A choice that was built without items.
Bare == <<Rule("S", "opt_none"), Rule("S", "a")>>
\* Nothing is left of it.
Lost == <<Rule("S", "refW"), Rule("S", "refT"), Rule("T", "refT")>>

MCGrammars == {Recursive, Chain, Forward, Deep, Late, Flushing, Ids, Scopes, Caches, Circular, Stores, Empty,
               Odd, Scopeless, Renewed, Unset, Missing, Unvisited, Nowhere, Bare, Lost}
\* Three iterations mutate what a mutation made.
MCIters == [g \in MCGrammars |->
  IF g \in {Forward, Renewed, Unset, Missing, Unvisited, Nowhere, Bare} THEN 1
  ELSE IF g \in {Recursive, Deep, Late, Flushing, Ids, Caches, Scopes, Stores} THEN 2 ELSE 3]
=============================================================================
