---------------------------- MODULE ContextProofs ---------------------------
(***************************************************************************)
(* What a build leaves behind, for every grammar: the items redirect the   *)
(* output, save and restore the context, push scopes and put items off in  *)
(* nested calls; the frames of the calls in progress tell what each of     *)
(* them finds when the ones inside it have returned.                       *)
(***************************************************************************)
EXTENDS GrammarProofs

-----------------------------------------------------------------------------
(* Frames, from the outmost in.                                            *)

Level(w, j) == w[Len(w) + 1 - j]

\* v has f in the place of the frame on top of w.
Splice(w, f, v) ==
  /\ AnySeq(v) /\ Len(w) \in Nat \ {0} /\ Len(f) \in Nat /\ Len(v) = Len(w) - 1 + Len(f)
  /\ f = <<>> <=> Len(f) = 0
  /\ Level(w, Len(w)) = w[1]
  /\ \A j \in 1..(Len(w) - 1) : Level(v, j) = Level(w, j)
  /\ f # <<>> => Level(v, Len(w)) = f[Len(f)]
  /\ \A j \in (Len(w) + 1)..Len(v) : \E i \in 1..(Len(f) - 1) : Level(v, j) = f[i]
  /\ \A i \in 1..Len(f) : v[i] = f[i]

LEMMA Spliced ==
  ASSUME NEW w, AnySeq(w), w # <<>>, NEW f, AnySeq(f), NEW v, v = f \o Tail(w)
  PROVE  Splice(w, f, v)
<1>1. /\ AnySeq(v) /\ Len(f) \in Nat /\ Len(w) \in Nat \ {0}
      /\ Len(v) = Len(f) + Len(w) - 1
      /\ \A i \in 1..Len(f) : v[i] = f[i]
      /\ \A i \in (Len(f) + 1)..(Len(f) + Len(w) - 1) : v[i] = w[i - Len(f) + 1]
  BY Joined
<1>2. ASSUME NEW j \in 1..(Len(w) - 1)
      PROVE  Level(v, j) = Level(w, j)
  <2> DEFINE i == Len(v) + 1 - j
  <2>1. i \in (Len(f) + 1)..(Len(f) + Len(w) - 1) /\ i - Len(f) + 1 = Len(w) + 1 - j
    BY <1>1
  <2> HIDE DEF i
  <2>2. v[i] = w[i - Len(f) + 1]
    BY <1>1, <2>1
  <2> QED BY <2>1, <2>2 DEF Level, i
<1>3. f # <<>> => Level(v, Len(w)) = f[Len(f)]
  <2> SUFFICES ASSUME f # <<>> PROVE Level(v, Len(w)) = f[Len(f)]
    OBVIOUS
  <2>1. Len(f) \in 1..Len(f)
    BY <1>1, SeqFacts
  <2>2. Len(v) + 1 - Len(w) = Len(f)
    BY <1>1
  <2> QED BY <2>1, <2>2, <1>1 DEF Level
<1>4. ASSUME NEW j \in (Len(w) + 1)..Len(v)
      PROVE  \E i \in 1..(Len(f) - 1) : Level(v, j) = f[i]
  <2> DEFINE i == Len(v) + 1 - j
  <2>1. i \in 1..(Len(f) - 1) /\ i \in 1..Len(f)
    BY <1>1
  <2> HIDE DEF i
  <2>2. v[i] = f[i]
    BY <1>1, <2>1
  <2> QED BY <2>1, <2>2 DEF Level, i
<1>5. Level(w, Len(w)) = w[1]
  BY <1>1 DEF Level
<1> QED BY <1>1, <1>2, <1>3, <1>4, <1>5, SeqFacts DEF Splice

-----------------------------------------------------------------------------
(* What a frame on top finds: the place of the output and the number of    *)
(* strings.                                                                *)

Saves(f) == f.op \in {"end_pre", "end_flushed"}
Still(f) == ~Saves(f) /\ f.op \notin {"leave", "end_store"}

\* The output and the number of strings when it has ended, and the pre output then.
After(f, out) == IF Saves(f) THEN f.out ELSE out
Weight(f) ==
  IF f.op = "end_flushed" THEN 2
  ELSE IF f.op = "end_pre" \/ (f.op = "leave" /\ f.own) THEN 1 ELSE 0
SavedPre(f, out) == IF f.op = "end_pre" THEN out ELSE f.pre

\* out and len: of each frame, from the outmost in.  Nothing that pre_output is or
\* will be is the output of a frame further out.
Chain(w, o, p, b, out, len) ==
  /\ \A j \in 1..Len(w) : out[j] \in 1..len[j] /\ len[j] \in 1..Len(b)
  /\ \A j, k \in 1..Len(w) : j <= k => len[j] <= len[k]
  /\ out[1] = 1 /\ out[Len(w)] = o /\ len[Len(w)] = Len(b)
  /\ \A j \in 2..Len(w) : /\ out[j - 1] = After(Level(w, j), out[j])
                          /\ len[j - 1] = len[j] - Weight(Level(w, j))
  /\ \A j \in 1..Len(w) : p # out[j]
  /\ \A j \in 1..Len(w) : Saves(Level(w, j)) =>
       /\ SavedPre(Level(w, j), out[j]) \in -1..(len[j] - Weight(Level(w, j)))
       /\ \A k \in 1..(j - 1) : out[k] # SavedPre(Level(w, j), out[j])
  /\ \A j \in 1..Len(w) : Level(w, j).op = "end_store" => Level(w, j).start \in 0..Len(b[out[j]])
  /\ \A j, k \in 1..Len(w) :
       j < k /\ Level(w, j).op = "end_store" /\ Level(w, k).op = "end_store" /\ out[j] = out[k] =>
         Level(w, j).start <= Level(w, k).start

\* A step that puts f in the place of the frame t fits.
Fits(t, f, o, p, b, o2, p2, e) ==
  LET g == f[Len(f)] IN
  /\ \A i \in 1..(Len(f) - 1) : Still(f[i])
  /\ p2 \in -1..Len(e)
  /\ p2 = p \/ p2 \notin 1..Len(b) \/ (Saves(t) /\ p2 = SavedPre(t, o))
  /\ f = <<>> => o2 = After(t, o) /\ Len(e) = Len(b) - Weight(t)
  /\ f # <<>> => /\ o2 \in 1..Len(e) /\ p2 # o2
                 /\ After(g, o2) = After(t, o) /\ Len(e) - Weight(g) = Len(b) - Weight(t)
                 /\ Saves(g) => SavedPre(g, o2) = p /\ Weight(t) = 0
                 /\ g.op = "end_store" => o2 = o /\ g.start = Len(b[o]) /\ g.start <= Len(e[o])
  /\ \A s \in 1..Len(b) : s <= Len(e) /\ s # p =>
       Len(b[s]) <= Len(e[s]) \/ (s = o /\ t.op = "end_store" /\ t.start <= Len(e[s]))

Linked(w, o, p, b) == \E out, len : Chain(w, o, p, b, out, len)

LEMMA ChainStep ==
  ASSUME NEW w, NEW f, NEW v, Splice(w, f, v), v # <<>>,
         NEW o, NEW p, NEW b \in Seq(Texts), NEW o2, NEW p2, NEW e \in Seq(Texts),
         p \in -1..Len(b), Fits(w[1], f, o, p, b, o2, p2, e), Len(w) = 1 => o2 = 1,
         NEW out, NEW len, Chain(w, o, p, b, out, len)
  PROVE  \E out2, len2 : Chain(v, o2, p2, e, out2, len2)
<1> DEFINE n == Len(w)
           m == Len(f)
           g == f[m]
           t == w[1]
           O == [j \in 1..Len(v) |-> IF j < n THEN out[j] ELSE o2]
           L == [j \in 1..Len(v) |-> IF j < n THEN len[j] ELSE Len(e)]
<1>1. /\ n \in Nat \ {0} /\ m \in Nat /\ Len(v) = n - 1 + m /\ (f = <<>> <=> m = 0)
      /\ Level(w, n) = t
      /\ \A j \in 1..(n - 1) : Level(v, j) = Level(w, j)
      /\ f # <<>> => Level(v, n) = g
      /\ \A j \in (n + 1)..Len(v) : \E i \in 1..(m - 1) : Level(v, j) = f[i]
  BY DEF Splice
<1>2. Len(b) \in Nat /\ Len(e) \in Nat /\ Len(v) \in Nat \ {0}
  BY SeqFacts DEF Splice
<1>3. /\ \A i \in 1..(m - 1) : Still(f[i])
      /\ p2 \in -1..Len(e)
      /\ p2 = p \/ p2 \notin 1..Len(b) \/ (Saves(t) /\ p2 = SavedPre(t, o))
      /\ m = 0 => o2 = After(t, o) /\ Len(e) = Len(b) - Weight(t)
      /\ m # 0 => /\ o2 \in 1..Len(e) /\ p2 # o2
                  /\ After(g, o2) = After(t, o) /\ Len(e) - Weight(g) = Len(b) - Weight(t)
                  /\ Saves(g) => SavedPre(g, o2) = p /\ Weight(t) = 0
                  /\ g.op = "end_store" => o2 = o /\ g.start = Len(b[o]) /\ g.start <= Len(e[o])
      /\ \A s \in 1..Len(b) : s <= Len(e) /\ s # p =>
           Len(b[s]) <= Len(e[s]) \/ (s = o /\ t.op = "end_store" /\ t.start <= Len(e[s]))
  BY <1>1 DEF Fits
<1>4. /\ \A j \in 1..n : out[j] \in 1..len[j] /\ len[j] \in 1..Len(b)
      /\ \A j, k \in 1..n : j <= k => len[j] <= len[k]
      /\ out[1] = 1 /\ out[n] = o /\ len[n] = Len(b)
      /\ \A j \in 2..n : /\ out[j - 1] = After(Level(w, j), out[j])
                         /\ len[j - 1] = len[j] - Weight(Level(w, j))
      /\ \A j \in 1..n : p # out[j]
  BY DEF Chain
<1> HIDE DEF n, m, g, t
<1>5. /\ \A j \in 1..Len(v) : j < n => O[j] = out[j] /\ L[j] = len[j]
      /\ \A j \in 1..Len(v) : j >= n => O[j] = o2 /\ L[j] = Len(e)
  BY <1>1
<1> HIDE DEF O, L
<1>6. n > 1 => out[n - 1] = After(t, o) /\ len[n - 1] = Len(b) - Weight(t)
  <2> SUFFICES ASSUME n > 1 PROVE out[n - 1] = After(t, o) /\ len[n - 1] = Len(b) - Weight(t)
    OBVIOUS
  <2>1. n \in 2..n
    BY <1>1
  <2> QED BY <1>1, <1>4, <2>1
<1>w. Weight(t) \in 0..2 /\ Weight(g) \in 0..2
  BY DEF Weight
<1>7. ASSUME NEW j \in 1..Len(v)
      PROVE  /\ O[j] \in 1..L[j] /\ L[j] \in 1..Len(e)
             /\ j < n => len[j] <= Len(e)
  <2>1. CASE j < n
    <3>1. len[n - 1] <= Len(e)
      BY <2>1, <1>1, <1>2, <1>3, <1>6, <1>w
    <3>2. j \in 1..n /\ n - 1 \in 1..n /\ j <= n - 1
      BY <2>1, <1>1
    <3>3. len[j] <= len[n - 1] /\ out[j] \in 1..len[j] /\ len[j] \in 1..Len(b) /\ len[n - 1] \in 1..Len(b)
      BY <3>2, <1>4
    <3> QED BY <2>1, <3>1, <3>3, <1>2, <1>5
  <2>2. CASE j >= n
    <3>1. m # 0
      BY <2>2, <1>1, <1>2
    <3> QED BY <2>2, <3>1, <1>2, <1>3, <1>5
  <2> QED BY <2>1, <2>2, <1>1
<1>8. \A j, k \in 1..Len(v) : j <= k => L[j] <= L[k]
  <2> SUFFICES ASSUME NEW j \in 1..Len(v), NEW k \in 1..Len(v), j <= k PROVE L[j] <= L[k]
    OBVIOUS
  <2>1. CASE k < n
    BY <2>1, <1>1, <1>4, <1>5
  <2>2. CASE k >= n
    BY <2>2, <1>1, <1>2, <1>5, <1>7
  <2> QED BY <2>1, <2>2, <1>1
<1>c. \A j \in 1..Len(v) :
        \/ j < n /\ j \in 1..n /\ O[j] = out[j] /\ L[j] = len[j] /\ Level(v, j) = Level(w, j)
        \/ j = n /\ m # 0 /\ O[j] = o2 /\ L[j] = Len(e) /\ Level(v, j) = g
        \/ j > n /\ m # 0 /\ O[j] = o2 /\ L[j] = Len(e) /\ Still(Level(v, j))
  <2> SUFFICES ASSUME NEW j \in 1..Len(v)
               PROVE  \/ j < n /\ j \in 1..n /\ O[j] = out[j] /\ L[j] = len[j] /\ Level(v, j) = Level(w, j)
                      \/ j = n /\ m # 0 /\ O[j] = o2 /\ L[j] = Len(e) /\ Level(v, j) = g
                      \/ j > n /\ m # 0 /\ O[j] = o2 /\ L[j] = Len(e) /\ Still(Level(v, j))
    OBVIOUS
  <2>1. CASE j < n
    <3>1. j \in 1..(n - 1) /\ j \in 1..n
      BY <2>1, <1>1
    <3> QED BY <2>1, <3>1, <1>1, <1>5
  <2>2. CASE j = n
    BY <2>2, <1>1, <1>5
  <2>3. CASE j > n
    <3>1. j \in (n + 1)..Len(v) /\ m # 0
      BY <2>3, <1>1
    <3>2. Still(Level(v, j))
      BY <3>1, <1>1, <1>3
    <3> QED BY <2>3, <3>1, <3>2, <1>1, <1>5
  <2> QED BY <2>1, <2>2, <2>3, <1>1
<1>9. ASSUME NEW j \in 2..Len(v)
      PROVE  O[j - 1] = After(Level(v, j), O[j]) /\ L[j - 1] = L[j] - Weight(Level(v, j))
  <2>1. j \in 1..Len(v) /\ j - 1 \in 1..Len(v)
    BY <1>2
  <2>2. CASE j < n
    <3>1. j \in 2..n /\ j - 1 < n /\ Level(v, j) = Level(w, j) /\ O[j] = out[j] /\ L[j] = len[j]
      BY <2>1, <2>2, <1>1, <1>c
    <3>2. O[j - 1] = out[j - 1] /\ L[j - 1] = len[j - 1]
      BY <2>1, <3>1, <1>5
    <3> QED BY <3>1, <3>2, <1>4
  <2>3. CASE j = n
    <3>1. n > 1 /\ m # 0 /\ O[j] = o2 /\ L[j] = Len(e) /\ Level(v, j) = g
      BY <2>1, <2>3, <1>1, <1>c
    <3>2. O[j - 1] = out[n - 1] /\ L[j - 1] = len[n - 1]
      BY <2>1, <2>3, <1>1, <1>5
    <3> QED BY <3>1, <3>2, <1>2, <1>3, <1>6, <1>w
  <2>4. CASE j > n
    <3>1. m # 0 /\ O[j] = o2 /\ L[j] = Len(e) /\ Still(Level(v, j))
      BY <2>1, <2>4, <1>1, <1>c
    <3>2. O[j - 1] = o2 /\ L[j - 1] = Len(e)
      BY <2>1, <2>4, <1>1, <1>5
    <3>3. After(Level(v, j), o2) = o2 /\ Weight(Level(v, j)) = 0
      BY <3>1 DEF Still, After, Weight, Saves
    <3> QED BY <3>1, <3>2, <3>3, <1>2
  <2> QED BY <2>2, <2>3, <2>4, <1>1
<1>10. O[1] = 1 /\ O[Len(v)] = o2 /\ L[Len(v)] = Len(e)
  <2>1. 1 \in 1..Len(v) /\ Len(v) \in 1..Len(v)
    BY <1>2
  <2>2. O[1] = 1
    <3>1. CASE n = 1
      <4>1. o2 = 1 /\ O[1] = o2
        BY <2>1, <3>1, <1>5 DEF n
      <4> QED BY <4>1
    <3>2. CASE n > 1
      BY <2>1, <3>2, <1>4, <1>5
    <3> QED BY <3>1, <3>2, <1>1
  <2>3. O[Len(v)] = o2 /\ L[Len(v)] = Len(e)
    <3>1. CASE m = 0
      <4>1. Len(v) = n - 1 /\ n > 1
        BY <3>1, <1>1, <1>2
      <4>2. O[n - 1] = out[n - 1] /\ L[n - 1] = len[n - 1]
        BY <2>1, <4>1, <1>1, <1>5
      <4> QED BY <3>1, <4>1, <4>2, <1>2, <1>3, <1>6
    <3>2. CASE m # 0
      BY <2>1, <3>2, <1>1, <1>5
    <3> QED BY <3>1, <3>2
  <2> QED BY <2>2, <2>3
<1>o. \A j \in 1..n : out[j] \in 1..Len(b) /\ out[j] <= Len(b)
  BY <1>2, <1>4
\* The strings that are saved are not the output of frames further out.
<1>s. /\ \A j \in 1..n : Saves(Level(w, j)) =>
           /\ SavedPre(Level(w, j), out[j]) \in -1..(len[j] - Weight(Level(w, j)))
           /\ \A k \in 1..(j - 1) : out[k] # SavedPre(Level(w, j), out[j])
  BY DEF Chain, n
<1>11. \A j \in 1..Len(v) : p2 # O[j]
  <2> SUFFICES ASSUME NEW j \in 1..Len(v) PROVE p2 # O[j]
    OBVIOUS
  <2>1. CASE j < n
    <3>1. j \in 1..n /\ O[j] = out[j] /\ n \in 1..n /\ j \in 1..(n - 1)
      BY <2>1, <1>1, <1>c
    <3>2. CASE p2 = p
      BY <3>1, <3>2, <1>4
    <3>3. CASE p2 \notin 1..Len(b)
      BY <3>1, <3>3, <1>o
    <3>4. CASE Saves(t) /\ p2 = SavedPre(t, o)
      BY <3>1, <3>4, <1>1, <1>4, <1>s
    <3> QED BY <3>2, <3>3, <3>4, <1>3
  <2>2. CASE j >= n
    BY <2>2, <1>1, <1>3, <1>c
  <2> QED BY <2>1, <2>2, <1>1
<1>12. ASSUME NEW j \in 1..Len(v), Saves(Level(v, j))
       PROVE  /\ SavedPre(Level(v, j), O[j]) \in -1..(L[j] - Weight(Level(v, j)))
              /\ \A k \in 1..(j - 1) : O[k] # SavedPre(Level(v, j), O[j])
  <2>1. \A k \in 1..(j - 1) : k \in 1..Len(v) /\ (j <= n => k < n /\ k \in 1..n)
    BY <1>1, <1>2
  <2>2. CASE j < n
    <3>1. j \in 1..n /\ O[j] = out[j] /\ L[j] = len[j] /\ Level(v, j) = Level(w, j)
      BY <2>2, <1>1, <1>c
    <3>2. \A k \in 1..(j - 1) : O[k] = out[k]
      <4>1. \A k \in 1..(j - 1) : k \in 1..Len(v) /\ k < n
        BY <2>1, <2>2, <1>1
      <4> QED BY <4>1, <1>5
    <3> QED BY <3>1, <3>2, <1>12, <1>s
  <2>3. CASE j = n
    <3>1. m # 0 /\ O[j] = o2 /\ L[j] = Len(e) /\ Level(v, j) = g /\ Saves(g)
      BY <2>3, <1>1, <1>c, <1>12
    <3>2. SavedPre(g, o2) = p /\ Len(e) - Weight(g) = Len(b)
      BY <3>1, <1>2, <1>3
    <3>3. \A k \in 1..(j - 1) : O[k] # p
      BY <2>1, <2>3, <1>4, <1>5
    <3> QED BY <3>1, <3>2, <3>3
  <2>4. CASE j > n
    BY <2>4, <1>1, <1>c, <1>12 DEF Still
  <2> QED BY <2>2, <2>3, <2>4, <1>1
\* The texts that are being collected.
<1>t. /\ \A j \in 1..n : Level(w, j).op = "end_store" => Level(w, j).start \in 0..Len(b[out[j]])
      /\ \A j, k \in 1..n :
           j < k /\ Level(w, j).op = "end_store" /\ Level(w, k).op = "end_store" /\ out[j] = out[k] =>
             Level(w, j).start <= Level(w, k).start
  BY DEF Chain, n
<1>u. ASSUME NEW j \in 1..n, j < n, out[j] <= Len(e), Level(w, j).op = "end_store"
      PROVE  Level(w, j).start \in 0..Len(e[out[j]])
  <2> DEFINE s == out[j]
  <2>1. s \in 1..Len(b) /\ s <= Len(e) /\ s # p
    BY <1>4, <1>o, <1>u
  <2>2. Level(w, j).start \in 0..Len(b[s])
    BY <1>t, <1>u
  <2>3. Len(b[s]) \in Nat /\ Len(e[s]) \in Nat
    BY <2>1, <1>2 DEF Texts
  <2> HIDE DEF s
  <2>4. CASE Len(b[s]) <= Len(e[s])
    BY <2>2, <2>3, <2>4, <1>u DEF s
  <2>5. CASE s = o /\ t.op = "end_store" /\ t.start <= Len(e[s])
    <3>1. out[j] = out[n] /\ n \in 1..n /\ Level(w, n).op = "end_store"
      BY <2>5, <1>1, <1>4 DEF s
    <3>2. Level(w, j).start <= t.start
      BY <3>1, <1>1, <1>t, <1>u
    <3>3. t.start \in Nat
      BY <3>1, <1>1, <1>2, <1>t, <1>u, <2>1, <2>3 DEF s
    <3> QED BY <2>2, <2>3, <2>5, <3>2, <3>3 DEF s
  <2> QED BY <2>1, <2>4, <2>5, <1>3
<1>13. ASSUME NEW j \in 1..Len(v), Level(v, j).op = "end_store"
       PROVE  Level(v, j).start \in 0..Len(e[O[j]])
  <2>1. CASE j < n
    <3>1. j \in 1..n /\ O[j] = out[j] /\ Level(v, j) = Level(w, j)
      BY <2>1, <1>1, <1>c
    <3>2. out[j] <= Len(e)
      BY <3>1, <1>2, <1>7
    <3> QED BY <2>1, <3>1, <3>2, <1>13, <1>u
  <2>2. CASE j = n
    <3>1. m # 0 /\ O[j] = o2 /\ Level(v, j) = g /\ g.op = "end_store"
      BY <2>2, <1>1, <1>c, <1>13
    <3>2. g.start = Len(b[o]) /\ g.start <= Len(e[o]) /\ o2 = o /\ o \in 1..Len(b)
      BY <3>1, <1>1, <1>3, <1>4
    <3>3. Len(b[o]) \in Nat /\ Len(e[o]) \in Nat
      <4>1. o \in 1..Len(e)
        BY <3>1, <3>2, <1>3
      <4>2. b[o] \in Texts /\ e[o] \in Texts
        BY <3>2, <4>1
      <4> QED BY <4>2 DEF Texts
    <3> QED BY <3>1, <3>2, <3>3
  <2>3. CASE j > n
    BY <2>3, <1>1, <1>c, <1>13 DEF Still
  <2> QED BY <2>1, <2>2, <2>3, <1>1
<1>14. ASSUME NEW j \in 1..Len(v), NEW k \in 1..Len(v), j < k, O[j] = O[k],
              Level(v, j).op = "end_store", Level(v, k).op = "end_store"
       PROVE  Level(v, j).start <= Level(v, k).start
  <2>1. k <= n
    BY <1>1, <1>c, <1>14 DEF Still
  <2>2. j < n /\ j \in 1..n /\ O[j] = out[j] /\ Level(v, j) = Level(w, j)
    BY <2>1, <1>1, <1>c, <1>14
  <2>3. CASE k < n
    <3>1. k \in 1..n /\ O[k] = out[k] /\ Level(v, k) = Level(w, k)
      BY <2>3, <1>1, <1>c
    <3> QED BY <2>2, <3>1, <1>14, <1>t
  <2>4. CASE k = n
    <3>1. m # 0 /\ O[k] = o2 /\ Level(v, k) = g /\ g.op = "end_store"
      BY <2>4, <1>1, <1>c, <1>14
    <3>2. g.start = Len(b[o]) /\ o2 = o
      BY <3>1, <1>3
    <3>3. Level(w, j).start \in 0..Len(b[o])
      BY <2>2, <3>1, <3>2, <1>14, <1>t
    <3> QED BY <2>2, <3>1, <3>2, <3>3
  <2> QED BY <2>1, <2>3, <2>4, <1>1
<1>15. Chain(v, o2, p2, e, O, L)
  BY <1>7, <1>8, <1>9, <1>10, <1>11, <1>12, <1>13, <1>14 DEF Chain
<1> QED BY <1>15

-----------------------------------------------------------------------------
(* The rest of what the frames tell.                                       *)

\* Rules::Build of the top rule: the outmost frame.
Outmost(f) == f.op \in {"top", "end"} \/ (f.op = "leave" /\ f.depth = 0)

Shape(w, posts) ==
  /\ w # <<>> => Outmost(Level(w, 1))
  /\ \A j \in 2..Len(w) : ~Outmost(Level(w, j))
  /\ w # <<>> /\ Level(w, 1).op = "end" =>
       IF Len(w) = 1 THEN posts = <<>> ELSE Level(w, 2).op \in {"flush", "flushed"}

FitsShape(t, f, posts2) ==
  /\ ~Outmost(t) /\ \A i \in 1..Len(f) : ~Outmost(f[i])
  /\ t.op \in {"flush", "flushed"} => IF f = <<>> THEN posts2 = <<>> ELSE f[Len(f)].op = "flushed"

LEMMA ShapeStep ==
  ASSUME NEW w, NEW f, NEW v, Splice(w, f, v), w # <<>>, NEW posts, NEW posts2,
         Shape(w, posts), FitsShape(w[1], f, posts2)
  PROVE  Shape(v, posts2) /\ Len(w) > 1 /\ v # <<>>
<1>1. /\ Len(w) \in Nat \ {0} /\ Len(f) \in Nat /\ Len(v) = Len(w) - 1 + Len(f)
      /\ f = <<>> <=> Len(f) = 0
      /\ Level(w, Len(w)) = w[1]
      /\ \A j \in 1..(Len(w) - 1) : Level(v, j) = Level(w, j)
      /\ f # <<>> => Level(v, Len(w)) = f[Len(f)]
      /\ \A j \in (Len(w) + 1)..Len(v) : \E i \in 1..(Len(f) - 1) : Level(v, j) = f[i]
  BY DEF Splice
<1>2. Len(w) > 1
  <2>1. CASE Len(w) = 1
    BY <2>1, <1>1 DEF Shape, FitsShape
  <2>2. Len(w) \in Nat \ {0}
    BY <1>1
  <2> QED BY <2>1, <2>2
<1>3. v # <<>>
  BY <1>1, <1>2, SeqFacts DEF Splice
<1>4. Level(v, 1) = Level(w, 1)
  BY <1>1, <1>2
<1>5. ASSUME NEW j \in 2..Len(v)
      PROVE  ~Outmost(Level(v, j))
  <2>1. CASE j < Len(w)
    BY <2>1, <1>1, <1>2 DEF Shape
  <2>2. CASE j = Len(w)
    <3>1. f # <<>> /\ Len(f) \in 1..Len(f)
      BY <2>2, <1>1
    <3> QED BY <2>2, <3>1, <1>1 DEF FitsShape
  <2>3. CASE j > Len(w)
    <3>1. PICK i \in 1..(Len(f) - 1) : Level(v, j) = f[i]
      BY <2>3, <1>1
    <3>2. i \in 1..Len(f)
      BY <1>1
    <3> QED BY <3>1, <3>2 DEF FitsShape
  <2> QED BY <2>1, <2>2, <2>3, <1>1
<1>6. ASSUME Level(v, 1).op = "end"
      PROVE  IF Len(v) = 1 THEN posts2 = <<>> ELSE Level(v, 2).op \in {"flush", "flushed"}
  <2>1. Level(w, 2).op \in {"flush", "flushed"}
    BY <1>2, <1>3, <1>4, <1>6 DEF Shape
  <2>2. CASE Len(w) = 2
    <3>1. w[1].op \in {"flush", "flushed"}
      BY <2>1, <2>2, <1>1
    <3> QED BY <2>2, <3>1, <1>1 DEF FitsShape
  <2>3. CASE Len(w) # 2
    <3>1. 2 \in 1..(Len(w) - 1) /\ Len(v) # 1
      <4>1. Len(w) \in Nat /\ Len(f) \in Nat /\ Len(v) = Len(w) - 1 + Len(f)
        BY <1>1
      <4>2. \A a, b, c : a \in Nat /\ b \in Nat /\ c = a - 1 + b /\ a > 1 /\ a # 2 =>
              2 \in 1..(a - 1) /\ c # 1
        OBVIOUS
      <4> QED BY <2>3, <4>1, <4>2, <1>2
    <3>2. Level(v, 2) = Level(w, 2)
      BY <3>1, <1>1
    <3> QED BY <2>1, <3>1, <3>2
  <2> QED BY <2>2, <2>3
<1> QED BY <1>2, <1>3, <1>4, <1>5, <1>6 DEF Shape

\* n scopes; without SCOPE_POP the scopes of the frames are still there, without
\* SCOPE_PUSH too no others are.
Scoping(w, n, popped, pushed) ==
  /\ n \in Nat \ {0}
  /\ ~popped => \A j \in 1..Len(w) : Level(w, j).op = "end_scope" =>
       /\ Level(w, j).outer \in 1..(n - 1)
       /\ \A k \in 1..(j - 1) : Level(w, k).op = "end_scope" => Level(w, k).outer < Level(w, j).outer
  /\ ~popped /\ ~pushed =>
       n = 1 \/ \E j \in 1..Len(w) : Level(w, j).op = "end_scope" /\ Level(w, j).outer = 1

FitsScopes(t, f, n, n2, popped, pushed) ==
  LET NoMark(k) == \A i \in 1..k : f[i].op # "end_scope" IN
  \/ n2 = n /\ t.op # "end_scope" /\ NoMark(Len(f))
  \/ /\ n2 = n + 1 /\ t.op # "end_scope" /\ f # <<>> /\ NoMark(Len(f) - 1)
     /\ f[Len(f)].op = "end_scope" /\ f[Len(f)].outer = n
  \/ n2 = t.outer /\ n2 \in Nat \ {0} /\ t.op = "end_scope" /\ f = <<>>
  \/ n2 \in Nat \ {0} /\ t.op # "end_scope" /\ f = <<>> /\ (popped \/ (pushed /\ n2 = n + 1))

LEMMA ScopingStep ==
  ASSUME NEW w, NEW f, NEW v, Splice(w, f, v), NEW n, NEW n2, NEW popped, NEW pushed,
         Scoping(w, n, popped, pushed), FitsScopes(w[1], f, n, n2, popped, pushed)
  PROVE  Scoping(v, n2, popped, pushed)
<1> DEFINE h == Len(w)
           m == Len(f)
           t == w[1]
           Scope(x) == x.op = "end_scope"
<1>1. /\ h \in Nat \ {0} /\ m \in Nat /\ Len(v) = h - 1 + m
      /\ f = <<>> <=> m = 0
      /\ Level(w, h) = t
      /\ \A j \in 1..(h - 1) : Level(v, j) = Level(w, j)
      /\ f # <<>> => Level(v, h) = f[m]
      /\ \A j \in (h + 1)..Len(v) : \E i \in 1..(m - 1) : Level(v, j) = f[i]
  BY DEF Splice
<1>2. n \in Nat \ {0} /\ n2 \in Nat \ {0}
  BY DEF Scoping, FitsScopes
<1>3. \A j \in 1..Len(v) : j > h => ~Scope(Level(v, j))
  <2>1. \A i \in 1..(m - 1) : f[i].op # "end_scope"
    BY <1>1 DEF FitsScopes
  <2>2. ASSUME NEW j \in 1..Len(v), j > h
        PROVE  ~Scope(Level(v, j))
    <3>1. j \in (h + 1)..Len(v)
      BY <2>2, <1>1
    <3>2. PICK i \in 1..(m - 1) : Level(v, j) = f[i]
      BY <3>1, <1>1
    <3> QED BY <2>1, <3>2
  <2> QED BY <2>2
<1>4. \A j \in 1..Len(v) : j < h => j \in 1..h /\ Level(v, j) = Level(w, j)
  BY <1>1
\* The frame in the place of t, if it is one of a scope.
<1>5. \A j \in 1..Len(v) : j = h /\ Scope(Level(v, j)) => Level(v, j).outer = n /\ n2 = n + 1
  <2>1. \A j \in 1..Len(v) : j = h => m # 0 /\ Level(v, j) = f[m] /\ m \in 1..m
    BY <1>1
  <2> HIDE DEF h
  <2> QED BY <2>1 DEF FitsScopes
<1>6. ASSUME ~popped
      PROVE  /\ \A j \in 1..h : Scope(Level(w, j)) => Level(w, j).outer \in 1..(n - 1)
             /\ \A j, k \in 1..h : k < j /\ Scope(Level(w, j)) /\ Scope(Level(w, k)) =>
                  Level(w, k).outer < Level(w, j).outer
  BY <1>1, <1>6 DEF Scoping
<1> HIDE DEF h, m, t
<1>7. ASSUME ~popped, NEW j \in 1..Len(v), Scope(Level(v, j))
      PROVE  /\ Level(v, j).outer \in 1..(n2 - 1)
             /\ \A k \in 1..(j - 1) : Scope(Level(v, k)) => Level(v, k).outer < Level(v, j).outer
  <2>1. CASE j < h
    <3>1. \A k \in 1..(j - 1) : k \in 1..Len(v) /\ k < h
      BY <2>1, <1>1
    <3>2. j \in 1..h /\ Level(v, j) = Level(w, j) /\ \A k \in 1..(j - 1) : k \in 1..h /\ Level(v, k) = Level(w, k)
      BY <2>1, <3>1, <1>1, <1>4
    <3>3. n2 \in {n, n + 1} \/ (Scope(t) /\ n2 = t.outer)
      BY <1>7 DEF FitsScopes, t
    <3>4. h \in 1..h
      BY <1>1
    <3>5. Level(w, j).outer \in 1..(n2 - 1)
      BY <2>1, <3>2, <3>3, <3>4, <1>1, <1>2, <1>6, <1>7
    <3> QED BY <3>2, <3>5, <1>6, <1>7
  <2>2. CASE j = h
    <3>1. Level(v, j).outer = n /\ n2 = n + 1
      BY <2>2, <1>5, <1>7
    <3>2. \A k \in 1..(j - 1) : k \in 1..h /\ Level(v, k) = Level(w, k)
      BY <2>2, <1>1
    <3> QED BY <3>1, <3>2, <1>2, <1>6, <1>7
  <2> QED BY <2>1, <2>2, <1>1, <1>3, <1>7
<1>8. ASSUME ~popped, ~pushed
      PROVE  n2 = 1 \/ \E j \in 1..Len(v) : Scope(Level(v, j)) /\ Level(v, j).outer = 1
  <2>1. n = 1 \/ \E j \in 1..h : Scope(Level(w, j)) /\ Level(w, j).outer = 1
    BY <1>8 DEF Scoping, h
  <2>2. CASE n = 1
    <3>1. ~Scope(t)
      <4>1. h \in 1..h
        BY <1>1
      <4> QED BY <2>2, <4>1, <1>1, <1>6, <1>8
    <3>2. n2 = n \/ (n2 = n + 1 /\ m # 0 /\ Scope(f[m]) /\ f[m].outer = n)
      BY <3>1, <1>1, <1>8 DEF FitsScopes, t, m
    <3>3. m # 0 => h \in 1..Len(v) /\ Level(v, h) = f[m]
      BY <1>1
    <3> QED BY <2>2, <3>2, <3>3
  <2>3. CASE n # 1
    <3>1. PICK j \in 1..h : Scope(Level(w, j)) /\ Level(w, j).outer = 1
      BY <2>1, <2>3
    <3>2. CASE j < h
      <4>1. j \in 1..Len(v) /\ Level(v, j) = Level(w, j)
        BY <3>2, <1>1
      <4> QED BY <3>1, <4>1
    <3>3. CASE j = h
      <4>1. Scope(t) /\ t.outer = 1
        BY <3>1, <3>3, <1>1
      <4>2. n2 = 1
        BY <4>1 DEF FitsScopes, t
      <4> QED BY <4>2
    <3> QED BY <3>2, <3>3, <1>1
  <2> QED BY <2>2, <2>3
<1> QED BY <1>2, <1>7, <1>8 DEF Scoping

-----------------------------------------------------------------------------
(* The invariant.                                                          *)

FrameOK(U, f) ==
  /\ f.op = "item" => f.node \in U \cup {NoNode}
  /\ f.op = "and" => f.node \in U /\ f.next \in Nat \ {0}
  /\ f.op = "end_store" => f.node \in U /\ Item[f.node].kind \in StoreKinds
  /\ f.op = "end_capture" => f.start \in Nat
  /\ f.op = "posts" => f.next \in Nat \ {0} /\ f.keep \in Nat
  /\ f.op = "end_flushed" => f.posts \in Nat
  /\ f.op = "leave" => f.state \in States
  /\ f.op = "end_scope" => f.outer \in Nat \ {0}

FramesOK(U, w) == \A j \in 1..Len(w) : FrameOK(U, Level(w, j))

\* A rule that is about to be built is there.
RuleThere(f, ss) == f.scope \in 1..Len(ss) /\ f.rule \in 1..Len(ss[f.scope])
RulesOK(w, ss) ==
  \A j \in 1..Len(w) : Level(w, j).op = "rule" => j = Len(w) /\ RuleThere(Level(w, j), ss)

Idle == ctx.out = 1 /\ ctx.pre = Null /\ ctx.posts = <<>> /\ Len(bufs) = 1

ChainInv ==
  /\ ctx.pre \in -1..Len(bufs)
  /\ work # <<>> => \E out, len : Chain(work, ctx.out, ctx.pre, bufs, out, len)
  /\ work = <<>> \/ Top.op = "top" => Idle

Popped == Uses({"pop"})
Pushed == Uses({"push"})

StackOK ==
  /\ Shape(work, ctx.posts) /\ Scoping(work, Len(scopes), Popped, Pushed)
  /\ FramesOK(Used, work) /\ RulesOK(work, scopes)

CtxTyped ==
  /\ bufs \in Seq(Texts) /\ ctx.captures \in Seq(Texts) /\ ctx.posts \in Seq(Used \cup {NoNode})
  /\ ctx.replay \in Seq(Snapshots) /\ taken \in Seq(Snapshots) /\ rng \in States

Entries == [snaps: Seq(Snapshots), text: Texts, pristine: BOOLEAN]

LoopTyped ==
  /\ at \in {"finalize", "top", "mutate", "build", "dump"}
  /\ who \in {"loop", "handler", "dump"}
  /\ seeds \in Nat /\ pristine \in BOOLEAN
  /\ mutated \in Seq(Snapshots) /\ saved \in Seq(Snapshots) /\ plan.orig \in Seq(Snapshots)
  /\ corpus \in Seq(Entries)

BuildInv == GrammarInv /\ CtxTyped /\ LoopTyped /\ ChainInv /\ StackOK /\ fault \in Faults

-----------------------------------------------------------------------------
(* A step of a build inside the top rule: f takes the place of the frame   *)
(* on top.                                                                 *)

BuildSame == UNCHANGED <<gramRest, at, who, loopVars, pristine, counts>>

Inner(f) ==
  /\ AnySeq(f) /\ work' = f \o Tail(work)
  /\ Fits(Top, f, ctx.out, ctx.pre, bufs, ctx'.out, ctx'.pre, bufs')
  /\ FitsShape(Top, f, ctx'.posts)
  /\ FitsScopes(Top, f, Len(scopes), Len(scopes'), Popped, Pushed)
  /\ \A i \in 1..Len(f) : /\ FrameOK(Used, f[i])
                          /\ f[i].op = "rule" => i = 1 /\ RuleThere(f[i], scopes')
  /\ bufs' \in Seq(Texts) /\ ctx'.captures \in Seq(Texts) /\ ctx'.posts \in Seq(Used \cup {NoNode})
  /\ ctx'.replay \in Seq(Snapshots) /\ taken' \in Seq(Snapshots) /\ rng' \in States
  /\ ScopesOK(Used, scopes')

LEMMA SameGrammar ==
  ASSUME grammar' = grammar
  PROVE  Used' = Used /\ Popped' = Popped /\ Pushed' = Pushed
BY DEF Used, Popped, Pushed, Uses

LEMMA FramesStep ==
  ASSUME NEW w, NEW f, NEW v, Splice(w, f, v), NEW U, NEW ss, NEW ss2,
         FramesOK(U, w), RulesOK(w, ss),
         \A i \in 1..Len(f) : /\ FrameOK(U, f[i])
                              /\ f[i].op = "rule" => i = 1 /\ RuleThere(f[i], ss2)
  PROVE  FramesOK(U, v) /\ RulesOK(v, ss2)
<1>1. /\ Len(w) \in Nat \ {0} /\ Len(f) \in Nat /\ Len(v) = Len(w) - 1 + Len(f)
      /\ f = <<>> <=> Len(f) = 0
      /\ \A j \in 1..(Len(w) - 1) : Level(v, j) = Level(w, j)
      /\ \A i \in 1..Len(f) : v[i] = f[i]
  BY DEF Splice
<1>2. ASSUME NEW j \in 1..Len(v)
      PROVE  \/ j \in 1..(Len(w) - 1) /\ j \in 1..Len(w) /\ j # Len(w) /\ Level(v, j) = Level(w, j)
             \/ \E i \in 1..Len(f) : Level(v, j) = f[i] /\ (i = 1 => j = Len(v))
  <2>1. CASE j < Len(w)
    BY <2>1, <1>1
  <2>2. CASE j >= Len(w)
    <3> DEFINE i == Len(v) + 1 - j
    <3>1. i \in 1..Len(f) /\ (i = 1 => j = Len(v))
      BY <2>2, <1>1
    <3>2. Level(v, j) = f[i]
      BY <3>1, <1>1 DEF Level
    <3> QED BY <3>1, <3>2
  <2> QED BY <2>1, <2>2, <1>1
<1>3. ASSUME NEW j \in 1..Len(v)
      PROVE  FrameOK(U, Level(v, j)) /\ (Level(v, j).op = "rule" => j = Len(v) /\ RuleThere(Level(v, j), ss2))
  <2>1. CASE j \in 1..Len(w) /\ j # Len(w) /\ Level(v, j) = Level(w, j)
    BY <2>1 DEF FramesOK, RulesOK
  <2>2. CASE \E i \in 1..Len(f) : Level(v, j) = f[i] /\ (i = 1 => j = Len(v))
    BY <2>2
  <2> QED BY <2>1, <2>2, <1>2
<1> QED BY <1>3 DEF FramesOK, RulesOK

LEMMA InnerKeeps ==
  ASSUME IInv, IInv', BuildInv, BuildSame, work # <<>>, NEW f, Inner(f), fault' = fault,
         at = "build"
  PROVE  BuildInv'
<1>1. /\ AnySeq(work) /\ Splice(work, f, work') /\ Top = work[1]
      /\ Used' = Used /\ Popped' = Popped /\ Pushed' = Pushed
  <2>1. AnySeq(work) /\ AnySeq(f) /\ work' = f \o Tail(work)
    BY DEF IInv, StackInv, Inner
  <2>2. Top = work[1]
    BY <2>1, SeqFacts DEF Top
  <2> QED BY <2>1, <2>2, Spliced, SameGrammar DEF BuildSame, gramRest
<1>2. GrammarInv'
  <2>1. ScopesOK(Used, scopes')
    BY DEF Inner
  <2> QED BY <2>1, GrammarKept DEF BuildSame, gramRest, loopVars, BuildInv, GrammarInv
<1>3. CtxTyped' /\ LoopTyped'
  <2>1. CtxTyped'
    BY <1>1 DEF CtxTyped, Inner
  <2>2. LoopTyped'
    BY DEF LoopTyped, BuildInv, BuildSame, loopVars, counts
  <2> QED BY <2>1, <2>2
<1>4. Shape(work', ctx'.posts) /\ Len(work) > 1 /\ work' # <<>>
  <2>1. Shape(work, ctx.posts) /\ FitsShape(work[1], f, ctx'.posts)
    BY <1>1 DEF BuildInv, StackOK, Inner
  <2> QED BY <1>1, <2>1, ShapeStep
<1>5. StackOK'
  <2>1. Scoping(work', Len(scopes'), Popped, Pushed)
    <3>1. Scoping(work, Len(scopes), Popped, Pushed)
      BY DEF BuildInv, StackOK
    <3>2. FitsScopes(work[1], f, Len(scopes), Len(scopes'), Popped, Pushed)
      BY <1>1 DEF Inner
    <3> QED BY <1>1, <3>1, <3>2, ScopingStep
  <2>2. FramesOK(Used, work') /\ RulesOK(work', scopes')
    <3>1. FramesOK(Used, work) /\ RulesOK(work, scopes)
      BY DEF BuildInv, StackOK
    <3>2. \A i \in 1..Len(f) : /\ FrameOK(Used, f[i])
                               /\ f[i].op = "rule" => i = 1 /\ RuleThere(f[i], scopes')
      BY DEF Inner
    <3> QED BY <1>1, <3>1, <3>2, FramesStep
  <2> QED BY <1>1, <1>4, <2>1, <2>2 DEF StackOK
<1>6. ChainInv'
  <2>1. PICK out, len : Chain(work, ctx.out, ctx.pre, bufs, out, len)
    BY DEF BuildInv, ChainInv
  <2>2. /\ ctx.pre \in -1..Len(bufs) /\ bufs \in Seq(Texts) /\ bufs' \in Seq(Texts)
        /\ Fits(work[1], f, ctx.out, ctx.pre, bufs, ctx'.out, ctx'.pre, bufs')
    BY <1>1 DEF BuildInv, ChainInv, CtxTyped, Inner
  <2>n. Len(work) # 1 /\ Splice(work, f, work') /\ work' # <<>>
    <3>1. Len(work) > 1 /\ Len(work) \in Nat
      BY <1>4, <1>1 DEF Splice
    <3>2. Len(work) # 1
      BY <3>1
    <3> QED BY <3>2, <1>1, <1>4
  <2>3. \E out2, len2 : Chain(work', ctx'.out, ctx'.pre, bufs', out2, len2)
    <3>1. Len(work) = 1 => ctx'.out = 1
      BY <2>n
    <3> QED BY <2>n, <2>1, <2>2, <3>1, ChainStep
  <2>4. ctx'.pre \in -1..Len(bufs')
    BY <2>2 DEF Fits
  <2>5. ~(work' = <<>> \/ Top'.op = "top")
    <3>1. Len(work') \in Nat \ {0} /\ Top' = work'[1] /\ Level(work', Len(work')) = work'[1]
      BY <1>1, <1>4, SeqFacts DEF Splice, Top, Level
    <3>2. CASE f = <<>>
      <4>1. /\ Len(work') = Len(work) - 1 /\ Len(work) \in Nat
            /\ Level(work', Len(work')) = Level(work, Len(work'))
        BY <3>1, <3>2, <1>1 DEF Splice
      <4>2. Top'.op = "top" => Outmost(Level(work, Len(work')))
        BY <3>1, <4>1 DEF Outmost
      <4>3. Top'.op = "top" => Len(work') = 1 /\ Level(work, 1).op = "top"
        BY <3>1, <4>1, <4>2 DEF BuildInv, StackOK, Shape
      <4>4. \A i \in 1..Len(work) : work[i].op # "top"
        BY <2>n DEF IInv, TakenInv
      <4>5. Level(work, 1) = work[Len(work)] /\ Len(work) \in 1..Len(work)
        BY <4>1, <1>4 DEF Level
      <4> QED BY <1>4, <4>3, <4>4, <4>5
    <3>3. CASE f # <<>>
      <4>1. work'[1] = f[1] /\ 1 \in 1..Len(f)
        BY <3>3, <1>1 DEF Splice
      <4>2. ~Outmost(f[1])
        BY <4>1 DEF Inner, FitsShape
      <4> QED BY <1>4, <3>1, <4>1, <4>2 DEF Outmost
    <3> QED BY <3>2, <3>3
  <2> QED BY <2>3, <2>4, <2>5 DEF ChainInv
<1> QED BY <1>2, <1>3, <1>5, <1>6 DEF BuildInv

-----------------------------------------------------------------------------
(* Calls that leave output and scopes where they are.                      *)

Grown(b, e, p) ==
  /\ b \in Seq(Texts) /\ e \in Seq(Texts) /\ Len(e) = Len(b)
  /\ \A s \in 1..Len(b) : s # p => Len(b[s]) <= Len(e[s])

Calls(f) ==
  /\ AnySeq(f)
  /\ \A i \in 1..Len(f) : /\ f[i].op \in {"item", "and", "posts", "end_capture", "flushed"}
                          /\ FrameOK(Used, f[i])

StillStep(f) ==
  /\ Calls(f) /\ Goto(f)
  /\ Still(Top) /\ Top.op \notin {"top", "end", "end_scope"}
  /\ Top.op \in {"flush", "flushed"} => IF f = <<>> THEN ctx'.posts = <<>> ELSE f[Len(f)].op = "flushed"
  /\ Grown(bufs, bufs', ctx.pre)
  /\ ctx'.out = ctx.out /\ ctx'.pre \in {ctx.pre, Null} /\ ctx'.replay = ctx.replay
  /\ ctx'.captures \in Seq(Texts) /\ ctx'.posts \in Seq(Used \cup {NoNode})
  /\ rng' \in States /\ taken' = taken
  /\ ScopesOK(Used, scopes') /\ Len(scopes') = Len(scopes)

\* Where the output and what is pending are.
LEMMA Places ==
  ASSUME IInv, BuildInv, work # <<>>
  PROVE  /\ bufs \in Seq(Texts) /\ Len(bufs) \in Nat
         /\ ctx.out \in 1..Len(bufs) /\ ctx.pre \in -1..Len(bufs) /\ ctx.pre # ctx.out
         /\ Top = work[1] /\ Len(work) \in Nat \ {0} /\ Top = Level(work, Len(work))
         /\ FrameOK(Used, Top)
<1>1. Len(work) \in Nat \ {0} /\ Top = work[1] /\ Top = Level(work, Len(work))
  BY SeqFacts DEF IInv, StackInv, Top, Level
<1>2. PICK out, len : Chain(work, ctx.out, ctx.pre, bufs, out, len)
  BY DEF BuildInv, ChainInv
<1>3. bufs \in Seq(Texts) /\ ctx.pre \in -1..Len(bufs)
  BY DEF BuildInv, ChainInv, CtxTyped
<1>4. ctx.out \in 1..Len(bufs) /\ ctx.pre # ctx.out
  BY <1>1, <1>2 DEF Chain
<1>5. FrameOK(Used, Top)
  BY <1>1 DEF BuildInv, StackOK, FramesOK
<1> QED BY <1>1, <1>3, <1>4, <1>5

LEMMA StillInner ==
  ASSUME IInv, BuildInv, work # <<>>, NEW f, StillStep(f)
  PROVE  Inner(f)
<1>1. /\ ctx.out \in 1..Len(bufs) /\ ctx.pre \in -1..Len(bufs) /\ ctx.pre # ctx.out /\ Len(bufs) \in Nat
  BY Places
<1>2. AnySeq(f) /\ Len(f) \in Nat /\ (f = <<>> <=> Len(f) = 0) /\ work' = f \o Tail(work)
  BY SeqFacts DEF StillStep, Calls, Goto
<1>3. \A i \in 1..Len(f) : Still(f[i]) /\ ~Outmost(f[i]) /\ f[i].op \notin {"end_scope", "rule"}
  BY DEF StillStep, Calls, Still, Saves, Outmost
<1>4. Still(Top) /\ ~Outmost(Top) /\ Top.op # "end_scope"
  BY DEF StillStep, Still, Outmost
<1>5. \A x, out : Still(x) => After(x, out) = out /\ Weight(x) = 0 /\ ~Saves(x) /\ x.op # "end_store"
  BY DEF Still, After, Weight, Saves
<1>6. Fits(Top, f, ctx.out, ctx.pre, bufs, ctx'.out, ctx'.pre, bufs')
  <2> DEFINE g == f[Len(f)]
  <2>1. f # <<>> => Still(g)
    BY <1>2, <1>3
  <2>2. \A i \in 1..(Len(f) - 1) : Still(f[i])
    BY <1>2, <1>3
  <2>3. /\ ctx'.out = ctx.out /\ ctx'.pre \in {ctx.pre, Null} /\ Len(bufs') = Len(bufs)
        /\ \A s \in 1..Len(bufs) : s # ctx.pre => Len(bufs[s]) <= Len(bufs'[s])
    BY DEF StillStep, Grown
  <2>4. /\ ctx'.pre \in -1..Len(bufs') /\ (ctx'.pre = ctx.pre \/ ctx'.pre \notin 1..Len(bufs))
        /\ ctx'.pre # ctx.out
    BY <1>1, <2>3 DEF Null
  <2>5. After(Top, ctx.out) = ctx.out /\ Weight(Top) = 0
    BY <1>4, <1>5
  <2>6. f # <<>> => After(g, ctx.out) = ctx.out /\ Weight(g) = 0 /\ ~Saves(g) /\ g.op # "end_store"
    BY <2>1, <1>5
  <2> HIDE DEF g
  <2>7. f = <<>> => ctx'.out = After(Top, ctx.out) /\ Len(bufs') = Len(bufs) - Weight(Top)
    BY <1>1, <2>3, <2>5
  <2>8. f # <<>> => /\ ctx'.out \in 1..Len(bufs') /\ ctx'.pre # ctx'.out
                    /\ After(g, ctx'.out) = After(Top, ctx.out)
                    /\ Len(bufs') - Weight(g) = Len(bufs) - Weight(Top)
    BY <1>1, <2>3, <2>4, <2>5, <2>6
  <2> QED BY <2>2, <2>3, <2>4, <2>6, <2>7, <2>8 DEF Fits, g
<1>7. FitsShape(Top, f, ctx'.posts)
  BY <1>3, <1>4 DEF FitsShape, StillStep
<1>8. FitsScopes(Top, f, Len(scopes), Len(scopes'), Popped, Pushed)
  BY <1>3, <1>4 DEF FitsScopes, StillStep
<1>9. \A i \in 1..Len(f) : FrameOK(Used, f[i]) /\ (f[i].op = "rule" => i = 1 /\ RuleThere(f[i], scopes'))
  BY <1>3 DEF StillStep, Calls
<1>10. /\ bufs' \in Seq(Texts) /\ ctx'.replay \in Seq(Snapshots) /\ taken' \in Seq(Snapshots)
  BY DEF StillStep, Grown, BuildInv, CtxTyped
<1> QED BY <1>2, <1>6, <1>7, <1>8, <1>9, <1>10 DEF Inner, StillStep

LEMMA EmitGrows ==
  ASSUME NEW b \in Seq(Texts), NEW o \in 1..Len(b), NEW text \in Texts, NEW p,
         NEW e, e = [b EXCEPT ![o] = @ \o text]
  PROVE  Grown(b, e, p)
<1>1. b[o] \in Texts
  OBVIOUS
<1>2. b[o] \o text \in Texts /\ Len(b[o] \o text) >= Len(b[o]) /\ Len(b[o]) \in Nat
  BY <1>1 DEF Texts
<1> DEFINE x == b[o] \o text
<1>3. e = [b EXCEPT ![o] = x]
  OBVIOUS
<1> HIDE DEF x
<1>4. e \in Seq(Texts) /\ Len(e) = Len(b) /\ \A s \in 1..Len(b) : e[s] = IF s = o THEN x ELSE b[s]
  BY <1>2, <1>3 DEF x
<1>5. \A s \in 1..Len(b) : Len(b[s]) \in Nat
  BY DEF Texts
<1>6. \A s \in 1..Len(b) : Len(b[s]) <= Len(e[s])
  BY <1>2, <1>4, <1>5 DEF x
<1> QED BY <1>4, <1>6 DEF Grown

LEMMA SameGrows == ASSUME NEW b \in Seq(Texts), NEW p PROVE Grown(b, b, p)
<1>1. \A s \in 1..Len(b) : Len(b[s]) \in Nat
  BY DEF Texts
<1> QED BY <1>1 DEF Grown

LEMMA TokensAreTexts ==
  ASSUME NEW n \in Nodes, rng \in States
  PROVE  <<Token(n)>> \in Texts /\ <<DrawnToken(n)>> \in Texts /\ AfterNext \in States
<1>1. Token(n) \in Nodes \X Nat \X Nat /\ DrawnToken(n) \in Nodes \X Nat \X Nat
  BY DEF Token, DrawnToken, States
<1>2. AfterNext \in States
  BY DEF AfterNext, States
<1> QED BY <1>1, <1>2 DEF Texts

\* The item on top.
LEMMA AtItem ==
  ASSUME IInv, BuildInv, NEW kinds, At(kinds)
  PROVE  /\ work # <<>> /\ Top.op = "item" /\ Item[Top.node].kind \in kinds
         /\ Top.node \in Used /\ Top.node \in Nodes
         /\ Kids \in Seq(Used) /\ Kids = Item[Top.node].kids /\ Still(Top)
         /\ Item[Top.node].kind \in Wrappers => Kid \in Used
<1>1. work # <<>> /\ Top.op = "item" /\ Top.node # NoNode /\ Item[Top.node].kind \in kinds
  BY DEF At
<1>2. Top.node \in Used
  BY <1>1, Places DEF FrameOK
<1>3. grammar \in Grammars
  BY DEF BuildInv, GrammarInv
<1> QED BY <1>1, <1>2, <1>3, KidIsUsed DEF Kids, Kid, Still, Saves

LEMMA ItemCalls ==
  ASSUME grammar \in Grammars
  PROVE  /\ Calls(<<>>)
         /\ \A n \in Used \cup {NoNode} : Calls(<<ItemFrame(n)>>)
         /\ \A n \in Used : \A i \in Nat \ {0} : Calls(AndFrom(n, i))
<1>1. Calls(<<>>)
  BY NoItems DEF Calls
<1>2. ASSUME NEW n \in Used \cup {NoNode}
      PROVE  Calls(<<ItemFrame(n)>>)
  <2>1. AnySeq(<<ItemFrame(n)>>)
    BY ShortSeq
  <2> QED BY <2>1 DEF Calls, ItemFrame, FrameOK
<1>3. ASSUME NEW n \in Used, NEW i \in Nat \ {0}
      PROVE  Calls(AndFrom(n, i))
  <2> DEFINE kids == Item[n].kids
             next == [op |-> "and", node |-> n, next |-> i + 1]
  <2>1. kids \in Seq(Used)
    BY KidIsUsed
  <2>2. CASE i > Len(kids)
    BY <1>1, <2>2 DEF AndFrom
  <2>3. CASE i = Len(kids)
    <3>1. kids[i] \in Used
      BY <2>1, <2>3
    <3>2. AndFrom(n, i) = <<ItemFrame(kids[i])>>
      BY <2>3 DEF AndFrom
    <3> QED BY <1>2, <3>1, <3>2
  <2>4. CASE i < Len(kids)
    <3>1. kids[i] \in Used
      BY <2>1, <2>4
    <3>2. AndFrom(n, i) = <<ItemFrame(kids[i]), next>>
      BY <2>1, <2>4 DEF AndFrom
    <3>3. FrameOK(Used, next) /\ next.op = "and"
      BY DEF FrameOK
    <3>4. FrameOK(Used, ItemFrame(kids[i])) /\ ItemFrame(kids[i]).op = "item"
      BY <3>1 DEF FrameOK, ItemFrame
    <3> HIDE DEF next, kids
    <3>5. AnySeq(<<ItemFrame(kids[i]), next>>)
      BY ShortSeq
    <3>6. \A k \in 1..2 : <<ItemFrame(kids[i]), next>>[k] \in {ItemFrame(kids[i]), next}
      OBVIOUS
    <3>7. Len(<<ItemFrame(kids[i]), next>>) = 2
      OBVIOUS
    <3> QED BY <3>2, <3>3, <3>4, <3>5, <3>6, <3>7 DEF Calls
  <2> QED BY <2>1, <2>2, <2>3, <2>4
<1> QED BY <1>1, <1>2, <1>3

Written == bufs' = bufs \/ \E text \in Texts : Emit(text)

LEMMA WrittenGrows == ASSUME IInv, BuildInv, work # <<>>, Written PROVE Grown(bufs, bufs', ctx.pre)
<1>1. bufs \in Seq(Texts) /\ ctx.out \in 1..Len(bufs)
  BY Places
<1>2. CASE bufs' = bufs
  BY <1>1, <1>2, SameGrows
<1>3. CASE \E text \in Texts : Emit(text)
  <2>1. PICK text \in Texts : bufs' = [bufs EXCEPT ![ctx.out] = @ \o text]
    BY <1>3 DEF Emit
  <2> QED BY <1>1, <2>1, EmitGrows
<1> QED BY <1>2, <1>3 DEF Written

\* A call or a return that leaves the context alone.
LEMMA CallInner ==
  ASSUME IInv, BuildInv, work # <<>>, Still(Top),
         Top.op \notin {"top", "end", "end_scope", "flush", "flushed"},
         NEW f, Calls(f), Goto(f), Written, ctx' = ctx, rng' \in States, taken' = taken,
         ScopesOK(Used, scopes'), Len(scopes') = Len(scopes)
  PROVE  Inner(f)
<1>1. StillStep(f)
  BY WrittenGrows DEF StillStep, BuildInv, CtxTyped
<1> QED BY <1>1, StillInner

-----------------------------------------------------------------------------
(* Items that write or only call others.                                   *)

\* What is the same in them.
LEMMA Unmoved ==
  ASSUME BuildInv
  PROVE  /\ scopes' = scopes => ScopesOK(Used, scopes') /\ Len(scopes') = Len(scopes)
         /\ rng \in States /\ AfterNext \in States /\ grammar \in Grammars
         /\ bufs' = bufs => Written
         /\ \A text \in Texts : Emit(text) => Written
<1>1. rng \in States /\ grammar \in Grammars /\ ScopesOK(Used, scopes)
  BY DEF BuildInv, CtxTyped, GrammarInv
<1>2. AfterNext \in States
  BY <1>1 DEF AfterNext, States
<1> QED BY <1>1, <1>2 DEF Written

LEMMA WriteInner ==
  ASSUME IInv, BuildInv, BuildRaw \/ BuildDraw \/ (BuildCaptured /\ fault' = fault)
  PROVE  \E f : Inner(f)
<1> DEFINE kinds == {"raw", "draw", "captured"}
<1>0. At(kinds)
  BY DEF BuildRaw, BuildDraw, BuildCaptured, At
<1>1. /\ work # <<>> /\ Top.op = "item" /\ Top.node \in Nodes /\ Still(Top)
  BY <1>0, AtItem
<1>2. /\ Return /\ ctx' = ctx /\ scopes' = scopes /\ taken' = taken /\ rng' \in {rng, AfterNext}
      /\ \E text \in Texts : Emit(text)
  <2>1. <<Token(Top.node)>> \in Texts /\ <<DrawnToken(Top.node)>> \in Texts
    BY <1>1, Unmoved, TokensAreTexts
  <2>2. CASE BuildRaw
    BY <2>1, <2>2 DEF BuildRaw, gramVars, randVars
  <2>3. CASE BuildDraw
    BY <2>1, <2>3 DEF BuildDraw, gramVars
  <2>4. CASE BuildCaptured /\ fault' = fault
    <3>1. ctx.depth + 1 <= Len(ctx.captures) /\ Emit(ctx.captures[ctx.depth + 1]) /\ Return
          /\ UNCHANGED <<gramVars, ctx, randVars, fault>>
      <4>1. fault = "none" /\ ctx.captures \in Seq(Texts) /\ ctx.depth \in Nat
        BY <2>4 DEF BuildCaptured, At, BuildInv, CtxTyped, IInv, Context
      <4>2. ~(ctx.depth + 1 > Len(ctx.captures))
        BY <2>4, <4>1 DEF BuildCaptured, Fail
      <4> QED BY <2>4, <4>1, <4>2 DEF BuildCaptured
    <3>2. ctx.captures \in Seq(Texts) /\ ctx.depth \in Nat
      BY DEF BuildInv, CtxTyped, IInv, Context
    <3>3. ctx.captures[ctx.depth + 1] \in Texts
      BY <3>1, <3>2
    <3> QED BY <3>1, <3>3 DEF gramVars, randVars
  <2> QED BY <2>2, <2>3, <2>4
<1>3. Calls(<<>>) /\ Goto(<<>>)
  BY <1>2, Unmoved, ItemCalls DEF Return
<1>4. rng' \in States /\ Written /\ ScopesOK(Used, scopes') /\ Len(scopes') = Len(scopes)
  BY <1>2, Unmoved
<1> QED BY <1>1, <1>2, <1>3, <1>4, CallInner

LEMMA AndInner == ASSUME IInv, BuildInv, BuildAnd \/ NextItem PROVE \E f : Inner(f)
<1>1. PICK n \in Used, i \in Nat \ {0} :
        /\ work # <<>> /\ Still(Top) /\ Top.op \in {"item", "and"} /\ Goto(AndFrom(n, i))
        /\ n \in Nodes
        /\ bufs' = bufs \/ Emit(<<Token(n)>>)
        /\ UNCHANGED <<gramVars, ctx, randVars, fault>>
  <2>1. CASE BuildAnd
    BY <2>1, AtItem DEF BuildAnd
  <2>2. CASE NextItem
    <3>1. work # <<>> /\ Top.op = "and"
      BY <2>2 DEF NextItem, AtOp
    <3>2. Top.node \in Used /\ Top.next \in Nat \ {0} /\ Still(Top)
      BY <3>1, Places DEF FrameOK, Still, Saves
    <3>3. Top.node \in Nodes
      BY <3>2, UsedIsClosed, Unmoved
    <3> QED BY <2>2, <3>1, <3>2, <3>3 DEF NextItem
  <2> QED BY <2>1, <2>2
<1>2. Calls(AndFrom(n, i)) /\ <<Token(n)>> \in Texts
  BY <1>1, Unmoved, ItemCalls, TokensAreTexts
<1>3. scopes' = scopes /\ ctx' = ctx /\ rng' = rng /\ taken' = taken
  BY <1>1 DEF gramVars, randVars
<1>4. rng' \in States /\ Written /\ ScopesOK(Used, scopes') /\ Len(scopes') = Len(scopes)
  BY <1>1, <1>2, <1>3, Unmoved
<1> QED BY <1>1, <1>2, <1>3, <1>4, CallInner

LEMMA OptInner == ASSUME IInv, BuildInv, BuildOpt PROVE \E f : Inner(f)
<1>1. /\ work # <<>> /\ Top.op = "item" /\ Still(Top) /\ Kid \in Used
  <2>1. At({"opt"})
    BY DEF BuildOpt
  <2> QED BY <2>1, AtItem DEF Wrappers
<1>2. PICK f \in {<<>>, <<ItemFrame(Kid)>>} : Goto(f)
  BY DEF BuildOpt, Return
<1>3. /\ scopes' = scopes /\ ctx' = ctx /\ rng' \in {rng, AfterNext} /\ taken' = taken /\ bufs' = bufs
  BY DEF BuildOpt, gramVars
<1>4. Calls(f)
  BY <1>1, <1>2, Unmoved, ItemCalls
<1>5. rng' \in States /\ Written /\ ScopesOK(Used, scopes') /\ Len(scopes') = Len(scopes)
  BY <1>3, Unmoved
<1> QED BY <1>1, <1>2, <1>3, <1>4, <1>5, CallInner

LEMMA ChoiceInner ==
  ASSUME IInv, BuildInv, work # <<>>, Top.op \in {"item", "rule"}, NEW or, BuildChoice(or),
         fault = "none", fault' = fault, \A i \in DOMAIN or.items : or.items[i] \in Entry(Used)
  PROVE  \E f : Inner(f)
<1>1. PICK i \in DOMAIN or.items : BuildEntry(or.items[i])
  <2>1. CASE ChoiceList(or) = <<>> \/ \E i \in DOMAIN ChoiceList(or) : ChoiceList(or)[i] \notin DOMAIN or.items
    BY <2>1 DEF BuildChoice, Fail
  <2>2. CASE ~(ChoiceList(or) = <<>> \/ \E i \in DOMAIN ChoiceList(or) : ChoiceList(or)[i] \notin DOMAIN or.items)
    BY <2>2 DEF BuildChoice
  <2> QED BY <2>1, <2>2
<1>2. /\ scopes' = scopes /\ ctx' = ctx /\ rng' \in {rng, AfterNext} /\ taken' = taken
  BY DEF BuildChoice, Fail, gramVars
<1>3. or.items[i] \in Entry(Used) /\ Still(Top)
  BY DEF Still, Saves
<1>4. PICK f : Calls(f) /\ Goto(f) /\ Written
  <2>1. CASE or.items[i].node = NoNode /\ Emit(or.items[i].text) /\ Return
    BY <1>3, <2>1, Unmoved, ItemCalls DEF Entry, Return
  <2>2. CASE or.items[i].node # NoNode /\ Goto(<<ItemFrame(or.items[i].node)>>) /\ UNCHANGED bufs
    BY <1>3, <2>2, Unmoved, ItemCalls DEF Entry
  <2> QED BY <1>1, <2>1, <2>2 DEF BuildEntry
<1>5. rng' \in States /\ ScopesOK(Used, scopes') /\ Len(scopes') = Len(scopes)
  BY <1>2, Unmoved
<1> QED BY <1>2, <1>3, <1>4, <1>5, CallInner

LEMMA OrInner == ASSUME IInv, BuildInv, BuildOr, fault' = fault PROVE \E f : Inner(f)
<1> DEFINE items == [i \in DOMAIN Kids |-> StaticEntry(Kids[i])]
           or == [keep |-> FALSE, items |-> items, choice |-> inline[Top.node].choice,
                  shortest |-> inline[Top.node].shortest]
<1>1. work # <<>> /\ Top.op = "item" /\ fault = "none" /\ Kids \in Seq(Used)
  <2>1. At({"or"})
    BY DEF BuildOr
  <2> QED BY <2>1, AtItem DEF At
<1>2. BuildChoice(or)
  BY DEF BuildOr
<1>3. \A i \in DOMAIN or.items : or.items[i] \in Entry(Used)
  <2>1. <<>> \in Texts
    BY DEF Texts
  <2> QED BY <1>1, <2>1 DEF Entry, StaticEntry
<1> HIDE DEF or
<1> QED BY <1>1, <1>2, <1>3, ChoiceInner

LEMMA RuleInner == ASSUME IInv, BuildInv, BuildRule, fault' = fault PROVE \E f : Inner(f)
<1> DEFINE or == scopes[Top.scope][Top.rule]
<1>1. work # <<>> /\ Top.op = "rule" /\ fault = "none" /\ BuildChoice(or)
  BY DEF BuildRule, AtOp
<1>2. RuleThere(Top, scopes)
  <2>1. Len(work) \in 1..Len(work) /\ Top = Level(work, Len(work))
    BY <1>1, Places
  <2> QED BY <1>1, <2>1 DEF BuildInv, StackOK, RulesOK
<1>3. RuleList(Used, scopes[Top.scope])
  BY <1>2 DEF RuleThere, BuildInv, GrammarInv, ScopesOK
<1>4. or.items \in Seq(Entry(Used))
  BY <1>2, <1>3 DEF RuleThere, RuleList, RuleOK
<1> HIDE DEF or
<1>5. \A i \in DOMAIN or.items : or.items[i] \in Entry(Used)
  <2> DEFINE E == Entry(Used)
  <2> HIDE DEF E
  <2>1. or.items \in Seq(E)
    BY <1>4 DEF E
  <2>2. \A i \in DOMAIN or.items : or.items[i] \in E
    BY <2>1
  <2> QED BY <2>2 DEF E
<1> QED BY <1>1, <1>5, ChoiceInner

\* Two frames in the place of one.
LEMMA Pairs ==
  ASSUME NEW x, NEW y
  PROVE  /\ AnySeq(<<x, y>>) /\ Len(<<x, y>>) = 2 /\ <<x, y>> # <<>>
         /\ <<x, y>>[1] = x /\ <<x, y>>[2] = y
  BY ShortSeq

LEMMA CaptureInner == ASSUME IInv, BuildInv, BuildCapture PROVE \E f : Inner(f)
<1> DEFINE x == ItemFrame(Kid)
           y == [op |-> "end_capture", start |-> Len(Output)]
<1>1. work # <<>> /\ Top.op = "item" /\ Still(Top) /\ Kid \in Used
  <2>1. At({"capture"})
    BY DEF BuildCapture
  <2> QED BY <2>1, AtItem DEF Wrappers
<1>2. Goto(<<x, y>>) /\ scopes' = scopes /\ ctx' = ctx /\ rng' = rng /\ taken' = taken /\ bufs' = bufs
  BY DEF BuildCapture, gramVars, randVars
<1>3. Len(Output) \in Nat
  <2>1. bufs[ctx.out] \in Texts
    BY <1>1, Places
  <2> QED BY <2>1 DEF Output, Texts
<1>4. Calls(<<x, y>>)
  <2>1. x.op = "item" /\ FrameOK(Used, x) /\ y.op = "end_capture" /\ FrameOK(Used, y)
    BY <1>1, <1>3 DEF FrameOK, ItemFrame
  <2> HIDE DEF x, y
  <2>2. \A i \in 1..2 : <<x, y>>[i] \in {x, y}
    OBVIOUS
  <2> QED BY <2>1, <2>2, Pairs DEF Calls
<1>5. rng' \in States /\ Written /\ ScopesOK(Used, scopes') /\ Len(scopes') = Len(scopes)
  BY <1>2, Unmoved
<1> HIDE DEF x, y
<1> QED BY <1>1, <1>2, <1>4, <1>5, CallInner

\* What has been written since.
LEMMA SinceIsText ==
  ASSUME IInv, BuildInv, work # <<>>, NEW start \in Nat
  PROVE  Since(start) \in Texts
<1>1. Output \in Texts
  BY Places DEF Output
<1> QED BY <1>1 DEF Since, Texts

LEMMA TextFacts ==
  ASSUME NEW b \in Seq(Texts)
  PROVE  Len(b) \in Nat /\ \A s \in 1..Len(b) : b[s] \in Texts /\ Len(b[s]) \in Nat
<1>1. Len(b) \in Nat /\ \A s \in 1..Len(b) : b[s] \in Texts
  OBVIOUS
<1>2. \A x \in Texts : Len(x) \in Nat
  BY DEF Texts
<1> QED BY <1>1, <1>2

LEMMA TextsJoined ==
  ASSUME NEW x \in Texts, NEW y \in Texts, NEW z, z = x \o y
  PROVE  /\ z \in Texts /\ Len(z) >= Len(x) /\ Len(z) >= Len(y)
         /\ Len(x) \in Nat /\ Len(y) \in Nat /\ Len(z) \in Nat
BY DEF Texts

LEMMA NoText == <<>> \in Texts /\ Len(<<>>) = 0
BY DEF Texts

LEMMA OneReplaced ==
  ASSUME NEW T, NEW b, b \in Seq(T), NEW s, NEW x, x \in T
  PROVE  LET e == [b EXCEPT ![s] = x] IN
         e \in Seq(T) /\ Len(e) = Len(b) /\ \A k \in 1..Len(b) : e[k] = IF k = s THEN x ELSE b[k]
<1> DEFINE e == [b EXCEPT ![s] = x]
<1>1. e = [k \in 1..Len(b) |-> IF k = s THEN x ELSE b[k]] /\ Len(b) \in Nat
  OBVIOUS
<1> HIDE DEF e
<1>2. e \in Seq(T) /\ Len(e) = Len(b)
  BY <1>1
<1>3. \A k \in 1..Len(b) : e[k] = IF k = s THEN x ELSE b[k]
  BY <1>1
<1> QED BY <1>2, <1>3 DEF e

OneChanged(T, b, s, x, e) ==
  e \in Seq(T) /\ Len(e) = Len(b) /\ \A k \in 1..Len(b) : e[k] = IF k = s THEN x ELSE b[k]

LEMMA AnyReplaced ==
  ASSUME NEW T, NEW b, b \in Seq(T), NEW s, NEW x, x \in T
  PROVE  OneChanged(T, b, s, x, [b EXCEPT ![s] = x])
BY OneReplaced DEF OneChanged

LEMMA TwoJoined ==
  ASSUME NEW T, NEW b, b \in Seq(T), NEW y, y \in Seq(T)
  PROVE  /\ b \o y \in Seq(T) /\ Len(b \o y) = Len(b) + Len(y) /\ Len(b) \in Nat
         /\ \A s \in 1..Len(b) : (b \o y)[s] = b[s]
OBVIOUS

LEMMA TwoMore ==
  ASSUME NEW T, NEW b, b \in Seq(T), NEW z, z \in T
  PROVE  /\ b \o <<z, z>> \in Seq(T) /\ Len(b \o <<z, z>>) = Len(b) + 2
         /\ \A s \in 1..Len(b) : (b \o <<z, z>>)[s] = b[s]
<1>1. <<z, z>> \in Seq(T) /\ Len(<<z, z>>) = 2
  OBVIOUS
<1>2. /\ b \o <<z, z>> \in Seq(T) /\ Len(b \o <<z, z>>) = Len(b) + Len(<<z, z>>)
      /\ \A s \in 1..Len(b) : (b \o <<z, z>>)[s] = b[s]
  BY <1>1, TwoJoined
<1> QED BY <1>1, <1>2

LEMMA FunctionIsSeq == ASSUME NEW T, NEW n \in Nat, NEW c \in [1..n -> T] PROVE c \in Seq(T) /\ Len(c) = n
  OBVIOUS

LEMMA EndCaptureInner == ASSUME IInv, BuildInv, EndCapture PROVE \E f : Inner(f)
<1> DEFINE d == ctx.depth + 1
           size == IF Len(ctx.captures) < d THEN d ELSE Len(ctx.captures)
           c == [i \in 1..size |-> IF i = d THEN Since(Top.start)
                                   ELSE IF i <= Len(ctx.captures) THEN ctx.captures[i] ELSE <<>>]
<1>1. work # <<>> /\ Top.op = "end_capture" /\ Still(Top)
  BY DEF EndCapture, AtOp, Still, Saves
<1>2. Since(Top.start) \in Texts /\ <<>> \in Texts
  <2>1. Top.start \in Nat
    BY <1>1, Places DEF FrameOK
  <2> QED BY <1>1, <2>1, SinceIsText DEF Texts
<1>3. c \in Seq(Texts)
  <2>1. ctx.captures \in Seq(Texts) /\ ctx.depth \in Nat
    BY DEF BuildInv, CtxTyped, IInv, Context
  <2>2. size \in Nat /\ c \in [1..size -> Texts]
    BY <1>2, <2>1
  <2> HIDE DEF c, size
  <2> QED BY <2>2, FunctionIsSeq
<1>4. /\ ctx' = [ctx EXCEPT !.captures = c] /\ Return
      /\ UNCHANGED <<gramVars, bufs, randVars, fault>>
  BY DEF EndCapture
<1> HIDE DEF c
<1>5. /\ ctx'.out = ctx.out /\ ctx'.pre = ctx.pre /\ ctx'.replay = ctx.replay /\ ctx'.posts = ctx.posts
      /\ ctx'.captures = c
  BY <1>4 DEF IInv, Context
<1>6. Grown(bufs, bufs', ctx.pre)
  BY <1>1, <1>4, Places, SameGrows
<1>7. rng' = rng /\ taken' = taken /\ scopes' = scopes
  BY <1>4 DEF gramVars, randVars
<1>8. StillStep(<<>>)
  BY <1>1, <1>3, <1>4, <1>5, <1>6, <1>7, Unmoved, ItemCalls
     DEF StillStep, Return, BuildInv, CtxTyped
<1> QED BY <1>1, <1>8, StillInner

-----------------------------------------------------------------------------
(* Items that are put off.                                                 *)

\* The changes of the context that these calls make.
LEMMA ContextFields ==
  ASSUME IInv, NEW d, NEW c, NEW o, NEW p, NEW x
  PROVE  /\ ctx' = [ctx EXCEPT !.posts = x] =>
              /\ ctx'.posts = x /\ ctx'.out = ctx.out /\ ctx'.pre = ctx.pre
              /\ ctx'.captures = ctx.captures /\ ctx'.replay = ctx.replay
         /\ ctx' = [ctx EXCEPT !.posts = x, !.pre = p] =>
              /\ ctx'.posts = x /\ ctx'.out = ctx.out /\ ctx'.pre = p
              /\ ctx'.captures = ctx.captures /\ ctx'.replay = ctx.replay
         /\ ctx' = [ctx EXCEPT !.out = o, !.pre = p] \/ ctx' = [ctx EXCEPT !.pre = p, !.out = o] =>
              /\ ctx'.posts = ctx.posts /\ ctx'.out = o /\ ctx'.pre = p
              /\ ctx'.captures = ctx.captures /\ ctx'.replay = ctx.replay
         /\ ctx' = [ctx EXCEPT !.limit = d, !.depth = c, !.pre = p] =>
              /\ ctx'.posts = ctx.posts /\ ctx'.out = ctx.out /\ ctx'.pre = p
              /\ ctx'.captures = ctx.captures /\ ctx'.replay = ctx.replay
         /\ ctx' = [ctx EXCEPT !.limit = d] =>
              /\ ctx'.posts = ctx.posts /\ ctx'.out = ctx.out /\ ctx'.pre = ctx.pre
              /\ ctx'.captures = ctx.captures /\ ctx'.replay = ctx.replay
         /\ ctx' = [ctx EXCEPT !.pre = p] =>
              /\ ctx'.posts = ctx.posts /\ ctx'.out = ctx.out /\ ctx'.pre = p
              /\ ctx'.captures = ctx.captures /\ ctx'.replay = ctx.replay
BY DEF IInv, Context

\* A step that changes what is put off, and no text.
LEMMA PostsInner ==
  ASSUME IInv, BuildInv, work # <<>>, Still(Top), Top.op \notin {"top", "end", "end_scope"},
         NEW f, Calls(f), Goto(f), bufs' = bufs, ctx'.out = ctx.out, ctx'.pre \in {ctx.pre, Null},
         ctx'.captures = ctx.captures, ctx'.replay = ctx.replay,
         ctx'.posts \in Seq(Used \cup {NoNode}),
         Top.op \in {"flush", "flushed"} => IF f = <<>> THEN ctx'.posts = <<>> ELSE f[Len(f)].op = "flushed",
         rng' = rng, taken' = taken, scopes' = scopes
  PROVE  Inner(f)
<1>1. Grown(bufs, bufs', ctx.pre)
  BY Places, SameGrows
<1>2. rng' \in States /\ ScopesOK(Used, scopes') /\ Len(scopes') = Len(scopes)
  BY Unmoved
<1>3. ctx'.captures \in Seq(Texts)
  BY DEF BuildInv, CtxTyped
<1>4. StillStep(f)
  BY <1>1, <1>2, <1>3 DEF StillStep
<1> QED BY <1>4, StillInner

LEMMA PostInner == ASSUME IInv, BuildInv, BuildPost, fault' = fault PROVE \E f : Inner(f)
<1>1. At({"post"}) /\ fault = "none"
  BY DEF BuildPost, At
<1>2. work # <<>> /\ Top.op = "item" /\ Still(Top) /\ Kid \in Used
  BY <1>1, AtItem DEF Wrappers
<1> DEFINE x == Append(ctx.posts, Kid)
<1>3. /\ ctx' = [ctx EXCEPT !.posts = x] /\ Return /\ bufs' = bufs /\ rng' = rng /\ taken' = taken
      /\ scopes' = scopes
  BY <1>1 DEF BuildPost, Fail, gramVars, randVars
<1>4. x \in Seq(Used \cup {NoNode})
  <2> DEFINE T == Used \cup {NoNode}
  <2>1. ctx.posts \in Seq(T) /\ Kid \in T
    BY <1>2 DEF BuildInv, CtxTyped
  <2> HIDE DEF T
  <2>2. x \in Seq(T)
    BY <2>1
  <2> QED BY <2>2 DEF T
<1> HIDE DEF x
<1>5. Calls(<<>>) /\ Goto(<<>>)
  BY <1>3, Unmoved, ItemCalls DEF Return
<1> QED BY <1>2, <1>3, <1>4, <1>5, ContextFields, PostsInner

LEMMA NextPostInner == ASSUME IInv, BuildInv, NextPost PROVE \E f : Inner(f)
<1> DEFINE T == Used \cup {NoNode}
           x == ItemFrame(ctx.posts[Top.next])
           y == [op |-> "posts", next |-> Top.next + 1, keep |-> Top.keep]
           kept == [i \in 1..Top.keep |-> IF i <= Len(ctx.posts) THEN ctx.posts[i] ELSE NoNode]
<1>1. work # <<>> /\ Top.op = "posts" /\ Still(Top)
  BY DEF NextPost, AtOp, Still, Saves
<1>2. /\ Top.next \in Nat \ {0} /\ Top.keep \in Nat /\ ctx.posts \in Seq(T)
  BY <1>1, Places DEF FrameOK, BuildInv, CtxTyped
<1>3. bufs' = bufs /\ rng' = rng /\ taken' = taken /\ scopes' = scopes
  BY DEF NextPost, gramVars, randVars
<1>4. CASE Top.next <= Len(ctx.posts)
  <2>1. Goto(<<x, y>>) /\ ctx' = ctx
    BY <1>4 DEF NextPost
  <2>2. Calls(<<x, y>>)
    <3>1. ctx.posts[Top.next] \in T
      <4> HIDE DEF T
      <4> QED BY <1>2, <1>4
    <3>2. x.op = "item" /\ FrameOK(Used, x) /\ y.op = "posts" /\ FrameOK(Used, y)
      BY <1>2, <3>1 DEF FrameOK, ItemFrame
    <3> HIDE DEF x, y
    <3>3. \A i \in 1..2 : <<x, y>>[i] \in {x, y}
      OBVIOUS
    <3> QED BY <3>2, <3>3, Pairs DEF Calls
  <2> HIDE DEF x, y
  <2> QED BY <1>1, <1>2, <1>3, <2>1, <2>2, PostsInner
<1>5. CASE ~(Top.next <= Len(ctx.posts))
  <2>1. ctx' = [ctx EXCEPT !.posts = kept] /\ Return
    BY <1>5 DEF NextPost
  <2>2. kept \in Seq(T)
    <3> HIDE DEF T
    <3>1. NoNode \in T
      BY DEF T
    <3>2. kept \in [1..Top.keep -> T]
      BY <1>2, <3>1
    <3> HIDE DEF kept
    <3> QED BY <1>2, <3>2, FunctionIsSeq
  <2>3. Calls(<<>>) /\ Goto(<<>>)
    BY <2>1, Unmoved, ItemCalls DEF Return
  <2> HIDE DEF kept
  <2>4. /\ ctx'.posts = kept /\ ctx'.out = ctx.out /\ ctx'.pre = ctx.pre
        /\ ctx'.captures = ctx.captures /\ ctx'.replay = ctx.replay
    BY <2>1, ContextFields
  <2> QED BY <1>1, <1>3, <2>2, <2>3, <2>4, PostsInner
<1> QED BY <1>4, <1>5

LEMMA FlushedInner == ASSUME IInv, BuildInv, FlushedPrePost PROVE \E f : Inner(f)
<1>1. work # <<>> /\ Top.op = "flushed" /\ Still(Top)
  BY DEF FlushedPrePost, AtOp, Still, Saves
<1>2. /\ ctx' = [ctx EXCEPT !.posts = <<>>, !.pre = Null] /\ Return
      /\ bufs' = bufs /\ rng' = rng /\ taken' = taken /\ scopes' = scopes
  BY DEF FlushedPrePost, gramVars, randVars
<1>3. <<>> \in Seq(Used \cup {NoNode})
  OBVIOUS
<1>4. Calls(<<>>) /\ Goto(<<>>)
  BY <1>2, Unmoved, ItemCalls DEF Return
<1> QED BY <1>1, <1>2, <1>3, <1>4, ContextFields, PostsInner

\* The pending text goes in front and leaves an empty string behind.
LEMMA PrependGrows ==
  ASSUME NEW b \in Seq(Texts), NEW o \in 1..Len(b), NEW p \in 1..Len(b),
         NEW e, e = [b EXCEPT ![o] = b[p] \o @, ![p] = <<>>]
  PROVE  Grown(b, e, p)
<1> DEFINE x == b[p] \o b[o]
           z == <<>>
<1>1. b[o] \in Texts /\ b[p] \in Texts /\ z \in Texts /\ \A s \in 1..Len(b) : Len(b[s]) \in Nat
  BY TextFacts, NoText
<1>2. x \in Texts /\ Len(x) >= Len(b[o])
  <2> HIDE DEF z
  <2>1. x = b[p] \o b[o]
    OBVIOUS
  <2> HIDE DEF x
  <2> QED BY <1>1, <2>1, TextsJoined
<1> DEFINE c == [b EXCEPT ![o] = x]
<1>3. e = [c EXCEPT ![p] = z]
  OBVIOUS
<1> HIDE DEF x
<1>4. c \in Seq(Texts) /\ Len(c) = Len(b) /\ \A k \in 1..Len(b) : c[k] = IF k = o THEN x ELSE b[k]
  BY <1>2, OneReplaced
<1> HIDE DEF c, z
<1>5. /\ e \in Seq(Texts) /\ Len(e) = Len(b)
      /\ \A s \in 1..Len(b) : s # p => e[s] = c[s]
  <2>1. z \in Texts /\ c \in Seq(Texts)
    BY <1>1, <1>4
  <2>2. OneChanged(Texts, c, p, z, [c EXCEPT ![p] = z])
    BY <2>1, AnyReplaced
  <2>3. OneChanged(Texts, c, p, z, e)
    BY <1>3, <2>2
  <2> QED BY <1>4, <2>3 DEF OneChanged
<1>6. ASSUME NEW s \in 1..Len(b), s # p
      PROVE  Len(b[s]) <= Len(e[s])
  <2>1. e[s] = IF s = o THEN x ELSE b[s]
    BY <1>4, <1>5, <1>6
  <2>2. Len(b[s]) \in Nat
    BY <1>1
  <2> QED BY <1>2, <2>1, <2>2
<1> QED BY <1>5, <1>6 DEF Grown

LEMMA FlushInner == ASSUME IInv, BuildInv, FlushTop \/ BuildFlush, fault' = fault PROVE \E f : Inner(f)
<1> DEFINE x == [op |-> "flushed"]
           items == ItemFrames(ctx.posts)
           f == items \o <<x>>
           T == Used \cup {NoNode}
<1>1. /\ work # <<>> /\ fault = "none" /\ FlushPrePost /\ Still(Top)
      /\ Top.op \notin {"top", "end", "end_scope"}
  BY DEF FlushTop, BuildFlush, AtOp, At, Still, Saves
<1>2. /\ ctx.pre \notin {Null, Dangling} /\ Goto(f)
      /\ bufs' = [bufs EXCEPT ![ctx.out] = bufs[ctx.pre] \o @, ![ctx.pre] = <<>>]
      /\ ctx' = ctx /\ rng' = rng /\ taken' = taken /\ scopes' = scopes
  BY <1>1 DEF FlushPrePost, Fail, gramVars, randVars
<1>3. ctx.posts \in Seq(T) /\ ctx'.captures \in Seq(Texts)
  BY <1>2 DEF BuildInv, CtxTyped
<1>4. Calls(f) /\ f # <<>> /\ f[Len(f)] = x
  <2>1. Len(items) \in Nat /\ \A i \in 1..Len(items) : items[i].op = "item" /\ FrameOK(Used, items[i])
    <3>1. ctx.posts \in [1..Len(ctx.posts) -> T] /\ Len(ctx.posts) \in Nat
      <4> HIDE DEF T
      <4> QED BY <1>3
    <3> QED BY <3>1 DEF ItemFrames, ItemFrame, FrameOK
  <2> DEFINE F == {items[i] : i \in 1..Len(items)} \cup {x}
  <2>2. items \in Seq(F)
    <3>1. items = [i \in 1..Len(ctx.posts) |-> ItemFrame(ctx.posts[i])] /\ Len(ctx.posts) \in Nat
      <4>1. DOMAIN ctx.posts = 1..Len(ctx.posts) /\ Len(ctx.posts) \in Nat
        BY <1>3
      <4> QED BY <4>1 DEF ItemFrames
    <3>2. DOMAIN items = 1..Len(ctx.posts) /\ Len(items) = Len(ctx.posts)
      BY <3>1
    <3>3. items \in [1..Len(ctx.posts) -> F]
      BY <3>1, <3>2
    <3> HIDE DEF items, F
    <3> QED BY <3>1, <3>3, FunctionIsSeq
  <2>3. \A e \in F : e.op \in {"item", "flushed"} /\ FrameOK(Used, e)
    <3>1. x.op = "flushed" /\ FrameOK(Used, x)
      BY DEF FrameOK
    <3> QED BY <2>1, <3>1
  <2>4. x \in F
    OBVIOUS
  <2> HIDE DEF items, x, F
  <2>5. f \in Seq(F) /\ Len(f) = Len(items) + 1 /\ f[Len(f)] = x /\ f # <<>>
    BY <2>2, <2>4
  <2>6. AnySeq(f) /\ \A i \in 1..Len(f) : f[i] \in F
    BY <2>5 DEF AnySeq
  <2> HIDE DEF f
  <2> QED BY <2>3, <2>5, <2>6 DEF Calls
<1> HIDE DEF f
<1>5. Grown(bufs, bufs', ctx.pre)
  <2>1. bufs \in Seq(Texts) /\ ctx.out \in 1..Len(bufs) /\ ctx.pre \in 1..Len(bufs)
    BY <1>1, <1>2, Places DEF Null, Dangling
  <2> QED BY <1>2, <2>1, PrependGrows
<1>6. StillStep(f)
  <2>1. rng' \in States /\ ScopesOK(Used, scopes') /\ Len(scopes') = Len(scopes)
    BY <1>2, Unmoved
  <2> QED BY <1>1, <1>2, <1>3, <1>4, <1>5, <2>1 DEF StillStep
<1> QED BY <1>1, <1>6, StillInner

-----------------------------------------------------------------------------
(* Rules that collect values.                                              *)

LEMMA RawRuleAdded ==
  ASSUME GrammarInv, NEW i, NEW text \in Texts, NEW clobber, AddRawRule(i, text, clobber)
  PROVE  ScopesOK(Used, scopes') /\ Len(scopes') = Len(scopes)
<1> DEFINE s == Len(scopes)
           or == scopes[s][i]
           added == IF ~or.live THEN [NewOr EXCEPT !.keep = s > 1 /\ Root[i].keep]
                    ELSE IF clobber THEN [or EXCEPT !.items = <<>>, !.choice = <<>>, !.shortest = <<>>]
                    ELSE or
           x == [added EXCEPT !.items = Append(@, RawEntry(text))]
           rs == [scopes[s] EXCEPT ![i] = x]
<1>1. ScopesOK(Used, scopes) /\ s \in 1..Len(scopes) /\ RuleList(Used, scopes[s])
  BY SeqFacts DEF GrammarInv, ScopesOK
<1>2. i \in 1..Len(scopes[s]) => RuleOK(Used, x)
  <2> SUFFICES ASSUME i \in 1..Len(scopes[s]) PROVE RuleOK(Used, x)
    OBVIOUS
  <2>1. RuleOK(Used, or)
    BY <1>1 DEF RuleList
  <2>2. RuleOK(Used, [or EXCEPT !.items = <<>>, !.choice = <<>>, !.shortest = <<>>])
    <3> DEFINE z == <<>>
               y == [or EXCEPT !.items = z]
               y2 == [y EXCEPT !.choice = z]
               y3 == [y2 EXCEPT !.shortest = z]
    <3>1. z \in Seq(Entry(Used))
      OBVIOUS
    <3>2. y3 = [or EXCEPT !.items = <<>>, !.choice = <<>>, !.shortest = <<>>]
      OBVIOUS
    <3> HIDE DEF z, or
    <3>3. RuleOK(Used, y)
      <4>1. y = [live |-> or.live, keep |-> or.keep, items |-> z, choice |-> or.choice,
                 shortest |-> or.shortest]
        BY <2>1 DEF RuleOK
      <4> QED BY <3>1, <4>1 DEF RuleOK
    <3> HIDE DEF y
    <3>4. RuleOK(Used, y2)
      BY <3>3, SameItems
    <3> HIDE DEF y2
    <3>5. RuleOK(Used, y3)
      BY <3>4, SameItems
    <3> QED BY <3>2, <3>5
  <2>3. RuleOK(Used, [NewOr EXCEPT !.keep = s > 1 /\ Root[i].keep])
    BY NewRules, SameItems
  <2>4. RuleOK(Used, added)
    BY <2>1, <2>2, <2>3
  <2>5. RawEntry(text) \in Entry(Used)
    BY DEF RawEntry, Entry
  <2> HIDE DEF added
  <2> QED BY <2>4, <2>5, MoreItems
<1>3. RuleList(Used, rs)
  <2> HIDE DEF x
  <2> QED BY <1>1, <1>2, ReplacedRule
<1>4. scopes' = [scopes EXCEPT ![s] = rs]
  BY DEF AddRawRule
<1> HIDE DEF rs, s
<1>5. s \in 1..Len(scopes) => RuleList(Used, rs)
  BY <1>3
<1>6. /\ ScopesOK(Used, [scopes EXCEPT ![s] = rs])
      /\ Len([scopes EXCEPT ![s] = rs]) = Len(scopes)
  BY <1>1, <1>5, ReplacedScope
<1> QED BY <1>4, <1>6

LEMMA IdInner == ASSUME IInv, BuildInv, BuildId, fault' = fault PROVE \E f : Inner(f)
<1>1. At({"id"}) /\ fault = "none"
  BY DEF BuildId, At
<1>2. work # <<>> /\ Top.op = "item" /\ Still(Top) /\ Top.node \in Nodes
  BY <1>1, AtItem
<1> DEFINE text == <<DrawnToken(Top.node)>>
<1>3. PICK i : /\ rng' = AfterNext /\ AddRawRule(i, text, FALSE) /\ Emit(text) /\ Return
               /\ UNCHANGED <<gramRest, ctx, tape, recording, taken, fault>>
  <2>1. PICK i \in RuleIdx :
          IF i = 0 THEN Fail("no_index")
          ELSE /\ rng' = AfterNext /\ AddRawRule(i, text, FALSE) /\ Emit(text) /\ Return
               /\ UNCHANGED <<gramRest, ctx, tape, recording, taken, fault>>
    BY DEF BuildId
  <2>2. i # 0
    BY <1>1, <2>1 DEF Fail
  <2> QED BY <2>1, <2>2
<1>4. text \in Texts
  BY <1>2, Unmoved, TokensAreTexts
<1> HIDE DEF text
<1>5. ScopesOK(Used, scopes') /\ Len(scopes') = Len(scopes)
  BY <1>3, <1>4, RawRuleAdded DEF BuildInv
<1>6. Calls(<<>>) /\ Goto(<<>>)
  BY <1>3, Unmoved, ItemCalls DEF Return
<1>7. rng' \in States /\ Written
  BY <1>3, <1>4, Unmoved
<1> QED BY <1>2, <1>3, <1>5, <1>6, <1>7, CallInner

-----------------------------------------------------------------------------
(* Calls that save something, and their returns.                           *)

\* What the calls around the one on top need.
LEMMA Around ==
  ASSUME IInv, BuildInv, work # <<>>, ~Outmost(Top)
  PROVE  /\ After(Top, ctx.out) \in 1..(Len(bufs) - Weight(Top)) /\ ctx.pre # After(Top, ctx.out)
         /\ Saves(Top) => /\ SavedPre(Top, ctx.out) \in -1..(Len(bufs) - Weight(Top))
                          /\ SavedPre(Top, ctx.out) # After(Top, ctx.out)
         /\ Top.op = "end_store" => Top.start \in 0..Len(Output)
<1> DEFINE n == Len(work)
<1>1. n \in Nat \ {0} /\ Top = Level(work, n)
  BY Places
<1>2. n \in 2..n /\ n \in 1..n /\ n - 1 \in 1..n /\ n - 1 \in 1..(n - 1)
  <2>1. Outmost(Level(work, 1))
    BY DEF BuildInv, StackOK, Shape
  <2> QED BY <1>1, <2>1
<1>3. PICK out, len : Chain(work, ctx.out, ctx.pre, bufs, out, len)
  BY DEF BuildInv, ChainInv
<1>4. /\ out[n - 1] = After(Top, ctx.out) /\ len[n - 1] = Len(bufs) - Weight(Top)
      /\ out[n - 1] \in 1..len[n - 1] /\ ctx.pre # out[n - 1]
      /\ out[n] = ctx.out /\ len[n] = Len(bufs)
  BY <1>1, <1>2, <1>3 DEF Chain
<1>5. Saves(Top) => /\ SavedPre(Top, ctx.out) \in -1..(Len(bufs) - Weight(Top))
                    /\ out[n - 1] # SavedPre(Top, ctx.out)
  BY <1>1, <1>2, <1>3, <1>4 DEF Chain
<1>6. Top.op = "end_store" => Top.start \in 0..Len(bufs[ctx.out])
  BY <1>1, <1>2, <1>3, <1>4 DEF Chain
<1> QED BY <1>4, <1>5, <1>6 DEF Output

Moved(b, e, p) ==
  /\ b \in Seq(Texts) /\ e \in Seq(Texts) /\ Len(e) >= Len(b)
  /\ \A s \in 1..Len(b) : s # p => Len(b[s]) <= Len(e[s])

LEMMA PairInner ==
  ASSUME IInv, BuildInv, work # <<>>, Still(Top), ~Outmost(Top),
         Top.op \notin {"flush", "flushed", "end_scope"},
         NEW x, x.op \in {"item", "rule"}, FrameOK(Used, x), x.op = "rule" => RuleThere(x, scopes'),
         NEW y, FrameOK(Used, y), ~Outmost(y), y.op # "rule", Goto(<<x, y>>),
         Moved(bufs, bufs', ctx.pre), Len(bufs') - Weight(y) = Len(bufs),
         ctx'.out \in 1..Len(bufs'), After(y, ctx'.out) = ctx.out,
         ctx'.pre \in -1..Len(bufs'), ctx'.pre # ctx'.out,
         ctx'.pre = ctx.pre \/ ctx'.pre \notin 1..Len(bufs),
         Saves(y) => SavedPre(y, ctx'.out) = ctx.pre,
         y.op = "end_store" => /\ bufs' = bufs /\ y.start = Len(Output),
         IF y.op = "end_scope" THEN y.outer = Len(scopes) /\ Len(scopes') = Len(scopes) + 1
         ELSE Len(scopes') = Len(scopes),
         ctx'.captures = ctx.captures, ctx'.posts = ctx.posts, ctx'.replay = ctx.replay,
         taken' \in Seq(Snapshots), rng' \in States, ScopesOK(Used, scopes')
  PROVE  Inner(<<x, y>>)
<1> DEFINE f == <<x, y>>
<1>1. AnySeq(f) /\ Len(f) = 2 /\ f # <<>> /\ f[1] = x /\ f[2] = y
  BY Pairs
<1> HIDE DEF f
<1>2. /\ ctx.out \in 1..Len(bufs) /\ Len(bufs) \in Nat
  BY Places
<1>3. Weight(Top) = 0 /\ ~Saves(Top) /\ After(Top, ctx.out) = ctx.out /\ Top.op # "end_store"
  BY DEF Still, Weight, After, Saves
<1>4. Still(x) /\ x.op # "end_scope" /\ ~Outmost(x)
  BY DEF Still, Saves, Outmost
<1>5. Fits(Top, f, ctx.out, ctx.pre, bufs, ctx'.out, ctx'.pre, bufs')
  <2>1. \A i \in 1..(Len(f) - 1) : Still(f[i])
    BY <1>1, <1>4
  <2>2. y.op = "end_store" => ctx'.out = ctx.out /\ y.start = Len(bufs[ctx.out])
                              /\ y.start <= Len(bufs'[ctx.out])
    <3> SUFFICES ASSUME y.op = "end_store"
                 PROVE  ctx'.out = ctx.out /\ y.start = Len(bufs[ctx.out])
                        /\ y.start <= Len(bufs'[ctx.out])
      OBVIOUS
    <3>1. ctx'.out = ctx.out
      BY DEF After, Saves
    <3>2. bufs[ctx.out] \in Texts
      BY <1>2 DEF Moved
    <3>3. Len(bufs[ctx.out]) \in Nat
      BY <3>2 DEF Texts
    <3> QED BY <3>1, <3>3 DEF Output
  <2>3. \A s \in 1..Len(bufs) : s # ctx.pre => Len(bufs[s]) <= Len(bufs'[s])
    BY DEF Moved
  <2>4. Len(bufs') - Weight(y) = Len(bufs) - Weight(Top)
    BY <1>2, <1>3
  <2> QED BY <1>1, <1>3, <2>1, <2>2, <2>3, <2>4 DEF Fits
<1>6. \A i \in 1..Len(f) : (i = 1 /\ f[i] = x) \/ (i = 2 /\ f[i] = y)
  BY <1>1
<1>7. FitsShape(Top, f, ctx'.posts)
  BY <1>4, <1>6 DEF FitsShape
<1>8. FitsScopes(Top, f, Len(scopes), Len(scopes'), Popped, Pushed)
  <2>1. \A i \in 1..(Len(f) - 1) : f[i].op # "end_scope"
    BY <1>1, <1>4
  <2>2. CASE y.op = "end_scope"
    BY <1>1, <2>1, <2>2 DEF FitsScopes
  <2>3. CASE y.op # "end_scope"
    <3>1. \A i \in 1..Len(f) : f[i].op # "end_scope"
      BY <1>4, <1>6, <2>3
    <3> QED BY <2>3, <3>1 DEF FitsScopes
  <2> QED BY <2>2, <2>3
<1>9. \A i \in 1..Len(f) : FrameOK(Used, f[i]) /\ (f[i].op = "rule" => i = 1 /\ RuleThere(f[i], scopes'))
  BY <1>6
<1>10. /\ bufs' \in Seq(Texts) /\ ctx'.captures \in Seq(Texts) /\ ctx'.replay \in Seq(Snapshots)
       /\ ctx'.posts \in Seq(Used \cup {NoNode})
  BY DEF Moved, BuildInv, CtxTyped
<1>11. work' = f \o Tail(work)
  BY DEF Goto, f
<1> QED BY <1>1, <1>5, <1>7, <1>8, <1>9, <1>10, <1>11 DEF Inner, f

\* A return, to the frame f if it has one.
LEMMA ReturnInner ==
  ASSUME IInv, BuildInv, work # <<>>, ~Outmost(Top), Top.op \notin {"flush", "flushed"},
         NEW f, Calls(f), Len(f) \in {0, 1}, Goto(f),
         ctx'.out = After(Top, ctx.out), Len(bufs') = Len(bufs) - Weight(Top), bufs' \in Seq(Texts),
         ctx'.pre \in -1..Len(bufs'), ctx'.pre # ctx'.out,
         ctx'.pre = ctx.pre \/ ctx'.pre \notin 1..Len(bufs)
           \/ (Saves(Top) /\ ctx'.pre = SavedPre(Top, ctx.out)),
         \A s \in 1..Len(bufs) : s <= Len(bufs') /\ s # ctx.pre =>
           Len(bufs[s]) <= Len(bufs'[s])
             \/ (s = ctx.out /\ Top.op = "end_store" /\ Top.start <= Len(bufs'[s])),
         FitsScopes(Top, f, Len(scopes), Len(scopes'), Popped, Pushed),
         ctx'.captures = ctx.captures, ctx'.posts = ctx.posts, ctx'.replay = ctx.replay,
         taken' = taken, rng' \in States, ScopesOK(Used, scopes')
  PROVE  Inner(f)
<1>1. /\ AnySeq(f) /\ (f = <<>> <=> Len(f) = 0)
      /\ \A i \in 1..Len(f) : Still(f[i]) /\ ~Outmost(f[i]) /\ f[i].op # "rule" /\ FrameOK(Used, f[i])
  BY SeqFacts DEF Calls, Still, Saves, Outmost
<1>2. Fits(Top, f, ctx.out, ctx.pre, bufs, ctx'.out, ctx'.pre, bufs')
  <2> DEFINE g == f[Len(f)]
  <2>1. \A i \in 1..(Len(f) - 1) : Still(f[i])
    BY <1>1
  <2>2. f # <<>> => Still(g)
    BY <1>1
  <2>3. f # <<>> => After(g, ctx'.out) = ctx'.out /\ Weight(g) = 0 /\ ~Saves(g) /\ g.op # "end_store"
    BY <2>2 DEF Still, After, Weight, Saves
  <2>4. Len(bufs) \in Nat /\ Weight(Top) \in 0..2 /\ ctx'.out \in 1..Len(bufs')
    BY Places, Around DEF Weight
  <2> HIDE DEF g
  <2>5. f # <<>> => Len(bufs') - Weight(g) = Len(bufs) - Weight(Top)
    BY <2>3, <2>4
  <2> QED BY <2>1, <2>3, <2>4, <2>5 DEF Fits, g
<1>3. FitsShape(Top, f, ctx'.posts)
  BY <1>1 DEF FitsShape
<1>4. ctx'.captures \in Seq(Texts) /\ ctx'.posts \in Seq(Used \cup {NoNode})
      /\ ctx'.replay \in Seq(Snapshots) /\ taken' \in Seq(Snapshots)
  BY DEF BuildInv, CtxTyped
<1> QED BY <1>1, <1>2, <1>3, <1>4 DEF Inner, Goto

\* How a text and a number of strings change.
LEMMA MoreStrings ==
  ASSUME NEW b \in Seq(Texts), NEW p
  PROVE  /\ Moved(b, b, p)
         /\ Moved(b, Append(b, <<>>), p) /\ Len(Append(b, <<>>)) = Len(b) + 1
         /\ Moved(b, b \o << <<>>, <<>> >>, p) /\ Len(b \o << <<>>, <<>> >>) = Len(b) + 2
<1> DEFINE z == <<>>
<1>1. z \in Texts
  BY NoText
<1> HIDE DEF z
<1>2. \A s \in 1..Len(b) : Len(b[s]) \in Nat
  BY TextFacts
<1>3. Moved(b, b, p)
  BY <1>2 DEF Moved
<1>4. Moved(b, Append(b, z), p) /\ Len(Append(b, z)) = Len(b) + 1
  BY <1>1, <1>2 DEF Moved
<1>5. Moved(b, b \o <<z, z>>, p) /\ Len(b \o <<z, z>>) = Len(b) + 2
  <2>1. /\ b \o <<z, z>> \in Seq(Texts) /\ Len(b \o <<z, z>>) = Len(b) + 2
        /\ \A s \in 1..Len(b) : (b \o <<z, z>>)[s] = b[s]
    BY <1>1, TwoMore
  <2>2. Len(b) \in Nat
    BY TextFacts
  <2> QED BY <1>2, <2>1, <2>2 DEF Moved
<1> QED BY <1>3, <1>4, <1>5 DEF z

LEMMA StoreInner == ASSUME IInv, BuildInv, BuildStore PROVE \E f : Inner(f)
<1> DEFINE x == ItemFrame(Kid)
           y == [op |-> "end_store", node |-> Top.node, start |-> Len(Output)]
<1>1. /\ work # <<>> /\ Top.op = "item" /\ Still(Top) /\ Kid \in Used /\ Top.node \in Used
      /\ Item[Top.node].kind \in StoreKinds
  <2>1. At(StoreKinds)
    BY DEF BuildStore
  <2> QED BY <2>1, AtItem DEF Wrappers
<1>2. Goto(<<x, y>>) /\ scopes' = scopes /\ ctx' = ctx /\ rng' = rng /\ taken' = taken /\ bufs' = bufs
  BY DEF BuildStore, gramVars, randVars
<1>3. x.op = "item" /\ FrameOK(Used, x) /\ y.op = "end_store" /\ FrameOK(Used, y) /\ y.start = Len(Output)
  BY <1>1 DEF FrameOK, ItemFrame
<1> HIDE DEF x, y
<1>4. ~Outmost(Top) /\ ~Outmost(y) /\ ~Saves(y) /\ Weight(y) = 0 /\ After(y, ctx.out) = ctx.out
  BY <1>1, <1>3 DEF Outmost, Saves, Weight, After
<1>5. /\ bufs \in Seq(Texts) /\ Len(bufs) \in Nat /\ ctx.out \in 1..Len(bufs)
      /\ ctx.pre \in -1..Len(bufs) /\ ctx.pre # ctx.out
  BY <1>1, Places
<1>6. Moved(bufs, bufs, ctx.pre) /\ rng \in States /\ taken \in Seq(Snapshots) /\ ScopesOK(Used, scopes)
  BY <1>5, MoreStrings DEF BuildInv, CtxTyped, GrammarInv
<1>7. Inner(<<x, y>>)
  BY <1>1, <1>2, <1>3, <1>4, <1>5, <1>6, PairInner
<1> QED BY <1>7

LEMMA PreInner == ASSUME IInv, BuildInv, BuildPre, fault' = fault PROVE \E f : Inner(f)
<1> DEFINE x == ItemFrame(Kid)
           y == [op |-> "end_pre", out |-> ctx.out]
<1>0. At({"pre"}) /\ fault = "none"
  BY DEF BuildPre, At
<1>1. work # <<>> /\ Top.op = "item" /\ Still(Top) /\ Kid \in Used
  BY <1>0, AtItem DEF Wrappers
<1>2. /\ Goto(<<x, y>>) /\ scopes' = scopes /\ rng' = rng /\ taken' = taken
      /\ bufs' = Append(bufs, <<>>) /\ ctx' = [ctx EXCEPT !.out = ctx.pre, !.pre = Len(bufs) + 1]
      /\ ctx.pre \notin {Null, Dangling}
  BY <1>0 DEF BuildPre, Fail, gramVars, randVars
<1>3. x.op = "item" /\ FrameOK(Used, x) /\ y.op = "end_pre" /\ FrameOK(Used, y) /\ y.out = ctx.out
  BY <1>1 DEF FrameOK, ItemFrame
<1> HIDE DEF x, y
<1>4. /\ ~Outmost(Top) /\ ~Outmost(y) /\ Weight(y) = 1 /\ After(y, ctx.pre) = ctx.out
      /\ SavedPre(y, ctx.pre) = ctx.pre
  BY <1>1, <1>3 DEF Outmost, Saves, Weight, After, SavedPre
<1>5. /\ bufs \in Seq(Texts) /\ Len(bufs) \in Nat /\ ctx.pre \in 1..Len(bufs)
  BY <1>1, <1>2, Places DEF Null, Dangling
<1>6. Moved(bufs, bufs', ctx.pre) /\ Len(bufs') = Len(bufs) + 1
      /\ rng \in States /\ taken \in Seq(Snapshots) /\ ScopesOK(Used, scopes)
  BY <1>2, <1>5, MoreStrings DEF BuildInv, CtxTyped, GrammarInv
<1>7. /\ ctx'.out = ctx.pre /\ ctx'.pre = Len(bufs) + 1
      /\ ctx'.captures = ctx.captures /\ ctx'.posts = ctx.posts /\ ctx'.replay = ctx.replay
  BY <1>2, ContextFields
<1>8. /\ Len(bufs') - Weight(y) = Len(bufs) /\ ctx'.out \in 1..Len(bufs')
      /\ ctx'.pre \in -1..Len(bufs') /\ ctx'.pre # ctx'.out /\ ctx'.pre \notin 1..Len(bufs)
      /\ After(y, ctx'.out) = ctx.out /\ SavedPre(y, ctx'.out) = ctx.pre
  BY <1>4, <1>5, <1>6, <1>7
<1>9. Inner(<<x, y>>)
  BY <1>1, <1>2, <1>3, <1>4, <1>6, <1>7, <1>8, PairInner
<1> QED BY <1>9

LEMMA BuildFlushedInner == ASSUME IInv, BuildInv, BuildFlushed PROVE \E f : Inner(f)
<1> DEFINE x == ItemFrame(Kid)
           y == [op |-> "end_flushed", out |-> ctx.out, pre |-> ctx.pre, posts |-> Len(ctx.posts)]
<1>1. work # <<>> /\ Top.op = "item" /\ Still(Top) /\ Kid \in Used
  <2>1. At({"flushed"})
    BY DEF BuildFlushed
  <2> QED BY <2>1, AtItem DEF Wrappers
<1>2. /\ Goto(<<x, y>>) /\ scopes' = scopes /\ rng' = rng /\ taken' = taken
      /\ bufs' = bufs \o << <<>>, <<>> >>
      /\ ctx' = [ctx EXCEPT !.pre = Len(bufs) + 1, !.out = Len(bufs) + 2]
  BY DEF BuildFlushed, gramVars, randVars
<1>3. /\ x.op = "item" /\ FrameOK(Used, x) /\ y.op = "end_flushed" /\ FrameOK(Used, y)
      /\ y.out = ctx.out /\ y.pre = ctx.pre
  <2>1. Len(ctx.posts) \in Nat
    BY SeqFacts DEF IInv, Context
  <2> QED BY <1>1, <2>1 DEF FrameOK, ItemFrame
<1> HIDE DEF x, y
<1>4. /\ ~Outmost(Top) /\ ~Outmost(y) /\ Weight(y) = 2 /\ \A o : After(y, o) = ctx.out
      /\ \A o : SavedPre(y, o) = ctx.pre
  BY <1>1, <1>3 DEF Outmost, Saves, Weight, After, SavedPre
<1>5. /\ bufs \in Seq(Texts) /\ Len(bufs) \in Nat
  BY <1>1, Places
<1>6. Moved(bufs, bufs', ctx.pre) /\ Len(bufs') = Len(bufs) + 2
      /\ rng \in States /\ taken \in Seq(Snapshots) /\ ScopesOK(Used, scopes)
  BY <1>2, <1>5, MoreStrings DEF BuildInv, CtxTyped, GrammarInv
<1>7. /\ ctx'.out = Len(bufs) + 2 /\ ctx'.pre = Len(bufs) + 1
      /\ ctx'.captures = ctx.captures /\ ctx'.posts = ctx.posts /\ ctx'.replay = ctx.replay
  BY <1>2, ContextFields
<1>8. /\ Len(bufs') - Weight(y) = Len(bufs) /\ ctx'.out \in 1..Len(bufs')
      /\ ctx'.pre \in -1..Len(bufs') /\ ctx'.pre # ctx'.out /\ ctx'.pre \notin 1..Len(bufs)
      /\ After(y, ctx'.out) = ctx.out /\ SavedPre(y, ctx'.out) = ctx.pre
  BY <1>4, <1>5, <1>6, <1>7
<1>9. /\ ~Outmost(Top) /\ ~Outmost(y) /\ y.op # "rule" /\ y.op # "end_store" /\ y.op # "end_scope"
      /\ Top.op \notin {"flush", "flushed", "end_scope"} /\ x.op # "rule" /\ x.op \in {"item", "rule"}
  BY <1>1, <1>3, <1>4
<1>10. /\ Goto(<<x, y>>) /\ rng' \in States /\ taken' \in Seq(Snapshots)
       /\ ScopesOK(Used, scopes') /\ Len(scopes') = Len(scopes) /\ Moved(bufs, bufs', ctx.pre)
  BY <1>2, <1>6
<1>11. work # <<>> /\ Still(Top) /\ FrameOK(Used, x) /\ FrameOK(Used, y)
  BY <1>1, <1>3
<1>12. Inner(<<x, y>>)
  BY <1>7, <1>8, <1>9, <1>10, <1>11, PairInner, SMTT(60)
<1> QED BY <1>12

LEMMA NewScopeOK ==
  ASSUME GrammarInv, PushScope
  PROVE  ScopesOK(Used, scopes') /\ Len(scopes') = Len(scopes) + 1
<1> DEFINE rs == [i \in DOMAIN Root |-> NoRule]
<1>1. AnySeq(scopes) /\ Len(scopes) >= 1 /\ \A s \in 1..Len(scopes) : RuleList(Used, scopes[s])
  BY DEF GrammarInv, ScopesOK
<1>2. RuleList(Used, rs)
  <2>1. AnySeq(Root)
    BY RootIsOK DEF RuleList
  <2>2. DOMAIN Root = 1..Len(Root) /\ Len(Root) \in Nat
    BY <2>1, SeqFacts
  <2>3. rs \in Seq({NoRule}) /\ Len(rs) = Len(Root) /\ \A i \in 1..Len(rs) : rs[i] = NoRule
    <3>1. rs \in [1..Len(Root) -> {NoRule}]
      BY <2>2
    <3> HIDE DEF rs
    <3>2. rs \in Seq({NoRule}) /\ Len(rs) = Len(Root)
      BY <2>2, <3>1, FunctionIsSeq
    <3> QED BY <3>1, <3>2
  <2> HIDE DEF rs
  <2> QED BY <2>3, NewRules DEF RuleList, AnySeq
<1>3. scopes' = Append(scopes, rs)
  BY DEF PushScope
<1> HIDE DEF rs
<1>4. /\ AnySeq(scopes') /\ Len(scopes) \in Nat /\ Len(scopes') = Len(scopes) + 1
      /\ \A s \in 1..Len(scopes) : scopes'[s] = scopes[s]
      /\ scopes'[Len(scopes) + 1] = rs
  BY <1>1, <1>3, Appended
<1>5. ASSUME NEW s \in 1..Len(scopes')
      PROVE  RuleList(Used, scopes'[s])
  <2>1. CASE s \in 1..Len(scopes)
    BY <2>1, <1>1, <1>4
  <2>2. CASE s = Len(scopes) + 1
    BY <2>2, <1>2, <1>4
  <2> QED BY <2>1, <2>2, <1>4
<1> QED BY <1>1, <1>4, <1>5 DEF ScopesOK

LEMMA ScopeInner == ASSUME IInv, BuildInv, BuildScope PROVE \E f : Inner(f)
<1> DEFINE x == ItemFrame(Kid)
           y == [op |-> "end_scope", outer |-> Len(scopes)]
<1>1. work # <<>> /\ Top.op = "item" /\ Still(Top) /\ Kid \in Used
  <2>1. At({"scope"})
    BY DEF BuildScope
  <2> QED BY <2>1, AtItem DEF Wrappers
<1>2. /\ Goto(<<x, y>>) /\ PushScope /\ ctx' = ctx /\ rng' = rng /\ taken' = taken /\ bufs' = bufs
  BY DEF BuildScope, gramVars, randVars
<1>3. /\ x.op = "item" /\ FrameOK(Used, x) /\ y.op = "end_scope" /\ FrameOK(Used, y)
      /\ y.outer = Len(scopes)
  <2>1. Len(scopes) \in Nat \ {0}
    BY SeqFacts DEF BuildInv, GrammarInv, ScopesOK
  <2> QED BY <1>1, <2>1 DEF FrameOK, ItemFrame
<1> HIDE DEF x, y
<1>4. ~Outmost(Top) /\ ~Outmost(y) /\ ~Saves(y) /\ Weight(y) = 0 /\ After(y, ctx.out) = ctx.out
  BY <1>1, <1>3 DEF Outmost, Saves, Weight, After
<1>5. /\ bufs \in Seq(Texts) /\ Len(bufs) \in Nat /\ ctx.out \in 1..Len(bufs)
      /\ ctx.pre \in -1..Len(bufs) /\ ctx.pre # ctx.out
  BY <1>1, Places
<1>6. Moved(bufs, bufs, ctx.pre) /\ rng \in States /\ taken \in Seq(Snapshots)
  BY <1>5, MoreStrings DEF BuildInv, CtxTyped
<1>7. ScopesOK(Used, scopes') /\ Len(scopes') = Len(scopes) + 1
  BY <1>2, NewScopeOK DEF BuildInv
<1>8. /\ ctx'.out = ctx.out /\ ctx'.pre = ctx.pre /\ ctx'.captures = ctx.captures
      /\ ctx'.posts = ctx.posts /\ ctx'.replay = ctx.replay /\ Len(bufs') - Weight(y) = Len(bufs)
      /\ ctx'.out \in 1..Len(bufs') /\ After(y, ctx'.out) = ctx.out
      /\ ctx'.pre \in -1..Len(bufs') /\ ctx'.pre # ctx'.out /\ Moved(bufs, bufs', ctx.pre)
      /\ rng' \in States /\ taken' \in Seq(Snapshots) /\ Goto(<<x, y>>)
  BY <1>2, <1>4, <1>5, <1>6
<1>9. Inner(<<x, y>>)
  BY <1>1, <1>3, <1>4, <1>7, <1>8, PairInner, SMTT(60)
<1> QED BY <1>9

LEMMA FewerStrings ==
  ASSUME NEW b \in Seq(Texts), NEW k \in 0..2, Len(b) - k \in Nat
  PROVE  LET e == SubSeq(b, 1, Len(b) - k) IN
         /\ e \in Seq(Texts) /\ Len(e) = Len(b) - k /\ \A s \in 1..Len(e) : e[s] = b[s]
  OBVIOUS

LEMMA EndPreInner == ASSUME IInv, BuildInv, EndPre PROVE \E f : Inner(f)
<1>1. work # <<>> /\ Top.op = "end_pre"
  BY DEF EndPre, AtOp
<1>2. /\ Goto(<<>>) /\ scopes' = scopes /\ rng' = rng /\ taken' = taken
      /\ bufs' = [WithoutLast(1) EXCEPT ![ctx.out] = bufs[Len(bufs)] \o @]
      /\ ctx' = [ctx EXCEPT !.pre = ctx.out, !.out = Top.out]
  BY DEF EndPre, Return, gramVars, randVars
<1>3. /\ ~Outmost(Top) /\ Weight(Top) = 1 /\ After(Top, ctx.out) = Top.out /\ Saves(Top)
      /\ SavedPre(Top, ctx.out) = ctx.out
  BY <1>1 DEF Outmost, Saves, Weight, After, SavedPre
<1>4. /\ bufs \in Seq(Texts) /\ Len(bufs) \in Nat /\ ctx.out \in 1..Len(bufs)
  BY <1>1, Places
<1>5. Top.out \in 1..(Len(bufs) - 1) /\ ctx.out \in -1..(Len(bufs) - 1) /\ ctx.out # Top.out
  BY <1>1, <1>3, Around
<1> DEFINE e == WithoutLast(1)
           x == bufs[Len(bufs)] \o bufs[ctx.out]
<1>6. /\ e \in Seq(Texts) /\ Len(e) = Len(bufs) - 1 /\ \A s \in 1..Len(e) : e[s] = bufs[s]
  BY <1>4, <1>5, FewerStrings DEF WithoutLast
<1>7. x \in Texts /\ Len(x) >= Len(bufs[ctx.out])
  <2>1. bufs[Len(bufs)] \in Texts /\ bufs[ctx.out] \in Texts /\ x = bufs[Len(bufs)] \o bufs[ctx.out]
    BY <1>4
  <2> HIDE DEF x
  <2> QED BY <2>1, TextsJoined
<1>8. ctx.out \in 1..Len(e) /\ e[ctx.out] = bufs[ctx.out] /\ bufs' = [e EXCEPT ![ctx.out] = x]
  <2>1. ctx.out \in 1..Len(e)
    BY <1>4, <1>5, <1>6
  <2>2. e[ctx.out] = bufs[ctx.out]
    BY <2>1, <1>6
  <2> QED BY <2>1, <2>2, <1>2
<1> HIDE DEF e, x
<1>9. /\ bufs' \in Seq(Texts) /\ Len(bufs') = Len(bufs) - 1
      /\ \A s \in 1..Len(bufs') : bufs'[s] = IF s = ctx.out THEN x ELSE bufs[s]
  BY <1>6, <1>7, <1>8
<1>10. \A s \in 1..Len(bufs) : Len(bufs[s]) \in Nat
  BY <1>4, TextFacts
<1>11. \A s \in 1..Len(bufs) : s <= Len(bufs') => Len(bufs[s]) <= Len(bufs'[s])
  <2> SUFFICES ASSUME NEW s \in 1..Len(bufs), s <= Len(bufs') PROVE Len(bufs[s]) <= Len(bufs'[s])
    OBVIOUS
  <2>1. s \in 1..Len(bufs')
    BY <1>4, <1>9
  <2>2. bufs'[s] = IF s = ctx.out THEN x ELSE bufs[s]
    BY <2>1, <1>9
  <2> QED BY <2>2, <1>7, <1>10
<1>12. /\ ctx'.out = Top.out /\ ctx'.pre = ctx.out
       /\ ctx'.captures = ctx.captures /\ ctx'.posts = ctx.posts /\ ctx'.replay = ctx.replay
  BY <1>2, ContextFields
<1>13. Calls(<<>>) /\ Len(<<>>) \in {0, 1} /\ FitsScopes(Top, <<>>, Len(scopes), Len(scopes'), Popped, Pushed)
  <2>1. Len(<<>>) = 0
    BY NoItems
  <2> QED BY <1>1, <1>2, <2>1, Unmoved, ItemCalls DEF FitsScopes
<1>14. rng' \in States /\ ScopesOK(Used, scopes')
  BY <1>2, Unmoved
<1>15. Inner(<<>>)
  BY <1>1, <1>2, <1>3, <1>5, <1>9, <1>11, <1>12, <1>13, <1>14, ReturnInner
<1> QED BY <1>15

LEMMA EndFlushedInner == ASSUME IInv, BuildInv, EndFlushed PROVE \E f : Inner(f)
<1> DEFINE y == [op |-> "posts", next |-> Top.posts + 1, keep |-> Top.posts]
           f == <<y>>
<1>1. work # <<>> /\ Top.op = "end_flushed"
  BY DEF EndFlushed, AtOp
<1>2. /\ Goto(f) /\ scopes' = scopes /\ rng' = rng /\ taken' = taken
      /\ bufs' = [WithoutLast(2) EXCEPT ![Top.out] = @ \o bufs[Len(bufs) - 1] \o bufs[Len(bufs)]]
      /\ ctx' = [ctx EXCEPT !.pre = Top.pre, !.out = Top.out]
  BY DEF EndFlushed, gramVars, randVars
<1>3. /\ ~Outmost(Top) /\ Weight(Top) = 2 /\ After(Top, ctx.out) = Top.out /\ Saves(Top)
      /\ SavedPre(Top, ctx.out) = Top.pre
  BY <1>1 DEF Outmost, Saves, Weight, After, SavedPre
<1>4. /\ bufs \in Seq(Texts) /\ Len(bufs) \in Nat /\ Top.posts \in Nat
  BY <1>1, Places DEF FrameOK
<1>5. Top.out \in 1..(Len(bufs) - 2) /\ Top.pre \in -1..(Len(bufs) - 2) /\ Top.pre # Top.out
  BY <1>1, <1>3, Around
<1> DEFINE e == WithoutLast(2)
           x == bufs[Top.out] \o bufs[Len(bufs) - 1] \o bufs[Len(bufs)]
<1>6. /\ e \in Seq(Texts) /\ Len(e) = Len(bufs) - 2 /\ \A s \in 1..Len(e) : e[s] = bufs[s]
  BY <1>4, <1>5, FewerStrings DEF WithoutLast
<1>7. x \in Texts /\ Len(x) >= Len(bufs[Top.out])
  <2>1. bufs[Len(bufs)] \in Texts /\ bufs[Len(bufs) - 1] \in Texts /\ bufs[Top.out] \in Texts
    BY <1>4, <1>5
  <2>2. PICK h : h = bufs[Top.out] \o bufs[Len(bufs) - 1]
    OBVIOUS
  <2>3. x = h \o bufs[Len(bufs)]
    BY <2>2
  <2> HIDE DEF x
  <2>4. h \in Texts /\ Len(h) >= Len(bufs[Top.out]) /\ Len(bufs[Top.out]) \in Nat
    BY <2>1, <2>2, TextsJoined
  <2>5. x \in Texts /\ Len(x) >= Len(h) /\ Len(x) \in Nat /\ Len(h) \in Nat
    BY <2>1, <2>3, <2>4, TextsJoined
  <2> QED BY <2>4, <2>5
<1>8. Top.out \in 1..Len(e) /\ e[Top.out] = bufs[Top.out] /\ bufs' = [e EXCEPT ![Top.out] = x]
  <2>1. Top.out \in 1..Len(e)
    BY <1>4, <1>5, <1>6
  <2>2. e[Top.out] = bufs[Top.out]
    BY <2>1, <1>6
  <2> QED BY <2>1, <2>2, <1>2
<1> HIDE DEF e, x
<1>9. /\ bufs' \in Seq(Texts) /\ Len(bufs') = Len(bufs) - 2
      /\ \A s \in 1..Len(bufs') : bufs'[s] = IF s = Top.out THEN x ELSE bufs[s]
  <2>1. /\ bufs' \in Seq(Texts) /\ Len(bufs') = Len(e)
        /\ \A s \in 1..Len(e) : bufs'[s] = IF s = Top.out THEN x ELSE e[s]
    BY <1>6, <1>7, <1>8, OneReplaced
  <2> QED BY <1>6, <2>1
<1>10. \A s \in 1..Len(bufs) : Len(bufs[s]) \in Nat
  BY <1>4, TextFacts
<1>11. \A s \in 1..Len(bufs) : s <= Len(bufs') => Len(bufs[s]) <= Len(bufs'[s])
  <2> SUFFICES ASSUME NEW s \in 1..Len(bufs), s <= Len(bufs') PROVE Len(bufs[s]) <= Len(bufs'[s])
    OBVIOUS
  <2>1. s \in 1..Len(bufs')
    BY <1>4, <1>9
  <2>2. bufs'[s] = IF s = Top.out THEN x ELSE bufs[s]
    BY <2>1, <1>9
  <2> QED BY <2>2, <1>7, <1>10
<1>12. /\ ctx'.out = Top.out /\ ctx'.pre = Top.pre
       /\ ctx'.captures = ctx.captures /\ ctx'.posts = ctx.posts /\ ctx'.replay = ctx.replay
  BY <1>2, ContextFields
<1>13. Calls(f) /\ Len(f) \in {0, 1} /\ FitsScopes(Top, f, Len(scopes), Len(scopes'), Popped, Pushed)
  <2>1. y.op = "posts" /\ FrameOK(Used, y)
    BY <1>4 DEF FrameOK
  <2> HIDE DEF y
  <2>2. AnySeq(f) /\ Len(f) = 1 /\ f[1] = y
    BY ShortSeq
  <2> HIDE DEF f
  <2>3. \A i \in 1..Len(f) : f[i] = y
    BY <2>2
  <2> QED BY <1>1, <1>2, <2>1, <2>2, <2>3 DEF Calls, FitsScopes
<1> HIDE DEF f
<1>14. rng' \in States /\ ScopesOK(Used, scopes')
  BY <1>2, Unmoved
<1>15. Inner(f)
  BY <1>1, <1>2, <1>3, <1>5, <1>9, <1>11, <1>12, <1>13, <1>14, ReturnInner
<1> QED BY <1>15

\* A return that leaves the context and the strings as they are.
LEMMA PlainReturnInner ==
  ASSUME IInv, BuildInv, work # <<>>, ~Outmost(Top), Top.op \notin {"flush", "flushed", "leave"},
         ~Saves(Top), Return, ctx' = ctx, bufs' = bufs, taken' = taken, rng' = rng,
         FitsScopes(Top, <<>>, Len(scopes), Len(scopes'), Popped, Pushed), ScopesOK(Used, scopes')
  PROVE  Inner(<<>>)
<1>1. /\ bufs \in Seq(Texts) /\ Len(bufs) \in Nat /\ ctx.pre \in -1..Len(bufs) /\ ctx.pre # ctx.out
  BY Places
<1>2. Weight(Top) = 0 /\ After(Top, ctx.out) = ctx.out
  BY DEF Saves, Weight, After
<1>3. \A s \in 1..Len(bufs) : Len(bufs[s]) \in Nat
  BY <1>1, TextFacts
<1>4. Calls(<<>>) /\ Len(<<>>) \in {0, 1} /\ Goto(<<>>) /\ rng' \in States
  <2>1. Len(<<>>) = 0
    BY NoItems
  <2> QED BY <2>1, Unmoved, ItemCalls DEF Return
<1> QED BY <1>1, <1>2, <1>3, <1>4, ReturnInner

LEMMA FewerScopes ==
  ASSUME NEW U, NEW ss, ScopesOK(U, ss), NEW k \in Nat \ {0}, k <= Len(ss)
  PROVE  ScopesOK(U, SubSeq(ss, 1, k)) /\ Len(SubSeq(ss, 1, k)) = k
<1>1. PICK S : ss \in Seq(S)
  BY DEF ScopesOK, AnySeq
<1> DEFINE e == SubSeq(ss, 1, k)
<1>2. e \in Seq(S) /\ Len(e) = k /\ \A s \in 1..k : e[s] = ss[s] /\ s \in 1..Len(ss)
  BY <1>1
<1> HIDE DEF e
<1>3. ScopesOK(U, e)
  BY <1>2 DEF ScopesOK, AnySeq
<1> QED BY <1>2, <1>3 DEF e

LEMMA EndScopeInner == ASSUME IInv, BuildInv, EndScope, fault' = fault PROVE \E f : Inner(f)
<1>1. work # <<>> /\ Top.op = "end_scope" /\ fault = "none"
  BY DEF EndScope, AtOp
<1>2. /\ ~(Len(scopes) <= Top.outer) /\ scopes' = SubSeq(scopes, 1, Top.outer) /\ Return
      /\ ctx' = ctx /\ bufs' = bufs /\ rng' = rng /\ taken' = taken
  BY <1>1 DEF EndScope, Fail, randVars
<1>3. Top.outer \in Nat \ {0}
  BY <1>1, Places DEF FrameOK
<1>4. ScopesOK(Used, scopes') /\ Len(scopes') = Top.outer
  BY <1>2, <1>3, FewerScopes DEF BuildInv, GrammarInv
<1>5. FitsScopes(Top, <<>>, Len(scopes), Len(scopes'), Popped, Pushed)
  BY <1>1, <1>3, <1>4 DEF FitsScopes
<1>6. ~Outmost(Top) /\ ~Saves(Top)
  BY <1>1 DEF Outmost, Saves
<1>7. Inner(<<>>)
  BY <1>1, <1>2, <1>4, <1>5, <1>6, PlainReturnInner
<1> QED BY <1>7

LEMMA ScopeActionInner == ASSUME IInv, BuildInv, BuildScopeAction, fault' = fault PROVE \E f : Inner(f)
<1>1. At({"push", "pop"}) /\ fault = "none"
  BY DEF BuildScopeAction, At
<1>2. work # <<>> /\ Top.op = "item" /\ Item[Top.node].kind \in {"push", "pop"} /\ Top.node \in Used
  BY <1>1, AtItem
<1>3. /\ ~(Item[Top.node].kind = "pop" /\ Len(scopes) = 1) /\ Return
      /\ IF Item[Top.node].kind = "push" THEN PushScope ELSE scopes' = SubSeq(scopes, 1, Len(scopes) - 1)
      /\ ctx' = ctx /\ bufs' = bufs /\ rng' = rng /\ taken' = taken
  BY <1>1 DEF BuildScopeAction, Fail, randVars
<1>4. ScopesOK(Used, scopes) /\ Len(scopes) \in Nat \ {0}
  BY SeqFacts DEF BuildInv, GrammarInv, ScopesOK
<1>5. ScopesOK(Used, scopes') /\ FitsScopes(Top, <<>>, Len(scopes), Len(scopes'), Popped, Pushed)
  <2>1. CASE Item[Top.node].kind = "push"
    <3>1. ScopesOK(Used, scopes') /\ Len(scopes') = Len(scopes) + 1
      BY <1>3, <2>1, NewScopeOK DEF BuildInv
    <3>2. Pushed
      BY <1>2, <2>1 DEF Pushed, Uses
    <3> QED BY <1>2, <1>4, <3>1, <3>2 DEF FitsScopes
  <2>2. CASE Item[Top.node].kind # "push"
    <3>1. Len(scopes) - 1 \in Nat \ {0} /\ Len(scopes) - 1 <= Len(scopes)
      BY <1>2, <1>3, <1>4, <2>2
    <3>2. ScopesOK(Used, scopes') /\ Len(scopes') = Len(scopes) - 1
      <4> DEFINE k == Len(scopes) - 1
      <4>1. scopes' = SubSeq(scopes, 1, k) /\ k \in Nat \ {0} /\ k <= Len(scopes)
        BY <1>3, <2>2, <3>1
      <4> HIDE DEF k
      <4>2. ScopesOK(Used, scopes') /\ Len(scopes') = k
        BY <1>4, <4>1, FewerScopes
      <4> QED BY <4>2 DEF k
    <3>3. Popped
      BY <1>2, <2>2 DEF Popped, Uses
    <3> QED BY <1>2, <3>1, <3>2, <3>3 DEF FitsScopes
  <2> QED BY <2>1, <2>2
<1>6. ~Outmost(Top) /\ ~Saves(Top)
  BY <1>2 DEF Outmost, Saves
<1>7. Inner(<<>>)
  BY <1>2, <1>3, <1>5, <1>6, PlainReturnInner
<1> QED BY <1>7

\* rule_idx_ is an index of a rule or whatever was in memory.
LEMMA RuleIdxIsNat == ASSUME BuildInv, Top.node \in NameNodes PROVE \A i \in RuleIdx : i \in Nat
<1>1. AnySeq(names) /\ index \in [NameNodes -> {-1} \cup 1..Len(names)]
  BY DEF BuildInv, GrammarInv, Indexed
<1>2. Len(names) \in Nat /\ index[Top.node] \in {-1} \cup 1..Len(names)
  BY <1>1, SeqFacts
<1> QED BY <1>2 DEF RuleIdx

LEMMA EndStoreInner == ASSUME IInv, BuildInv, EndStore, fault' = fault PROVE \E f : Inner(f)
<1> DEFINE text == Since(Top.start)
           clobber == Item[Top.node].kind \in {"set", "iset"}
<1>1. work # <<>> /\ Top.op = "end_store" /\ fault = "none"
  BY DEF EndStore, AtOp
<1>2. ~Outmost(Top) /\ ~Saves(Top) /\ Weight(Top) = 0 /\ After(Top, ctx.out) = ctx.out
  BY <1>1 DEF Outmost, Saves, Weight, After
<1>3. /\ bufs \in Seq(Texts) /\ Len(bufs) \in Nat /\ ctx.out \in 1..Len(bufs)
      /\ ctx.pre \in -1..Len(bufs) /\ ctx.pre # ctx.out
  BY <1>1, Places
<1>4. Top.start \in 0..Len(Output)
  BY <1>1, <1>2, Around
<1>5. PICK i \in RuleIdx :
        IF text = <<>> THEN Return /\ UNCHANGED <<gramVars, ctx, bufs, randVars, fault>>
        ELSE IF i = 0 THEN Fail("no_index")
        ELSE /\ AddRawRule(i, text, clobber)
             /\ bufs' = IF Item[Top.node].kind \in {"istore", "iset"}
                        THEN [bufs EXCEPT ![ctx.out] = SubSeq(@, 1, Top.start)] ELSE bufs
             /\ Return
             /\ UNCHANGED <<gramRest, ctx, randVars, fault>>
  BY DEF EndStore
<1>6. Output \in Texts /\ Output = bufs[ctx.out]
  BY <1>3 DEF Output
<1> DEFINE e == [bufs EXCEPT ![ctx.out] = SubSeq(@, 1, Top.start)]
<1>7. /\ Return /\ ctx' = ctx /\ rng' = rng /\ taken' = taken
      /\ bufs' \in {bufs, e}
      /\ ScopesOK(Used, scopes') /\ Len(scopes') = Len(scopes)
  <2>1. CASE text = <<>>
    BY <1>5, <2>1, Unmoved DEF gramVars, randVars
  <2>2. CASE text # <<>>
    <3>1. i # 0
      BY <1>1, <1>5, <2>2 DEF Fail
    <3>2. text \in Texts
      BY <1>1, <1>4, <1>6, SinceIsText DEF Texts
    <3>3. AddRawRule(i, text, clobber)
      BY <1>5, <2>2, <3>1
    <3>4. ScopesOK(Used, scopes') /\ Len(scopes') = Len(scopes)
      BY <3>2, <3>3, RawRuleAdded DEF BuildInv
    <3> QED BY <1>5, <2>2, <3>1, <3>4 DEF randVars
  <2> QED BY <2>1, <2>2
<1>8. \A s \in 1..Len(bufs) : Len(bufs[s]) \in Nat
  BY <1>3 DEF Texts
<1>9. /\ bufs' \in Seq(Texts) /\ Len(bufs') = Len(bufs)
      /\ \A s \in 1..Len(bufs) :
           Len(bufs[s]) <= Len(bufs'[s]) \/ (s = ctx.out /\ Top.start <= Len(bufs'[s]))
  <2>1. CASE bufs' = bufs
    BY <1>3, <1>8, <2>1
  <2>2. CASE bufs' = e
    <3> DEFINE x == SubSeq(bufs[ctx.out], 1, Top.start)
    <3>1. x \in Texts /\ Len(x) = Top.start /\ Top.start \in Nat
      <4>1. bufs[ctx.out] \in Texts /\ Top.start \in 0..Len(bufs[ctx.out])
        BY <1>4, <1>6
      <4> QED BY <4>1 DEF Texts
    <3>2. bufs' = [bufs EXCEPT ![ctx.out] = x]
      BY <2>2
    <3> HIDE DEF x
    <3>3. /\ bufs' \in Seq(Texts) /\ Len(bufs') = Len(bufs)
          /\ \A s \in 1..Len(bufs) : bufs'[s] = IF s = ctx.out THEN x ELSE bufs[s]
      BY <1>3, <3>1, <3>2
    <3> QED BY <1>8, <3>1, <3>3
  <2> QED BY <1>7, <2>1, <2>2
<1>10. Calls(<<>>) /\ Len(<<>>) \in {0, 1} /\ Goto(<<>>) /\ rng' \in States
  <2>1. Len(<<>>) = 0
    BY NoItems
  <2> QED BY <1>7, <2>1, Unmoved, ItemCalls DEF Return
<1>11. FitsScopes(Top, <<>>, Len(scopes), Len(scopes'), Popped, Pushed)
  <2>1. Len(<<>>) = 0
    BY NoItems
  <2> QED BY <1>1, <1>7, <2>1 DEF FitsScopes
<1>12. Inner(<<>>)
  <2>1. /\ ctx'.out = After(Top, ctx.out) /\ Len(bufs') = Len(bufs) - Weight(Top)
        /\ ctx'.pre \in -1..Len(bufs') /\ ctx'.pre # ctx'.out /\ ctx'.pre = ctx.pre
        /\ ctx'.captures = ctx.captures /\ ctx'.posts = ctx.posts /\ ctx'.replay = ctx.replay
    BY <1>2, <1>3, <1>7, <1>9
  <2> QED BY <1>1, <1>2, <1>7, <1>9, <1>10, <1>11, <2>1, ReturnInner
<1> QED BY <1>12

LEMMA LeaveInner == ASSUME IInv, BuildInv, LeaveRule, ctx.depth # 0 PROVE \E f : Inner(f)
<1> DEFINE limit == IF Top.undo THEN Top.limit ELSE ctx.limit
           pre == IF Top.own /\ ctx.pre = Len(bufs) THEN Dangling ELSE ctx.pre
<1>1. work # <<>> /\ Top.op = "leave"
  BY DEF LeaveRule, AtOp
<1>2. /\ rng' = IF Top.undo THEN Top.state ELSE rng
      /\ ctx' = [ctx EXCEPT !.limit = limit, !.depth = @ - 1, !.pre = pre]
      /\ Return /\ scopes' = scopes /\ taken' = taken
      /\ bufs' = IF Top.own THEN WithoutLast(1) ELSE bufs
  BY DEF LeaveRule, gramVars
<1>3. ~Outmost(Top)
  BY <1>1, TopIsInmost DEF Outmost
<1>4. /\ ~Saves(Top) /\ Weight(Top) = IF Top.own THEN 1 ELSE 0
      /\ After(Top, ctx.out) = ctx.out
  BY <1>1 DEF Saves, Weight, After
<1>5. /\ bufs \in Seq(Texts) /\ Len(bufs) \in Nat /\ ctx.out \in 1..(Len(bufs) - Weight(Top))
      /\ ctx.pre \in -1..Len(bufs) /\ ctx.pre # ctx.out
  BY <1>1, <1>3, <1>4, Places, Around
<1>6. /\ bufs' \in Seq(Texts) /\ Len(bufs') = Len(bufs) - Weight(Top)
      /\ \A s \in 1..Len(bufs') : bufs'[s] = bufs[s]
  <2>1. CASE Top.own
    <3>1. Len(bufs) - 1 \in Nat
      BY <1>4, <1>5, <2>1
    <3> QED BY <1>2, <1>4, <1>5, <2>1, <3>1, FewerStrings DEF WithoutLast
  <2>2. CASE ~Top.own
    BY <1>2, <1>4, <1>5, <2>2
  <2> QED BY <2>1, <2>2
<1>7. \A s \in 1..Len(bufs) : s <= Len(bufs') => Len(bufs[s]) <= Len(bufs'[s])
  <2>1. \A s \in 1..Len(bufs) : Len(bufs[s]) \in Nat
    BY <1>5 DEF Texts
  <2> SUFFICES ASSUME NEW s \in 1..Len(bufs), s <= Len(bufs') PROVE Len(bufs[s]) <= Len(bufs'[s])
    OBVIOUS
  <2>2. s \in 1..Len(bufs')
    BY <1>4, <1>5, <1>6
  <2>3. bufs'[s] = bufs[s]
    BY <2>2, <1>6
  <2> QED BY <2>1, <2>3
<1>8. /\ pre \in -1..Len(bufs') /\ pre # ctx.out /\ (pre = ctx.pre \/ pre \notin 1..Len(bufs))
  <2>1. CASE Top.own
    BY <1>4, <1>5, <1>6, <2>1 DEF Dangling
  <2>2. CASE ~Top.own
    BY <1>4, <1>5, <1>6, <2>2
  <2> QED BY <2>1, <2>2
<1> HIDE DEF pre, limit
<1>9. /\ ctx'.out = ctx.out /\ ctx'.pre = pre
      /\ ctx'.captures = ctx.captures /\ ctx'.posts = ctx.posts /\ ctx'.replay = ctx.replay
  BY <1>2 DEF IInv, Context
<1>10. Calls(<<>>) /\ Len(<<>>) \in {0, 1} /\ Goto(<<>>)
       /\ FitsScopes(Top, <<>>, Len(scopes), Len(scopes'), Popped, Pushed)
  <2>1. Len(<<>>) = 0
    BY NoItems
  <2> QED BY <1>1, <1>2, <2>1, Unmoved, ItemCalls DEF FitsScopes, Return
<1>11. rng' \in States /\ ScopesOK(Used, scopes')
  <2>1. Top.state \in States
    BY <1>1, Places DEF FrameOK
  <2> QED BY <1>2, <2>1, Unmoved
<1>12. Inner(<<>>)
  BY <1>1, <1>2, <1>3, <1>4, <1>6, <1>7, <1>8, <1>9, <1>10, <1>11, ReturnInner
<1> QED BY <1>12

-----------------------------------------------------------------------------
(* Calls of Rules::Build.                                                  *)

\* What Enter does, with the frames it leaves.
EntersWith(x, y, d) ==
  /\ x.op = "rule" /\ FrameOK(Used, x) /\ RuleThere(x, scopes)
  /\ y.op = "leave" /\ FrameOK(Used, y) /\ y.depth = d /\ y.own = (ctx.pre = Null)
  /\ Goto(<<x, y>>)
  /\ ctx'.out = ctx.out /\ ctx'.captures = ctx.captures /\ ctx'.posts = ctx.posts
  /\ ctx'.replay = ctx.replay
  /\ ctx'.pre = IF ctx.pre = Null THEN Len(bufs) + 1 ELSE ctx.pre
  /\ bufs' = IF ctx.pre = Null THEN Append(bufs, <<>>) ELSE bufs
  /\ rng' \in States /\ taken' \in Seq(Snapshots) /\ scopes' = scopes

LEMMA Entered ==
  ASSUME IInv, BuildInv, NEW s \in 1..Len(scopes), NEW i \in Nat, ValidRule(s, i), NEW d \in Nat,
         NEW c, c = [ctx EXCEPT !.depth = d], NEW r \in States, Enter(s, i, c, r)
  PROVE  \E x, y : EntersWith(x, y, d)
<1> DEFINE snap == c.replay[c.replayIdx + 1]
           replays == c.replayIdx < Len(c.replay) /\ snap.depth = c.depth
           limit == IF replays THEN snap.limit ELSE c.limit
           state == IF replays THEN snap.state ELSE r
           own == c.pre = Null
           x == [op |-> "rule", scope |-> s, rule |-> i]
           y == [op |-> "leave", depth |-> c.depth, own |-> own, undo |-> replays, state |-> r,
                 limit |-> limit]
           new == [depth |-> c.depth, limit |-> limit, rule |-> i, state |-> state]
<1>1. /\ rng' = state
      /\ ctx' = [c EXCEPT !.limit = limit, !.replayIdx = IF replays THEN @ + 1 ELSE @,
                          !.pre = IF own THEN Len(bufs) + 1 ELSE @]
      /\ bufs' = IF own THEN Append(bufs, <<>>) ELSE bufs
      /\ taken' = IF recording THEN Append(taken, new) ELSE taken
      /\ Goto(<<x, y>>)
      /\ scopes' = scopes
  BY DEF Enter, gramVars
<1>2. /\ c.depth = d /\ c.replay \in Seq(Snapshots) /\ c.replayIdx \in Nat /\ c.limit \in Nat
      /\ c.pre = ctx.pre /\ c.out = ctx.out /\ c.captures = ctx.captures /\ c.posts = ctx.posts
      /\ c.replay = ctx.replay
      /\ c = [depth |-> c.depth, limit |-> c.limit, pre |-> c.pre, out |-> c.out, posts |-> c.posts,
              captures |-> c.captures, replay |-> c.replay, replayIdx |-> c.replayIdx]
  <2>1. /\ ctx = [depth |-> ctx.depth, limit |-> ctx.limit, pre |-> ctx.pre, out |-> ctx.out,
                  posts |-> ctx.posts, captures |-> ctx.captures, replay |-> ctx.replay,
                  replayIdx |-> ctx.replayIdx]
        /\ ctx.limit \in 0..MaxDepth /\ ctx.replayIdx \in Nat
    BY DEF IInv, Context
  <2>2. c = [depth |-> d, limit |-> ctx.limit, pre |-> ctx.pre, out |-> ctx.out,
             posts |-> ctx.posts, captures |-> ctx.captures, replay |-> ctx.replay,
             replayIdx |-> ctx.replayIdx]
    BY <2>1
  <2>3. ctx.replay \in Seq(Snapshots)
    BY DEF BuildInv, CtxTyped
  <2>4. /\ c.depth = d /\ c.limit = ctx.limit /\ c.pre = ctx.pre /\ c.out = ctx.out
        /\ c.posts = ctx.posts /\ c.captures = ctx.captures /\ c.replay = ctx.replay
        /\ c.replayIdx = ctx.replayIdx
    BY <2>2
  <2>5. c = [depth |-> c.depth, limit |-> c.limit, pre |-> c.pre, out |-> c.out, posts |-> c.posts,
             captures |-> c.captures, replay |-> c.replay, replayIdx |-> c.replayIdx]
    BY <2>2
  <2> QED BY <2>1, <2>3, <2>4, <2>5, ReplayAssumption
<1>3. replays => snap \in Snapshots
  <2> SUFFICES ASSUME replays PROVE snap \in Snapshots
    OBVIOUS
  <2>1. c.replayIdx + 1 \in 1..Len(c.replay)
    BY <1>2
  <2> HIDE DEF snap
  <2>2. c.replay[c.replayIdx + 1] \in Snapshots
    <3> HIDE DEF replays
    <3> DEFINE S == Snapshots
    <3>1. c.replay \in Seq(S)
      BY <1>2
    <3> HIDE DEF S
    <3>2. c.replay[c.replayIdx + 1] \in S
      BY <2>1, <3>1
    <3> QED BY <3>2 DEF S
  <2> QED BY <2>2 DEF snap
<1>4. state \in States /\ limit \in Nat
  <2>1. CASE replays
    BY <1>3, <2>1 DEF Snapshots
  <2>2. CASE ~replays
    BY <1>2, <2>2
  <2> QED BY <2>1, <2>2
<1> HIDE DEF replays, snap, limit, state
<1>5. new \in Snapshots
  BY <1>2, <1>4 DEF Snapshots
<1>6. taken' \in Seq(Snapshots)
  <2> DEFINE S == Snapshots
  <2>1. taken \in Seq(S) /\ new \in S
    BY <1>5 DEF BuildInv, CtxTyped
  <2> HIDE DEF S, new
  <2>2. taken' \in Seq(S)
    BY <1>1, <2>1
  <2> QED BY <2>2 DEF S
<1>7. x.op = "rule" /\ FrameOK(Used, x) /\ RuleThere(x, scopes)
  <2>1. i \in 1..Len(scopes[s])
    BY DEF ValidRule
  <2> QED BY <2>1 DEF FrameOK, RuleThere
<1>8. y.op = "leave" /\ FrameOK(Used, y) /\ y.depth = d /\ y.own = (ctx.pre = Null)
  BY <1>2 DEF FrameOK
<1>9. /\ ctx'.out = ctx.out /\ ctx'.captures = ctx.captures /\ ctx'.posts = ctx.posts
      /\ ctx'.replay = ctx.replay
      /\ ctx'.pre = IF ctx.pre = Null THEN Len(bufs) + 1 ELSE ctx.pre
      /\ bufs' = IF ctx.pre = Null THEN Append(bufs, <<>>) ELSE bufs
  BY <1>1, <1>2
<1> HIDE DEF x, y, own
<1>10. EntersWith(x, y, d)
  BY <1>1, <1>4, <1>6, <1>7, <1>8, <1>9 DEF EntersWith
<1> QED BY <1>10

LEMMA RefInner == ASSUME IInv, BuildInv, BuildRef, fault' = fault PROVE \E f : Inner(f)
<1>1. At(RefKinds) /\ fault = "none"
  BY DEF BuildRef, At
<1>2. /\ work # <<>> /\ Top.op = "item" /\ Still(Top) /\ Top.node \in Nodes /\ Top.node \in NameNodes
  BY <1>1, AtItem DEF NameNodes
<1> DEFINE deeper == [ctx EXCEPT !.depth = @ + 1]
<1>3. PICK i \in RuleIdx :
        IF Having(i) = {}
        THEN IF Item[Top.node].kind = "scoped" \/ Len(scopes) = 1
             THEN Return /\ UNCHANGED <<gramVars, ctx, bufs, randVars, fault>>
             ELSE Fail("no_items")
        ELSE \E s \in Having(i) : Enter(s, i, deeper, rng) \/ Enter(s, i, deeper, AfterNext)
  BY DEF BuildRef
<1>4. CASE Having(i) = {}
  <2>1. Return /\ UNCHANGED <<gramVars, ctx, bufs, randVars, fault>>
    BY <1>1, <1>3, <1>4 DEF Fail
  <2>2. Calls(<<>>) /\ Goto(<<>>)
    BY <2>1, Unmoved, ItemCalls DEF Return
  <2>3. rng' \in States /\ Written /\ ScopesOK(Used, scopes') /\ Len(scopes') = Len(scopes) /\ taken' = taken
    BY <2>1, Unmoved DEF gramVars, randVars
  <2> QED BY <1>2, <2>1, <2>2, <2>3, CallInner
<1>5. CASE Having(i) # {}
  <2>1. PICK s \in Having(i), r \in {rng, AfterNext} : Enter(s, i, deeper, r)
    BY <1>3, <1>5
  <2>2. /\ s \in 1..Len(scopes) /\ ValidRule(s, i) /\ i \in Nat /\ r \in States
        /\ ctx.depth \in Nat
    <3>1. DOMAIN scopes = 1..Len(scopes)
      BY SeqFacts DEF BuildInv, GrammarInv, ScopesOK
    <3> QED BY <1>2, <3>1, Unmoved, RuleIdxIsNat DEF Having, IInv, Context
  <2> DEFINE d == ctx.depth + 1
  <2>3. d \in Nat /\ d # 0 /\ deeper = [ctx EXCEPT !.depth = d]
    BY <2>2
  <2> HIDE DEF deeper, d
  <2>4. PICK x, y : EntersWith(x, y, d)
    BY <2>1, <2>2, <2>3, Entered
  <2>e. /\ x.op = "rule" /\ FrameOK(Used, x) /\ RuleThere(x, scopes)
        /\ y.op = "leave" /\ FrameOK(Used, y) /\ y.depth = d /\ y.own = (ctx.pre = Null)
        /\ Goto(<<x, y>>)
        /\ ctx'.out = ctx.out /\ ctx'.captures = ctx.captures /\ ctx'.posts = ctx.posts
        /\ ctx'.replay = ctx.replay
        /\ ctx'.pre = IF ctx.pre = Null THEN Len(bufs) + 1 ELSE ctx.pre
        /\ bufs' = IF ctx.pre = Null THEN Append(bufs, <<>>) ELSE bufs
        /\ rng' \in States /\ taken' \in Seq(Snapshots) /\ scopes' = scopes
    BY <2>4 DEF EntersWith
  <2>5. /\ ~Outmost(Top) /\ ~Outmost(y) /\ ~Saves(y) /\ After(y, ctx.out) = ctx.out
        /\ Weight(y) = IF ctx.pre = Null THEN 1 ELSE 0
    BY <1>2, <2>3, <2>e DEF Outmost, Saves, After, Weight
  <2>6. /\ bufs \in Seq(Texts) /\ Len(bufs) \in Nat /\ ctx.out \in 1..Len(bufs)
        /\ ctx.pre \in -1..Len(bufs) /\ ctx.pre # ctx.out
    BY <1>2, Places
  <2>7. Moved(bufs, bufs', ctx.pre) /\ Len(bufs') = IF ctx.pre = Null THEN Len(bufs) + 1 ELSE Len(bufs)
    BY <2>e, <2>6, MoreStrings
  <2>8. /\ Len(bufs') - Weight(y) = Len(bufs) /\ ctx'.out \in 1..Len(bufs')
        /\ ctx'.pre \in -1..Len(bufs') /\ ctx'.pre # ctx'.out
        /\ ctx'.pre = ctx.pre \/ ctx'.pre \notin 1..Len(bufs)
        /\ After(y, ctx'.out) = ctx.out
    BY <2>e, <2>5, <2>6, <2>7
  <2>9. ScopesOK(Used, scopes') /\ RuleThere(x, scopes') /\ Len(scopes') = Len(scopes)
    BY <2>e, Unmoved
  <2>10. Inner(<<x, y>>)
    BY <1>2, <2>e, <2>5, <2>7, <2>8, <2>9, PairInner
  <2> QED BY <2>10
<1> QED BY <1>4, <1>5

-----------------------------------------------------------------------------
(* Rules::Build of the top rule.                                           *)

LEMMA NoOtherScopes ==
  ASSUME NEW w, NEW v, NEW n, NEW popped, NEW pushed, Scoping(w, n, popped, pushed),
         \A j \in 1..Len(w) : Level(w, j).op # "end_scope",
         \A j \in 1..Len(v) : Level(v, j).op # "end_scope"
  PROVE  Scoping(v, n, popped, pushed)
<1>1. n \in Nat \ {0} /\ (~popped /\ ~pushed => n = 1)
  BY DEF Scoping
<1> QED BY <1>1 DEF Scoping

LEMMA ChainOfTwo ==
  ASSUME NEW x, x.op \in {"rule", "flush"}, NEW y, y.op \in {"leave", "end"},
         NEW b, Len(b) \in Nat \ {0}, NEW o, o = 1, NEW p, p # 1, NEW w, w = <<x, y>>
  PROVE  Linked(w, o, p, b)
<1> DEFINE O == [j \in 1..2 |-> 1]
           L == [j \in 1..2 |-> Len(b)]
<1>1. Len(w) = 2 /\ Level(w, 1) = y /\ Level(w, 2) = x
  <2>1. Len(w) = 2 /\ w[1] = x /\ w[2] = y
    BY Pairs
  <2> QED BY <2>1 DEF Level
<1>2. ~Saves(x) /\ ~Saves(y) /\ Weight(x) = 0 /\ After(x, 1) = 1
  BY DEF Saves, Weight, After
<1>3. \A j \in 1..2 : O[j] = 1 /\ L[j] = Len(b)
  OBVIOUS
<1> HIDE DEF O, L
<1>4. \A j \in 1..2 : (j = 1 /\ Level(w, j) = y) \/ (j = 2 /\ Level(w, j) = x)
  BY <1>1
<1>5. \A j \in 1..2 : ~Saves(Level(w, j)) /\ Level(w, j).op # "end_store"
  BY <1>2, <1>4
<1>6. \A j \in 2..2 : O[j - 1] = After(Level(w, j), O[j]) /\ L[j - 1] = L[j] - Weight(Level(w, j))
  <2>1. O[1] = 1 /\ O[2] = 1 /\ L[1] = Len(b) /\ L[2] = Len(b)
    BY <1>3
  <2> QED BY <1>1, <1>2, <2>1
<1>7. Chain(w, o, p, b, O, L)
  BY <1>1, <1>3, <1>5, <1>6 DEF Chain
<1> QED BY <1>7 DEF Linked

\* A step of the outmost frame.
LEMMA BottomKeeps ==
  ASSUME BuildInv, BuildSame, at = "build", fault' = fault, scopes' = scopes,
         bufs' \in Seq(Texts), ctx'.captures = ctx.captures, ctx'.posts = ctx.posts,
         ctx'.replay = ctx.replay, taken' \in Seq(Snapshots), rng' \in States,
         Shape(work', ctx'.posts), Scoping(work', Len(scopes), Popped, Pushed),
         FramesOK(Used, work'), RulesOK(work', scopes), ChainInv'
  PROVE  BuildInv'
<1>1. Used' = Used /\ Popped' = Popped /\ Pushed' = Pushed
  BY SameGrammar DEF BuildSame, gramRest
<1>2. GrammarInv'
  BY GrammarKept DEF BuildSame, gramRest, loopVars, BuildInv, GrammarInv
<1>3. CtxTyped'
  BY <1>1 DEF CtxTyped, BuildInv
<1>4. LoopTyped'
  BY DEF LoopTyped, BuildInv, BuildSame, loopVars, counts
<1>5. StackOK'
  BY <1>1 DEF StackOK
<1> QED BY <1>2, <1>3, <1>4, <1>5 DEF BuildInv

\* Where the outmost frame is on top there are no others.
LEMMA Alone ==
  ASSUME IInv, BuildInv, work # <<>>, Outmost(Top)
  PROVE  /\ Len(work) = 1 /\ Level(work, 1) = Top /\ Tail(work) = <<>>
         /\ \A f : AnySeq(f) /\ Goto(f) => work' = f
         /\ ctx.out = 1 /\ ctx.pre # 1 /\ bufs \in Seq(Texts) /\ Len(bufs) \in Nat \ {0}
<1>1. /\ Len(work) \in Nat \ {0} /\ Top = Level(work, Len(work)) /\ AnySeq(work)
      /\ bufs \in Seq(Texts) /\ Len(bufs) \in Nat /\ ctx.out \in 1..Len(bufs) /\ ctx.pre # ctx.out
  BY Places DEF IInv, StackInv
<1>2. Len(work) = 1
  <2>1. \A j \in 2..Len(work) : ~Outmost(Level(work, j))
    BY DEF BuildInv, StackOK, Shape
  <2>2. \A n \in Nat \ {0} : n # 1 => n \in 2..n
    OBVIOUS
  <2>3. Len(work) # 1 => Len(work) \in 2..Len(work)
    BY <1>1, <2>2
  <2> QED BY <1>1, <2>1, <2>3
<1>3. Tail(work) = <<>>
  <2>1. PICK S : work \in Seq(S)
    BY <1>1 DEF AnySeq
  <2>2. AnySeq(Tail(work)) /\ Len(Tail(work)) = 0
    BY <1>2, <2>1 DEF AnySeq
  <2> QED BY <2>2, SeqFacts
<1>4. ctx.out = 1
  <2>1. PICK out, len : Chain(work, ctx.out, ctx.pre, bufs, out, len)
    BY DEF BuildInv, ChainInv
  <2> QED BY <1>2, <2>1 DEF Chain
<1>5. ASSUME NEW f, AnySeq(f), Goto(f)
      PROVE  work' = f
  <2>1. PICK S : f \in Seq(S)
    BY <1>5 DEF AnySeq
  <2> QED BY <1>3, <1>5, <2>1 DEF Goto
<1> QED BY <1>1, <1>2, <1>3, <1>4, <1>5

LEMMA TwoFrames ==
  ASSUME NEW x, NEW y, NEW U, FrameOK(U, x), FrameOK(U, y)
  PROVE  /\ AnySeq(<<x, y>>) /\ Len(<<x, y>>) = 2 /\ Head(<<x, y>>) = x /\ <<x, y>> # <<>>
         /\ Level(<<x, y>>, 1) = y /\ Level(<<x, y>>, 2) = x /\ FramesOK(U, <<x, y>>)
         /\ \A j \in 1..2 : (j = 1 /\ Level(<<x, y>>, j) = y) \/ (j = 2 /\ Level(<<x, y>>, j) = x)
<1> DEFINE w == <<x, y>>
<1>1. AnySeq(w) /\ Len(w) = 2 /\ w[1] = x /\ w[2] = y /\ Head(w) = x /\ w # <<>>
  BY Pairs
<1> HIDE DEF w
<1>2. Level(w, 1) = y /\ Level(w, 2) = x
  BY <1>1 DEF Level
<1>3. \A j \in 1..2 : (j = 1 /\ Level(w, j) = y) \/ (j = 2 /\ Level(w, j) = x)
  BY <1>2
<1>4. FramesOK(U, w)
  BY <1>1, <1>3 DEF FramesOK
<1> QED BY <1>1, <1>2, <1>3, <1>4 DEF w

LEMMA NoFrames ==
  ASSUME BuildInv, \A j \in 1..Len(work) : Level(work, j).op # "end_scope", NEW U, NEW posts
  PROVE  /\ Shape(<<>>, posts) /\ Scoping(<<>>, Len(scopes), Popped, Pushed)
         /\ FramesOK(U, <<>>) /\ RulesOK(<<>>, scopes)
<1>1. Len(<<>>) = 0
  BY NoItems
<1>2. Scoping(work, Len(scopes), Popped, Pushed)
  BY DEF BuildInv, StackOK
<1> DEFINE none == <<>>
<1> HIDE DEF none
<1>3. none = <<>> /\ Len(none) = 0
  BY <1>1 DEF none
<1>4. Scoping(none, Len(scopes), Popped, Pushed)
  BY <1>2, <1>3, NoOtherScopes
<1>5. Shape(none, posts) /\ FramesOK(U, none) /\ RulesOK(none, scopes)
  BY <1>3 DEF Shape, FramesOK, RulesOK
<1> QED BY <1>4, <1>5 DEF none

LEMMA TopKeeps == ASSUME IInv, BuildInv, BuildSame, at = "build", BuildTop PROVE BuildInv'
<1>1. work # <<>> /\ Top.op = "top" /\ fault' = fault
  BY DEF BuildTop, AtOp, Enter
<1>2. Outmost(Top) /\ Idle
  BY <1>1 DEF Outmost, BuildInv, ChainInv
<1>3. /\ Len(work) = 1 /\ Level(work, 1) = Top /\ bufs \in Seq(Texts)
      /\ \A f : AnySeq(f) /\ Goto(f) => work' = f
  BY <1>1, <1>2, Alone
<1>4. \A j \in 1..Len(work) : Level(work, j).op # "end_scope"
  BY <1>1, <1>3
<1>5. CASE ValidRule(1, 1)
  <2>1. Enter(1, 1, ctx, rng)
    BY <1>5 DEF BuildTop
  <2>2. ctx.depth = 0 /\ ctx = [ctx EXCEPT !.depth = 0] /\ 1 \in 1..Len(scopes) /\ rng \in States
    <3>1. ctx.depth = 0
      <4>1. 1 \in 1..Len(work) /\ work[1].op = "top"
        BY <1>1, <1>3, Places
      <4> QED BY <4>1 DEF IInv, TakenInv
    <3>2. ctx = [ctx EXCEPT !.depth = 0]
      BY <3>1 DEF IInv, Context
    <3>3. 1 \in 1..Len(scopes)
      BY SeqFacts DEF BuildInv, GrammarInv, ScopesOK
    <3> QED BY <3>1, <3>2, <3>3, Unmoved
  <2>3. PICK d, x, y : d = 0 /\ EntersWith(x, y, d)
    <3>1. PICK i, d, c : i = 1 /\ d = 0 /\ c = ctx
      OBVIOUS
    <3>2. /\ i \in Nat /\ d \in Nat /\ c = [ctx EXCEPT !.depth = d] /\ ValidRule(i, i)
          /\ i \in 1..Len(scopes) /\ Enter(i, i, c, rng) /\ rng \in States
      BY <1>5, <2>1, <2>2, <3>1
    <3>3. \E x, y : EntersWith(x, y, d)
      BY <3>2, Entered
    <3> QED BY <3>1, <3>3
  <2>e. /\ x.op = "rule" /\ FrameOK(Used, x) /\ RuleThere(x, scopes)
        /\ y.op = "leave" /\ FrameOK(Used, y) /\ y.depth = 0 /\ y.own = (ctx.pre = Null)
        /\ Goto(<<x, y>>)
        /\ ctx'.out = ctx.out /\ ctx'.captures = ctx.captures /\ ctx'.posts = ctx.posts
        /\ ctx'.replay = ctx.replay
        /\ ctx'.pre = IF ctx.pre = Null THEN Len(bufs) + 1 ELSE ctx.pre
        /\ bufs' = IF ctx.pre = Null THEN Append(bufs, <<>>) ELSE bufs
        /\ rng' \in States /\ taken' \in Seq(Snapshots) /\ scopes' = scopes
    BY <2>3 DEF EntersWith
  <2> DEFINE w == <<x, y>>
  <2>4. /\ AnySeq(w) /\ Len(w) = 2 /\ Head(w) = x /\ w # <<>> /\ Level(w, 1) = y /\ Level(w, 2) = x
        /\ FramesOK(Used, w)
        /\ \A j \in 1..2 : (j = 1 /\ Level(w, j) = y) \/ (j = 2 /\ Level(w, j) = x)
    BY <2>e, TwoFrames
  <2>5. ctx'.out = 1 /\ ctx'.pre = 2 /\ Len(bufs') = 2 /\ bufs' \in Seq(Texts)
    <3>1. ctx'.out = 1 /\ ctx'.pre = Len(bufs) + 1 /\ bufs' = Append(bufs, <<>>) /\ Len(bufs) = 1
      BY <1>2, <2>e DEF Idle
    <3>2. Moved(bufs, bufs', Null) /\ Len(bufs') = Len(bufs) + 1
      BY <1>3, <3>1, MoreStrings
    <3> QED BY <3>1, <3>2 DEF Moved
  <2>6. \E out, len : Chain(w, ctx'.out, ctx'.pre, bufs', out, len)
    <3>1. ctx'.out = 1 /\ ctx'.pre # 1 /\ Len(bufs') \in Nat \ {0} /\ w = <<x, y>>
      BY <2>5
    <3>2. x.op = "rule" /\ y.op = "leave"
      BY <2>e
    <3> HIDE DEF w
    <3>3. Linked(w, ctx'.out, ctx'.pre, bufs')
      BY <3>1, <3>2, ChainOfTwo
    <3> QED BY <3>3 DEF Linked
  <2> HIDE DEF w
  <2>7. work' = w
    BY <1>3, <2>e, <2>4 DEF w
  <2>8. Shape(w, ctx'.posts) /\ Scoping(w, Len(scopes), Popped, Pushed) /\ RulesOK(w, scopes)
    <3>1. Shape(w, ctx'.posts)
      BY <2>e, <2>4 DEF Shape, Outmost
    <3>2. \A j \in 1..Len(w) : Level(w, j).op # "end_scope"
      BY <2>e, <2>4
    <3>3. Scoping(work, Len(scopes), Popped, Pushed)
      BY DEF BuildInv, StackOK
    <3>4. Scoping(w, Len(scopes), Popped, Pushed)
      BY <1>4, <3>2, <3>3, NoOtherScopes
    <3>5. RulesOK(w, scopes)
      BY <2>e, <2>4 DEF RulesOK
    <3> QED BY <3>1, <3>4, <3>5
  <2>9. ChainInv'
    <3>1. Top'.op # "top"
      BY <2>e, <2>4, <2>7 DEF Top
    <3> QED BY <2>4, <2>5, <2>6, <2>7, <3>1 DEF ChainInv
  <2> QED BY <1>1, <2>e, <2>4, <2>5, <2>7, <2>8, <2>9, BottomKeeps
<1>6. CASE ~ValidRule(1, 1)
  <2>1. Return /\ UNCHANGED <<gramVars, ctx, bufs, randVars, fault>>
    BY <1>6 DEF BuildTop
  <2>2. work' = <<>>
    BY <1>3, <2>1, NoItems DEF Return
  <2>3. ChainInv'
    BY <1>2, <2>1, <2>2 DEF ChainInv, Idle, Null
  <2>4. scopes' = scopes /\ rng' \in States /\ taken' \in Seq(Snapshots)
    BY <2>1 DEF gramVars, randVars, BuildInv, CtxTyped
  <2>5. /\ Shape(work', ctx'.posts) /\ Scoping(work', Len(scopes), Popped, Pushed)
        /\ FramesOK(Used, work') /\ RulesOK(work', scopes)
    BY <1>4, <2>2, NoFrames
  <2> QED BY <1>1, <1>3, <2>1, <2>3, <2>4, <2>5, BottomKeeps
<1> QED BY <1>5, <1>6

LEMMA LeaveTopKeeps ==
  ASSUME IInv, BuildInv, BuildSame, at = "build", LeaveRule, ctx.depth = 0
  PROVE  BuildInv'
<1> DEFINE x == [op |-> "flush"]
           y == [op |-> "end"]
           w == <<x, y>>
           limit == IF Top.undo THEN Top.limit ELSE ctx.limit
<1>1. work # <<>> /\ Top.op = "leave"
  BY DEF LeaveRule, AtOp
<1>2. Outmost(Top)
  BY <1>1, TopIsInmost DEF Outmost
<1>3. /\ Len(work) = 1 /\ Level(work, 1) = Top
      /\ \A f : AnySeq(f) /\ Goto(f) => work' = f
      /\ ctx.out = 1 /\ ctx.pre # 1 /\ bufs \in Seq(Texts) /\ Len(bufs) \in Nat \ {0}
  BY <1>1, <1>2, Alone
<1>4. /\ rng' = IF Top.undo THEN Top.state ELSE rng
      /\ ctx' = [ctx EXCEPT !.limit = limit] /\ Goto(w) /\ bufs' = bufs
      /\ scopes' = scopes /\ taken' = taken /\ fault' = fault
  BY DEF LeaveRule, gramVars
<1>5. x.op = "flush" /\ y.op = "end" /\ FrameOK(Used, x) /\ FrameOK(Used, y)
  BY DEF FrameOK
<1> HIDE DEF x, y, limit
<1>6. /\ AnySeq(w) /\ Len(w) = 2 /\ Head(w) = x /\ w # <<>> /\ Level(w, 1) = y /\ Level(w, 2) = x
      /\ FramesOK(Used, w)
      /\ \A j \in 1..2 : (j = 1 /\ Level(w, j) = y) \/ (j = 2 /\ Level(w, j) = x)
  BY <1>5, TwoFrames
<1>7. \E out, len : Chain(w, ctx.out, ctx.pre, bufs, out, len)
  <2>1. w = <<x, y>>
    OBVIOUS
  <2> HIDE DEF w
  <2>2. Linked(w, ctx.out, ctx.pre, bufs)
    BY <1>3, <1>5, <2>1, ChainOfTwo
  <2> QED BY <2>2 DEF Linked
<1> HIDE DEF w
<1>8. work' = w
  BY <1>3, <1>4, <1>6
<1>9. /\ ctx'.out = 1 /\ ctx'.pre = ctx.pre /\ ctx'.captures = ctx.captures
      /\ ctx'.posts = ctx.posts /\ ctx'.replay = ctx.replay
  BY <1>3, <1>4, ContextFields
<1>10. rng' \in States
  <2>1. Top.state \in States
    BY <1>1, Places DEF FrameOK
  <2> QED BY <1>4, <2>1, Unmoved
<1>11. Shape(w, ctx'.posts) /\ Scoping(w, Len(scopes), Popped, Pushed) /\ RulesOK(w, scopes)
  <2>1. Shape(w, ctx'.posts)
    BY <1>5, <1>6 DEF Shape, Outmost
  <2>2. \A j \in 1..Len(w) : Level(w, j).op # "end_scope"
    BY <1>5, <1>6
  <2>3. \A j \in 1..Len(work) : Level(work, j).op # "end_scope"
    BY <1>1, <1>3
  <2>4. Scoping(work, Len(scopes), Popped, Pushed)
    BY DEF BuildInv, StackOK
  <2>5. Scoping(w, Len(scopes), Popped, Pushed)
    BY <2>2, <2>3, <2>4, NoOtherScopes
  <2>6. RulesOK(w, scopes)
    BY <1>5, <1>6 DEF RulesOK
  <2> QED BY <2>1, <2>5, <2>6
<1>12. ChainInv'
  <2>1. Top'.op # "top"
    BY <1>5, <1>6, <1>8 DEF Top
  <2>2. ctx.pre \in -1..Len(bufs)
    BY DEF BuildInv, ChainInv
  <2> QED BY <1>4, <1>6, <1>7, <1>8, <1>9, <2>1, <2>2 DEF ChainInv
<1>13. taken' \in Seq(Snapshots)
  BY <1>4 DEF BuildInv, CtxTyped
<1> QED BY <1>3, <1>4, <1>6, <1>8, <1>9, <1>10, <1>11, <1>12, <1>13, BottomKeeps

LEMMA EndTopKeeps == ASSUME IInv, BuildInv, BuildSame, at = "build", EndTop PROVE BuildInv'
<1>1. work # <<>> /\ Top.op = "end"
  BY DEF EndTop, AtOp
<1>2. Outmost(Top)
  BY <1>1 DEF Outmost
<1>3. /\ Len(work) = 1 /\ Level(work, 1) = Top
      /\ \A f : AnySeq(f) /\ Goto(f) => work' = f
      /\ ctx.out = 1 /\ bufs \in Seq(Texts) /\ Len(bufs) \in Nat \ {0}
  BY <1>1, <1>2, Alone
<1>4. /\ ctx' = [ctx EXCEPT !.pre = Null] /\ bufs' = <<bufs[1]>> /\ work' = <<>>
      /\ scopes' = scopes /\ rng' = rng /\ taken' = taken /\ fault' = fault
  BY <1>3, NoItems DEF EndTop, Return, gramVars, randVars
<1>5. bufs' \in Seq(Texts) /\ Len(bufs') = 1
  <2>1. bufs[1] \in Texts
    BY <1>3
  <2> DEFINE x == bufs[1]
  <2> HIDE DEF x
  <2>2. x \in Texts /\ bufs' = <<x>>
    BY <1>4, <2>1 DEF x
  <2> QED BY <2>2
<1>6. /\ ctx'.out = 1 /\ ctx'.pre = Null /\ ctx'.captures = ctx.captures
      /\ ctx'.posts = ctx.posts /\ ctx'.replay = ctx.replay
  BY <1>3, <1>4, ContextFields
<1>7. ctx.posts = <<>>
  BY <1>1, <1>3 DEF BuildInv, StackOK, Shape
<1>8. ChainInv'
  BY <1>4, <1>5, <1>6, <1>7 DEF ChainInv, Idle, Null
<1>9. /\ Shape(work', ctx'.posts) /\ Scoping(work', Len(scopes), Popped, Pushed)
      /\ FramesOK(Used, work') /\ RulesOK(work', scopes)
  <2>1. \A j \in 1..Len(work) : Level(work, j).op # "end_scope"
    BY <1>1, <1>3
  <2> QED BY <1>4, <2>1, NoFrames
<1>10. rng' \in States /\ taken' \in Seq(Snapshots)
  BY <1>4, Unmoved DEF BuildInv, CtxTyped
<1> QED BY <1>4, <1>5, <1>6, <1>8, <1>9, <1>10, BottomKeeps

-----------------------------------------------------------------------------
(* Every step of a build.                                                  *)

\* A step that meets what is not there changes nothing else.
LEMMA FailKeeps == ASSUME BuildInv, BuildSame, NEW why \in Faults, Fail(why) PROVE BuildInv'
<1>1. /\ UNCHANGED <<gramVars, work, ctx, bufs, rng, taken>> /\ fault' \in Faults
      /\ UNCHANGED <<at, who, loopVars, pristine, counts>>
  BY DEF Fail, BuildSame
<1>2. Used' = Used /\ Popped' = Popped /\ Pushed' = Pushed
  BY <1>1, SameGrammar DEF gramVars
<1>3. GrammarInv'
  BY <1>1, GrammarKept DEF gramVars, loopVars, BuildInv, GrammarInv
<1>4. CtxTyped' /\ LoopTyped'
  BY <1>1, <1>2 DEF BuildInv, CtxTyped, LoopTyped, gramVars, loopVars, counts
<1>5. ChainInv' /\ StackOK'
  BY <1>1, <1>2 DEF BuildInv, ChainInv, StackOK, Idle, Top, gramVars
<1> QED BY <1>1, <1>3, <1>4, <1>5 DEF BuildInv

InnerActions ==
  \/ BuildRef \/ BuildRule \/ FlushTop \/ BuildFlush \/ FlushedPrePost
  \/ BuildRaw \/ BuildDraw \/ BuildAnd \/ NextItem \/ BuildOpt \/ BuildOr
  \/ BuildPre \/ EndPre \/ BuildPost \/ BuildFlushed \/ EndFlushed \/ NextPost
  \/ BuildCapture \/ EndCapture \/ BuildCaptured \/ BuildId \/ BuildStore \/ EndStore
  \/ BuildScope \/ EndScope \/ BuildScopeAction

LEMMA ActionInner ==
  ASSUME IInv, BuildInv, InnerActions \/ (LeaveRule /\ ctx.depth # 0), fault' = fault
  PROVE  \E f : Inner(f)
<1>1. CASE BuildRaw \/ BuildDraw \/ BuildCaptured \/ BuildAnd \/ NextItem \/ BuildOpt \/ BuildOr \/ BuildRule
  BY <1>1, WriteInner, AndInner, OptInner, OrInner, RuleInner
<1>2. CASE BuildPost \/ NextPost \/ FlushTop \/ BuildFlush \/ FlushedPrePost
  BY <1>2, PostInner, NextPostInner, FlushInner, FlushedInner
<1>3. CASE BuildPre \/ EndPre \/ BuildFlushed \/ EndFlushed
  BY <1>3, PreInner, EndPreInner, BuildFlushedInner, EndFlushedInner
<1>4. CASE BuildCapture \/ EndCapture \/ BuildId \/ BuildStore \/ EndStore
  BY <1>4, CaptureInner, EndCaptureInner, IdInner, StoreInner, EndStoreInner
<1>5. CASE BuildScope \/ EndScope \/ BuildScopeAction \/ BuildRef \/ (LeaveRule /\ ctx.depth # 0)
  BY <1>5, ScopeInner, EndScopeInner, ScopeActionInner, RefInner, LeaveInner
<1> QED BY <1>1, <1>2, <1>3, <1>4, <1>5 DEF InnerActions

\* Steps fail or go on, and leave the grammar but for the rules alone.
LEMMA StepsOrFails ==
  ASSUME BuildStep
  PROVE  /\ work # <<>> /\ fault = "none" /\ UNCHANGED gramRest
         /\ fault' = fault \/ \E why \in Faults : Fail(why)
<1> USE DEF At, AtOp, gramVars, gramRest, Faults
<1>1. CASE BuildRaw \/ BuildDraw \/ BuildAnd \/ NextItem \/ BuildOpt
  BY <1>1 DEF BuildRaw, BuildDraw, BuildAnd, NextItem, BuildOpt
<1>2. CASE BuildOr \/ BuildRule
  <2>1. work # <<>> /\ fault = "none" /\ \E or : BuildChoice(or)
    BY <1>2 DEF BuildOr, BuildRule
  <2> QED BY <2>1 DEF BuildChoice, Fail
<1>3. CASE BuildTop \/ BuildRef
  <2>1. work # <<>> /\ fault = "none"
    BY <1>3 DEF BuildTop, BuildRef
  <2>2. CASE BuildTop
    <3>1. UNCHANGED gramRest
      BY <2>2 DEF BuildTop, Enter, Fail
    <3>2. fault' = fault \/ \E why \in Faults : Fail(why)
      BY <2>2 DEF BuildTop, Enter
    <3> QED BY <2>1, <3>1, <3>2
  <2>3. CASE BuildRef
    <3>1. UNCHANGED gramRest
      BY <2>3 DEF BuildRef, Enter, Fail
    <3>2. fault' = fault \/ \E why \in Faults : Fail(why)
      BY <2>3 DEF BuildRef, Enter
    <3> QED BY <2>1, <3>1, <3>2
  <2> QED BY <1>3, <2>2, <2>3
<1>4. CASE LeaveRule \/ FlushTop \/ BuildFlush \/ FlushedPrePost \/ EndTop
  BY <1>4 DEF LeaveRule, FlushTop, BuildFlush, FlushPrePost, FlushedPrePost, EndTop, Fail
<1>5. CASE BuildPre \/ EndPre \/ BuildPost \/ BuildNullItem
  BY <1>5 DEF BuildPre, EndPre, BuildPost, BuildNullItem, Fail
<1>6. CASE BuildFlushed \/ EndFlushed \/ NextPost \/ BuildCapture \/ EndCapture \/ BuildCaptured
  BY <1>6 DEF BuildFlushed, EndFlushed, NextPost, BuildCapture, EndCapture, BuildCaptured, Fail
<1>7. CASE BuildId \/ BuildStore \/ EndStore
  BY <1>7 DEF BuildId, BuildStore, EndStore, Fail
<1>8. CASE BuildScope \/ EndScope \/ BuildScopeAction
  BY <1>8 DEF BuildScope, EndScope, BuildScopeAction, Fail
<1> QED BY <1>1, <1>2, <1>3, <1>4, <1>5, <1>6, <1>7, <1>8 DEF BuildStep

LEMMA BuildStepKeeps == ASSUME IInv, IInv', BuildInv, Build PROVE BuildInv'
<1>1. at = "build" /\ BuildStep /\ BuildSame /\ work # <<>>
      /\ (fault' = fault \/ \E why \in Faults : Fail(why))
  BY StepsOrFails DEF Build, BuildSame
<1>2. CASE \E why \in Faults : Fail(why)
  BY <1>1, <1>2, FailKeeps
<1>3. CASE fault' = fault
  <2>1. CASE InnerActions \/ (LeaveRule /\ ctx.depth # 0)
    BY <1>1, <1>3, <2>1, ActionInner, InnerKeeps
  <2>2. CASE BuildTop \/ (LeaveRule /\ ctx.depth = 0) \/ EndTop
    BY <1>1, <2>2, TopKeeps, LeaveTopKeeps, EndTopKeeps
  <2>3. ~BuildNullItem
    BY <1>3 DEF BuildNullItem, AtOp, Fail
  <2> QED BY <1>1, <2>1, <2>2, <2>3 DEF BuildStep, InnerActions
<1> QED BY <1>1, <1>2, <1>3

-----------------------------------------------------------------------------
(* Steps outside a build.                                                  *)

\* Between builds.
LEMMA Resting ==
  ASSUME IInv, BuildInv, at # "build" \/ work = <<>>
  PROVE  /\ work = <<>> /\ Idle /\ Fresh \in States /\ (UsesSeed => seeds' \in Nat)
         /\ bufs \in Seq(Texts) /\ Len(scopes) \in Nat \ {0} /\ (~Popped /\ ~Pushed => Len(scopes) = 1)
<1>1. work = <<>>
  BY DEF IInv, StackInv
<1>2. Idle /\ bufs \in Seq(Texts) /\ seeds \in Nat
  BY <1>1 DEF BuildInv, ChainInv, CtxTyped, LoopTyped
<1>3. Scoping(work, Len(scopes), Popped, Pushed) /\ Len(work) = 0
  BY <1>1, NoItems DEF BuildInv, StackOK
<1>4. Len(scopes) \in Nat \ {0} /\ (~Popped /\ ~Pushed => Len(scopes) = 1)
  BY <1>3 DEF Scoping
<1>5. Fresh \in States /\ (UsesSeed => seeds' \in Nat)
  BY <1>2 DEF Fresh, Seed, States, UsesSeed
<1> QED BY <1>1, <1>2, <1>4, <1>5

LEMMA OffKeeps ==
  ASSUME IInv, BuildInv, at # "build" \/ work = <<>>, grammar' = grammar,
         GrammarInv', CtxTyped', LoopTyped', Idle', fault' = fault,
         Len(scopes') = Len(scopes) \/ Len(scopes') = 1,
         work' = <<>> \/ work' = <<[op |-> "top"]>>
  PROVE  BuildInv'
<1>1. Used' = Used /\ Popped' = Popped /\ Pushed' = Pushed
  BY SameGrammar
<1>2. ~Popped /\ ~Pushed => Len(scopes') = 1
  BY Resting
<1>3. Len(scopes') \in Nat \ {0} /\ Null \in -1..Len(bufs')
  <2>1. Len(scopes) \in Nat \ {0}
    BY Resting
  <2>2. Len(bufs') = 1
    BY DEF Idle
  <2> QED BY <2>1, <2>2 DEF Null
<1>4. CASE work' = <<>>
  <2>1. Len(work') = 0
    BY <1>4, NoItems
  <2>2. StackOK'
    BY <1>1, <1>2, <1>3, <1>4, <2>1 DEF StackOK, Shape, Scoping, FramesOK, RulesOK
  <2>3. ChainInv'
    BY <1>3, <1>4 DEF ChainInv, Idle
  <2> QED BY <2>2, <2>3 DEF BuildInv
<1>5. CASE work' = <<[op |-> "top"]>>
  <2> DEFINE x == [op |-> "top"]
             w == <<x>>
             one == [j \in 1..1 |-> 1]
  <2>1. x.op = "top" /\ w # <<>> /\ Len(w) = 1 /\ w[1] = x
    OBVIOUS
  <2> HIDE DEF x, w
  <2>2. work' = w /\ Top' = x /\ Level(w, 1) = x
    <3>1. work' = w
      BY <1>5 DEF w, x
    <3>2. w = <<x>> /\ Head(w) = x
      BY DEF w
    <3> QED BY <2>1, <3>1, <3>2 DEF Top, Level
  <2>3. FrameOK(Used, x) /\ Outmost(x) /\ ~Saves(x)
    BY <2>1 DEF FrameOK, Outmost, Saves
  <2>4. StackOK'
    <3>1. Shape(w, ctx'.posts)
      BY <2>1, <2>2, <2>3 DEF Shape
    <3>2. Scoping(w, Len(scopes'), Popped, Pushed)
      BY <1>2, <1>3, <2>1, <2>2 DEF Scoping
    <3>3. FramesOK(Used, w) /\ RulesOK(w, scopes')
      BY <2>1, <2>2, <2>3 DEF FramesOK, RulesOK
    <3> QED BY <1>1, <2>2, <3>1, <3>2, <3>3 DEF StackOK
  <2>5. Chain(w, 1, Null, bufs', one, one)
    <3>1. Len(bufs') = 1 /\ one[1] = 1
      BY DEF Idle
    <3> HIDE DEF one
    <3> QED BY <2>1, <2>2, <2>3, <3>1 DEF Chain, Null
  <2>6. ChainInv'
    BY <1>3, <2>2, <2>5 DEF ChainInv, Idle
  <2> QED BY <2>4, <2>6 DEF BuildInv
<1> QED BY <1>4, <1>5

LEMMA FinalizeStepKeeps == ASSUME IInv, BuildInv, FinalizeStep PROVE BuildInv'
<1>1. /\ at = "finalize" /\ at' = at /\ UNCHANGED <<genVars, who, loopVars, pristine, counts>>
      /\ Finalize
  BY DEF FinalizeStep
<1>2. grammar' = grammar
  BY <1>1 DEF Finalize, AddRule, ReachRule, ReachItem, ReachReturn, ReachRuleEnd, ReachEnd,
              DepthRule, DepthEnd, Visit
<1>3. GrammarInv'
  BY FinalizeKeeps DEF BuildInv
<1>4. Len(scopes') = 1
  BY <1>1, <1>3 DEF GrammarInv
<1>5. CtxTyped' /\ LoopTyped'
  <2>1. Used' = Used
    BY <1>2, SameGrammar
  <2> QED BY <1>1, <2>1 DEF BuildInv, CtxTyped, LoopTyped, genVars, loopVars, counts
<1>6. Idle' /\ work' = <<>>
  BY <1>1, Resting DEF Idle, genVars
<1> QED BY <1>1, <1>2, <1>3, <1>4, <1>5, <1>6, OffKeeps DEF genVars

LEMMA EmptyRecordings == <<>> \in Seq(Snapshots)
  OBVIOUS

LEMMA ForkKeeps == ASSUME IInv, BuildInv, LaunchCampaign \/ Relaunch PROVE BuildInv'
<1>1. /\ at # "build" \/ work = <<>>
      /\ Forked(Root) /\ UNCHANGED <<grammar, names, index, work, bufs, taken, fault, corpus, plan, saved,
                                     pristine>>
      /\ mainRoot' = Root /\ origRoot' \in {Root, origRoot}
      /\ fin' = fin \/ fin' = [fin EXCEPT !.pass = "over"]
  BY DEF LaunchCampaign, Relaunch, Built, gramRest
<1>2. /\ at' = "top" /\ who' = "loop" /\ scopes' = <<Root>>
      /\ ctx' = NewContext(MaxDepth, <<>>) /\ rng' = Fresh /\ UsesSeed /\ mutated' = <<>>
  BY <1>1 DEF Forked
<1>3. RuleList(Used, Root) /\ Used' = Used
  BY <1>1, RootIsOK, SameGrammar DEF BuildInv
<1>4. ScopesOK(Used, scopes') /\ Len(scopes') = 1
  BY <1>2, <1>3, OneScope
<1>5. GrammarInv'
  <2>1. "at" \in DOMAIN fin' /\ fin'.at \in Nat \ {0}
    BY <1>1 DEF BuildInv, GrammarInv
  <2>2. RuleList(Used, origRoot')
    BY <1>1, <1>3 DEF BuildInv, GrammarInv
  <2> QED BY <1>1, <1>3, <1>4, <2>1, <2>2 DEF BuildInv, GrammarInv, Indexed
<1>6. /\ ctx'.out = 1 /\ ctx'.pre = Null /\ ctx'.posts = <<>> /\ ctx'.captures = <<>> /\ ctx'.replay = <<>>
  BY <1>2 DEF NewContext
<1>7. CtxTyped'
  <2>1. <<>> \in Seq(Texts) /\ <<>> \in Seq(Used \cup {NoNode})
    OBVIOUS
  <2> QED BY <1>1, <1>2, <1>3, <1>6, <2>1, Resting, EmptyRecordings DEF BuildInv, CtxTyped
<1>8. LoopTyped'
  BY <1>1, <1>2, Resting, EmptyRecordings DEF BuildInv, LoopTyped
<1>9. Idle' /\ work' = <<>>
  BY <1>1, <1>6, Resting DEF Idle
<1> QED BY <1>1, <1>4, <1>5, <1>7, <1>8, <1>9, OffKeeps

LEMMA StartDumpStepKeeps == ASSUME IInv, BuildInv, StartDump PROVE BuildInv'
<1>1. /\ at = "top" /\ at' = "dump" /\ who' = "dump" /\ scopes' = <<origRoot>>
      /\ ctx' = NewContext(MaxDepth, <<>>) /\ rng' = Fresh /\ UsesSeed
      /\ mutated' = <<>> /\ saved' = <<>>
      /\ UNCHANGED <<gramRest, work, bufs, taken, fault, corpus, plan, mainRoot, origRoot, pristine>>
  BY DEF StartDump
<1>2. RuleList(Used, origRoot) /\ Used' = Used /\ grammar' = grammar
  BY <1>1, SameGrammar DEF BuildInv, GrammarInv, gramRest
<1>3. ScopesOK(Used, scopes') /\ Len(scopes') = 1
  BY <1>1, <1>2, OneScope
<1>4. GrammarInv'
  BY <1>1, <1>3, GrammarKept DEF BuildInv, GrammarInv, gramRest
<1>5. /\ ctx'.out = 1 /\ ctx'.pre = Null /\ ctx'.posts = <<>> /\ ctx'.captures = <<>> /\ ctx'.replay = <<>>
  BY <1>1 DEF NewContext
<1>6. CtxTyped'
  <2>1. <<>> \in Seq(Texts) /\ <<>> \in Seq(Used \cup {NoNode})
    OBVIOUS
  <2> QED BY <1>1, <1>2, <1>5, <2>1, Resting, EmptyRecordings DEF BuildInv, CtxTyped
<1>7. LoopTyped'
  BY <1>1, Resting, EmptyRecordings DEF BuildInv, LoopTyped
<1>8. Idle' /\ work' = <<>>
  BY <1>1, <1>5, Resting DEF Idle
<1> QED BY <1>1, <1>2, <1>3, <1>4, <1>6, <1>7, <1>8, OffKeeps

\* Steps that begin a build.
LEMMA StartedKeeps ==
  ASSUME IInv, BuildInv, at # "build" \/ work = <<>>, NEW c, StartBuild(c),
         UNCHANGED <<gramRest, mainRoot, origRoot, fault>>,
         scopes' = scopes \/ scopes' = <<mainRoot>>,
         c.out = 1, c.pre = Null, c.posts = <<>>, c.captures \in Seq(Texts), c.replay \in Seq(Snapshots),
         rng' \in States, LoopTyped'
  PROVE  BuildInv'
<1>1. /\ at' = "build" /\ ctx' = c /\ work' = <<[op |-> "top"]>> /\ bufs' = << <<>> >> /\ taken' = <<>>
  BY DEF StartBuild
<1>2. Used' = Used /\ grammar' = grammar /\ ScopesOK(Used, scopes) /\ RuleList(Used, mainRoot)
  BY SameGrammar DEF BuildInv, GrammarInv, gramRest
<1>3. ScopesOK(Used, scopes') /\ (Len(scopes') = Len(scopes) \/ Len(scopes') = 1)
  BY <1>2, OneScope
<1>4. GrammarInv'
  BY <1>1, <1>3, GrammarKept DEF BuildInv, GrammarInv, gramRest
<1>5. bufs' \in Seq(Texts) /\ Len(bufs') = 1
  <2> DEFINE z == <<>>
  <2>1. z \in Texts
    BY DEF Texts
  <2>2. bufs' = <<z>>
    BY <1>1
  <2> HIDE DEF z
  <2> QED BY <2>1, <2>2
<1>6. CtxTyped'
  <2>1. <<>> \in Seq(Used \cup {NoNode})
    OBVIOUS
  <2> QED BY <1>1, <1>2, <1>5, <2>1, EmptyRecordings DEF CtxTyped
<1>7. Idle'
  BY <1>1, <1>5 DEF Idle
<1> QED BY <1>1, <1>2, <1>3, <1>4, <1>6, <1>7, OffKeeps

LEMMA CreateStepKeeps == ASSUME IInv, BuildInv, Create PROVE BuildInv'
<1>1. PICK d \in 1..MaxDepth : StartBuild([ctx EXCEPT !.replay = <<>>, !.replayIdx = 0, !.limit = d])
  BY DEF Create
<1> DEFINE c == [ctx EXCEPT !.replay = <<>>, !.replayIdx = 0, !.limit = d]
<1>2. /\ at = "top" /\ scopes' = scopes
      /\ UNCHANGED <<gramRest, rng, fault, who, loopVars, seeds>>
  BY DEF Create
<1>3. Idle /\ rng \in States /\ ctx.captures \in Seq(Texts)
  BY <1>2, Resting, Unmoved DEF BuildInv, CtxTyped
<1>4. /\ c.out = 1 /\ c.pre = Null /\ c.posts = <<>> /\ c.captures = ctx.captures /\ c.replay = <<>>
  BY <1>3 DEF Idle, IInv, Context
<1>5. LoopTyped'
  BY <1>1, <1>2 DEF BuildInv, LoopTyped, loopVars, StartBuild
<1> HIDE DEF c
<1>6. StartBuild(c)
  BY <1>1 DEF c
<1> QED BY <1>2, <1>3, <1>4, <1>5, <1>6, EmptyRecordings, StartedKeeps DEF loopVars

LEMMA BuildMutatedStepKeeps == ASSUME IInv, BuildInv, BuildMutated PROVE BuildInv'
<1> DEFINE c == [ctx EXCEPT !.replay = mutated, !.replayIdx = 0]
<1>1. /\ at = "mutate" /\ scopes' = scopes /\ StartBuild(c) /\ plan' = NoPlan
      /\ UNCHANGED <<gramRest, rng, fault, who, corpus, mutated, saved, mainRoot, origRoot, counts>>
  BY DEF BuildMutated
<1>2. Idle /\ rng \in States /\ ctx.captures \in Seq(Texts) /\ mutated \in Seq(Snapshots)
  BY <1>1, Resting, Unmoved DEF BuildInv, CtxTyped, LoopTyped
<1>3. /\ c.out = 1 /\ c.pre = Null /\ c.posts = <<>> /\ c.captures = ctx.captures /\ c.replay = mutated
  BY <1>2 DEF Idle, IInv, Context
<1>4. LoopTyped'
  BY <1>1, EmptyRecordings DEF BuildInv, LoopTyped, NoPlan, StartBuild, counts
<1> HIDE DEF c
<1> QED BY <1>1, <1>2, <1>3, <1>4, StartedKeeps

LEMMA CrashStepKeeps == ASSUME IInv, BuildInv, RunAndCrash PROVE BuildInv'
<1> DEFINE c == NewContext(MaxDepth, mutated)
<1>1. /\ at = "build" /\ work = <<>> /\ scopes' = <<mainRoot>> /\ StartBuild(c)
      /\ saved' = mutated /\ who' = "handler" /\ rng' = Fresh /\ UsesSeed
      /\ UNCHANGED <<gramRest, fault, corpus, mutated, plan, mainRoot, origRoot>>
  BY DEF RunAndCrash, Built
<1>2. mutated \in Seq(Snapshots) /\ <<>> \in Seq(Texts)
  BY DEF BuildInv, LoopTyped
<1>3. /\ c.out = 1 /\ c.pre = Null /\ c.posts = <<>> /\ c.captures = <<>> /\ c.replay = mutated
  BY DEF NewContext
<1>4. LoopTyped'
  BY <1>1, Resting DEF BuildInv, LoopTyped, StartBuild
<1> HIDE DEF c
<1> QED BY <1>1, <1>2, <1>3, <1>4, Resting, StartedKeeps

\* An entry of the corpus.
LEMMA EntryIsTyped ==
  ASSUME NEW c \in Seq(Entries), NEW e, e \in ToSet(c) \/ \E k \in 1..Len(c) : e = c[k]
  PROVE  e.snaps \in Seq(Snapshots)
<1> DEFINE S == Entries
<1>1. c \in Seq(S)
  OBVIOUS
<1> HIDE DEF S
<1>2. e \in S
  BY <1>1 DEF ToSet
<1> QED BY <1>2 DEF S, Entries

LEMMA DumpStepKeeps == ASSUME IInv, Counted, BuildInv, DumpEntry PROVE BuildInv'
<1> DEFINE snaps == corpus[dumped + 1].snaps
           c == [ctx EXCEPT !.replay = snaps, !.replayIdx = 0]
<1>1. /\ at # "build" \/ work = <<>>
      /\ dumped < Len(corpus) /\ scopes' = scopes /\ StartBuild(c)
      /\ UNCHANGED <<gramRest, rng, fault, who, loopVars, seeds>>
  BY DEF DumpEntry, Built
<1>2. snaps \in Seq(Snapshots)
  <2>1. corpus \in Seq(Entries) /\ dumped \in Nat
    BY DEF Counted, BuildInv, LoopTyped
  <2>2. dumped + 1 \in 1..Len(corpus)
    <3> DEFINE S == Entries
    <3>1. corpus \in Seq(S)
      BY <2>1
    <3> HIDE DEF S
    <3>2. Len(corpus) \in Nat
      BY <3>1
    <3> QED BY <1>1, <2>1, <3>2
  <2> QED BY <2>1, <2>2, EntryIsTyped
<1> HIDE DEF snaps
<1>3. Idle /\ rng \in States /\ ctx.captures \in Seq(Texts)
  BY <1>1, Resting, Unmoved DEF BuildInv, CtxTyped
<1>4. /\ c.out = 1 /\ c.pre = Null /\ c.posts = <<>> /\ c.captures = ctx.captures /\ c.replay = snaps
  BY <1>3 DEF Idle, IInv, Context
<1>5. LoopTyped'
  BY <1>1 DEF BuildInv, LoopTyped, loopVars, StartBuild
<1> HIDE DEF c
<1> QED BY <1>1, <1>2, <1>3, <1>4, <1>5, StartedKeeps DEF loopVars

\* Steps between builds that touch recordings only.
LEMMA RecordingStepKeeps ==
  ASSUME IInv, BuildInv, at # "build" \/ work = <<>>, UNCHANGED <<gramVars, genVars, mainRoot, origRoot>>,
         at' # "finalize", LoopTyped'
  PROVE  BuildInv'
<1>1. /\ UNCHANGED <<grammar, fin, names, index, scopes, work, ctx, bufs, rng, taken, fault>>
  BY DEF gramVars, genVars
<1>2. GrammarInv'
  BY <1>1, GrammarKept DEF BuildInv, GrammarInv
<1>3. CtxTyped' /\ Idle' /\ work' = <<>>
  BY <1>1, Resting, SameGrammar DEF BuildInv, CtxTyped, Idle
<1> QED BY <1>1, <1>2, <1>3, OffKeeps

LEMMA PickStepKeeps == ASSUME IInv, BuildInv, PickInput PROVE BuildInv'
<1>1. /\ at = "top" /\ at' = "mutate" /\ mutated' = <<>>
      /\ UNCHANGED <<gramVars, genVars, who, corpus, saved, mainRoot, origRoot, pristine, seeds>>
  BY DEF PickInput
<1>2. plan'.orig \in Seq(Snapshots)
  <2>1. PICK e \in ToSet(corpus) :
          plan' = NoPlan \/ \E t, l : plan' = [NoPlan EXCEPT !.orig = e.snaps, !.target = t, !.left = l]
    BY DEF PickInput
  <2>2. e.snaps \in Seq(Snapshots)
    BY EntryIsTyped DEF BuildInv, LoopTyped
  <2>3. \A z, t, l : [NoPlan EXCEPT !.orig = z, !.target = t, !.left = l].orig = z
    BY DEF NoPlan
  <2>4. NoPlan.orig \in Seq(Snapshots)
    BY EmptyRecordings DEF NoPlan
  <2>5. CASE plan' = NoPlan
    BY <2>4, <2>5
  <2>6. CASE \E t, l : plan' = [NoPlan EXCEPT !.orig = e.snaps, !.target = t, !.left = l]
    <3>1. PICK t, l : plan' = [NoPlan EXCEPT !.orig = e.snaps, !.target = t, !.left = l]
      BY <2>6
    <3>2. plan'.orig = e.snaps
      BY <3>1, <2>3
    <3> QED BY <3>2, <2>2
  <2> QED BY <2>1, <2>5, <2>6
<1>3. LoopTyped'
  BY <1>1, <1>2, EmptyRecordings DEF BuildInv, LoopTyped
<1> QED BY <1>1, <1>3, RecordingStepKeeps

LEMMA MutationStepKeeps == ASSUME IInv, BuildInv, KeepSnapshot \/ MutateSnapshot PROVE BuildInv'
<1>1. /\ at = "mutate" /\ at' = at /\ plan.cur <= Len(plan.orig)
      /\ UNCHANGED <<gramVars, genVars, who, corpus, saved, mainRoot, origRoot, pristine>>
  BY DEF KeepSnapshot, MutateSnapshot, Mutating
<1>2. Current \in Snapshots
  <2> DEFINE S == Snapshots
  <2>1. plan.orig \in Seq(S) /\ plan.cur \in Nat \ {0}
    BY DEF BuildInv, LoopTyped, IInv, PlanInv
  <2> HIDE DEF S
  <2>2. Current \in S
    BY <1>1, <2>1 DEF Current
  <2> QED BY <2>2 DEF S
<1>3. /\ seeds' \in Nat /\ plan'.orig = plan.orig
      /\ \E x \in Snapshots : mutated' = Append(mutated, x)
  <2>1. CASE KeepSnapshot
    <3>1. plan'.orig = plan.orig
      BY <2>1 DEF KeepSnapshot, IInv, PlanInv
    <3> QED BY <1>2, <2>1, <3>1 DEF KeepSnapshot, counts, BuildInv, LoopTyped
  <2>2. CASE MutateSnapshot
    <3>1. plan'.orig = plan.orig
      BY <2>2 DEF MutateSnapshot, IInv, PlanInv
    <3>2. PICK limit \in {Current.limit} \cup NewLimits(Current.limit), fresh \in BOOLEAN :
            /\ IF fresh THEN UsesSeed ELSE UNCHANGED seeds
            /\ mutated' = Append(mutated, [depth |-> Current.depth, limit |-> limit, rule |-> Current.rule,
                                           state |-> IF fresh THEN Fresh ELSE Current.state])
      BY <2>2 DEF MutateSnapshot
    <3>3. limit \in Nat
      BY <1>2, ReplayAssumption DEF NewLimits, Snapshots
    <3>4. Fresh \in States /\ (UsesSeed => seeds' \in Nat) /\ seeds \in Nat
      BY <1>1, Resting DEF BuildInv, LoopTyped
    <3> DEFINE x == [depth |-> Current.depth, limit |-> limit, rule |-> Current.rule,
                     state |-> IF fresh THEN Fresh ELSE Current.state]
    <3>5. x \in Snapshots
      BY <1>2, <3>3, <3>4 DEF Snapshots
    <3>6. seeds' \in Nat
      BY <3>2, <3>4
    <3> HIDE DEF x
    <3>7. mutated' = Append(mutated, x)
      BY <3>2 DEF x
    <3> QED BY <3>1, <3>5, <3>6, <3>7
  <2> QED BY <2>1, <2>2
<1>4. mutated' \in Seq(Snapshots)
  <2> DEFINE S == Snapshots
  <2>1. mutated \in Seq(S) /\ \E x \in S : mutated' = Append(mutated, x)
    BY <1>3 DEF BuildInv, LoopTyped
  <2> HIDE DEF S
  <2>2. mutated' \in Seq(S)
    BY <2>1
  <2> QED BY <2>2 DEF S
<1>5. LoopTyped'
  BY <1>1, <1>3, <1>4 DEF BuildInv, LoopTyped
<1> QED BY <1>1, <1>5, RecordingStepKeeps

LEMMA RunStepKeeps == ASSUME IInv, BuildInv, RunQuietly \/ RunWithNews PROVE BuildInv'
<1> DEFINE e == [snaps |-> taken, text |-> bufs[1], pristine |-> pristine]
<1>1. /\ at = "build" /\ work = <<>> /\ at' = "top" /\ saved' = mutated
      /\ corpus' = corpus \/ corpus' = Append(corpus, e)
      /\ UNCHANGED <<gramVars, genVars, who, mutated, plan, mainRoot, origRoot, pristine, counts>>
  BY DEF RunQuietly, RunWithNews, Built
<1>2. e \in Entries
  <2>1. bufs[1] \in Texts
    <3>1. bufs \in Seq(Texts) /\ Len(bufs) = 1
      BY <1>1, Resting DEF Idle
    <3>2. 1 \in 1..Len(bufs)
      BY <3>1
    <3> QED BY <3>1, <3>2, TextFacts
  <2> QED BY <2>1 DEF Entries, BuildInv, CtxTyped, LoopTyped
<1>3. corpus' \in Seq(Entries)
  <2> DEFINE S == Entries
  <2>1. corpus \in Seq(S) /\ e \in S
    BY <1>2 DEF BuildInv, LoopTyped
  <2> HIDE DEF S, e
  <2>2. corpus' \in Seq(S)
    BY <1>1, <2>1
  <2> QED BY <2>2 DEF S
<1>4. LoopTyped'
  BY <1>1, <1>3 DEF BuildInv, LoopTyped, counts
<1> QED BY <1>1, <1>4, RecordingStepKeeps

-----------------------------------------------------------------------------
(* The invariant holds.                                                    *)

LEMMA InitBuildInv == Init => BuildInv
<1> SUFFICES ASSUME Init PROVE BuildInv
  OBVIOUS
<1>1. /\ grammar \in Grammars /\ names = <<>> /\ scopes = << <<>> >> /\ work = <<>>
      /\ index = [n \in NameNodes |-> -1] /\ "at" \in DOMAIN fin /\ fin.at = 1
      /\ ctx = NewContext(0, <<>>) /\ bufs = << <<>> >> /\ rng = [seed |-> 0, pos |-> 0]
      /\ taken = <<>> /\ fault = "none" /\ at = "finalize" /\ who = "loop" /\ seeds = 0
      /\ corpus = <<>> /\ mutated = <<>> /\ plan = NoPlan /\ saved = <<>>
      /\ mainRoot = <<>> /\ origRoot = <<>> /\ pristine = FALSE
  BY DEF Init, GrammarInit, GenInit
<1>2. Len(<<>>) = 0 /\ AnySeq(<<>>)
  BY NoItems
<1>3. GrammarInv
  <2>1. RuleList(Used, <<>>)
    BY NewRules
  <2>2. ScopesOK(Used, scopes) /\ Len(scopes) = 1
    BY <1>1, <2>1, OneScope
  <2>3. Indexed
    BY <1>1 DEF Indexed
  <2> QED BY <1>1, <1>2, <2>1, <2>2, <2>3 DEF GrammarInv
<1>4. /\ ctx.out = 1 /\ ctx.pre = Null /\ ctx.posts = <<>> /\ ctx.captures = <<>> /\ ctx.replay = <<>>
  BY <1>1 DEF NewContext
<1>5. bufs \in Seq(Texts) /\ Len(bufs) = 1
  <2>1. PICK z : z = <<>>
    OBVIOUS
  <2>2. z \in Texts /\ bufs = <<z>>
    BY <1>1, <2>1, NoText
  <2> QED BY <2>2
<1>6. CtxTyped
  <2>1. <<>> \in Seq(Texts) /\ <<>> \in Seq(Used \cup {NoNode}) /\ <<>> \in Seq(Snapshots)
    OBVIOUS
  <2>2. rng \in States
    BY <1>1 DEF States
  <2> QED BY <1>1, <1>4, <1>5, <2>1, <2>2 DEF CtxTyped
<1>7. LoopTyped
  <2>1. <<>> \in Seq(Snapshots) /\ <<>> \in Seq(Entries)
    OBVIOUS
  <2>2. plan.orig = <<>>
    BY <1>1 DEF NoPlan
  <2> QED BY <1>1, <2>1, <2>2 DEF LoopTyped
<1>8. ChainInv
  BY <1>1, <1>4, <1>5 DEF ChainInv, Idle, Null
<1>9. StackOK
  <2>1. Len(scopes) = 1
    BY <1>1
  <2>2. PICK w : w = work
    OBVIOUS
  <2>3. w = <<>> /\ Len(w) = 0
    BY <1>1, <1>2, <2>2
  <2>4. Shape(w, ctx.posts) /\ FramesOK(Used, w) /\ RulesOK(w, scopes)
    BY <2>3 DEF Shape, FramesOK, RulesOK
  <2>5. Scoping(w, Len(scopes), Popped, Pushed)
    BY <2>1, <2>3 DEF Scoping
  <2> QED BY <2>2, <2>4, <2>5 DEF StackOK
<1> QED BY <1>1, <1>3, <1>6, <1>7, <1>8, <1>9 DEF BuildInv, Faults

LEMMA SameBuildKeeps == ASSUME BuildInv, UNCHANGED vars PROVE BuildInv'
<1>1. /\ UNCHANGED <<grammar, fin, names, index, scopes, work, ctx, bufs, rng, taken, fault>>
      /\ UNCHANGED <<at, who, corpus, mutated, plan, saved, mainRoot, origRoot, pristine, seeds>>
  BY DEF vars, gramVars, genVars, loopVars, counts
<1>2. Used' = Used /\ Popped' = Popped /\ Pushed' = Pushed
  BY <1>1, SameGrammar
<1>3. GrammarInv'
  BY <1>1, GrammarKept DEF BuildInv, GrammarInv
<1>4. CtxTyped' /\ LoopTyped'
  BY <1>1, <1>2 DEF BuildInv, CtxTyped, LoopTyped
<1>5. ChainInv'
  BY <1>1 DEF BuildInv, ChainInv, Idle, Top
<1>6. StackOK'
  BY <1>1, <1>2 DEF BuildInv, StackOK
<1> QED BY <1>1, <1>3, <1>4, <1>5, <1>6 DEF BuildInv

LEMMA BuildInvKeeps == IInv /\ IInv' /\ Counted /\ BuildInv /\ [Next]_vars => BuildInv'
BY SameBuildKeeps, FinalizeStepKeeps, ForkKeeps, CreateStepKeeps, PickStepKeeps, MutationStepKeeps,
   BuildMutatedStepKeeps, BuildStepKeeps, RunStepKeeps, CrashStepKeeps, StartDumpStepKeeps,
   DumpStepKeeps
DEF Next

\* The strings, the frames and the scopes of a build are in order in every
\* reachable state of every grammar.
THEOREM BuildsInOrder == Spec => [](IInv /\ BuildInv)
<1>1. Init => Counted
  BY DEF Init, Counted
<1> QED BY <1>1, InitInv, StepKeeps, CountedKeeps, InitBuildInv, BuildInvKeeps, PTL DEF Spec

-----------------------------------------------------------------------------
(* What follows from it.                                                   *)

\* Every string a build points at is there, in every state of every build
\* (build_context.hpp, the std::string* of the context), and every recording, text
\* and entry is made of what it should be.
THEOREM TypesAreRight == Spec => []TypeOK
<1>1. IInv /\ BuildInv => TypeOK
  <2> SUFFICES ASSUME IInv, BuildInv PROVE TypeOK
    OBVIOUS
  <2>1. ctx.out \in 1..Len(bufs) /\ ctx.pre \in -1..Len(bufs)
    <3>1. CASE work # <<>>
      BY <3>1, Places
    <3>2. CASE work = <<>>
      <4>1. ctx.out = 1 /\ Len(bufs) = 1 /\ ctx.pre \in -1..Len(bufs)
        BY <3>2 DEF BuildInv, ChainInv, Idle
      <4> QED BY <4>1
    <3> QED BY <3>1, <3>2
  <2> QED BY <2>1 DEF BuildInv, CtxTyped, LoopTyped, Entries, TypeOK
<1> QED BY <1>1, BuildsInOrder, PTL

\* Whatever the items of a grammar do to the context, a build ends with the depth,
\* the output, the pre output, the posts and the strings it began with, and, unless
\* the grammar uses SCOPE_PUSH or SCOPE_POP, with the one scope of the rules.
THEOREM BuildsRestoreTheContext == Spec => []ContextIsRestored
<1>1. IInv /\ BuildInv => ContextIsRestored
  <2> SUFFICES ASSUME IInv, BuildInv, NEW w \in {"loop", "handler", "dump"}, Built(w)
               PROVE  /\ ctx.depth = 0 /\ ctx.out = 1 /\ ctx.pre = Null /\ ctx.posts = <<>>
                      /\ Len(bufs) = 1 /\ (Uses({"push", "pop"}) \/ Len(scopes) = 1)
    BY DEF ContextIsRestored
  <2>1. work = <<>>
    BY DEF Built
  <2>2. ctx.depth = 0
    BY <2>1, DepthIsZero
  <2>3. Idle /\ (~Popped /\ ~Pushed => Len(scopes) = 1)
    BY <2>1, Resting
  <2>4. Popped \/ Pushed => Uses({"push", "pop"})
    BY DEF Popped, Pushed, Uses
  <2> QED BY <2>2, <2>3, <2>4 DEF Idle
<1> QED BY <1>1, BuildsInOrder, PTL

-----------------------------------------------------------------------------
(* What a build meets.  Without FLUSH there is a pre_output to the end of   *)
(* the top rule, and no item is put off and then gone.                      *)

\* A frame that puts post_items back to what they were, and their number then.
Keeps(f) == f.op \in {"end_flushed", "posts"}
Keep(f) == IF f.op = "end_flushed" THEN f.posts ELSE f.keep
Flushing(f) == f.op \in {"flush", "flushed"}

\* Only the top rule has the string for pre output; the others restore one.
TameFrame(f) ==
  /\ f.op = "leave" /\ f.own => f.depth = 0
  /\ f.op = "end_flushed" => f.pre \in Nat \ {0}
  /\ f.op = "item" => f.node # NoNode

\* w, p, q: the frames, pre_output and the items that are put off.
Tame(w, p, q) ==
  /\ \A j \in 1..Len(w) :
       /\ TameFrame(Level(w, j))
       /\ Flushing(Level(w, j)) => j = 2 /\ Level(w, 1).op = "end"
       /\ Keeps(Level(w, j)) => Keep(Level(w, j)) \in 0..Len(q)
  /\ \A j, k \in 1..Len(w) :
       j < k /\ Keeps(Level(w, j)) /\ Keeps(Level(w, k)) => Keep(Level(w, j)) <= Keep(Level(w, k))
  /\ w # <<>> /\ w[1].op \notin {"top", "end"} => p \in Nat \ {0}
  /\ \A k \in 1..Len(q) : q[k] # NoNode

\* A step that puts f in the place of the frame t.
TameStep(t, f, q, p2, q2) ==
  LET g == f[Len(f)] IN
  /\ ~Outmost(t)
  /\ \A i \in 1..Len(f) : TameFrame(f[i]) /\ f[i].op \notin {"flush", "top", "end"}
  /\ \A i \in 1..(Len(f) - 1) : ~Flushing(f[i]) /\ ~Keeps(f[i])
  /\ f # <<>> => /\ Flushing(g) => t.op = "flush"
                 /\ Keeps(g) => Keep(g) = IF Keeps(t) THEN Keep(t) ELSE Len(q)
  /\ p2 \in Nat \ {0} \/ (t.op = "flushed" /\ f = <<>>)
  /\ Len(q2) >= Len(q) \/ (f = <<>> /\ (t.op = "flushed" \/ (Keeps(t) /\ Len(q2) = Keep(t))))
  /\ \A k \in 1..Len(q2) : q2[k] # NoNode

LEMMA TameKeeps ==
  ASSUME NEW w, NEW f, NEW v, Splice(w, f, v), Len(w) > 1, v # <<>>,
         NEW p, NEW q, AnySeq(q), NEW p2, NEW q2, AnySeq(q2),
         Tame(w, p, q), TameStep(w[1], f, q, p2, q2)
  PROVE  Tame(v, p2, q2)
<1> DEFINE n == Len(w)
           m == Len(f)
           g == f[m]
           t == w[1]
<1>1. /\ n \in Nat \ {0} /\ m \in Nat /\ Len(v) = n - 1 + m /\ (f = <<>> <=> m = 0)
      /\ Level(w, n) = t /\ n \in 1..n /\ 1 \in 1..(n - 1) /\ AnySeq(v)
      /\ \A j \in 1..(n - 1) : j \in 1..n /\ Level(v, j) = Level(w, j)
      /\ f # <<>> => Level(v, n) = g /\ m \in 1..m
      /\ \A j \in (n + 1)..Len(v) : \E i \in 1..(m - 1) : Level(v, j) = f[i]
  BY DEF Splice
<1>2. Len(q) \in Nat /\ Len(q2) \in Nat /\ Len(v) \in Nat \ {0}
  BY <1>1, SeqFacts
<1>3. ASSUME NEW j \in 1..Len(v)
      PROVE  \/ j \in 1..(n - 1) /\ j \in 1..n /\ Level(v, j) = Level(w, j)
             \/ j = n /\ f # <<>> /\ Level(v, j) = g
             \/ j > n /\ \E i \in 1..(m - 1) : Level(v, j) = f[i]
  <2>1. CASE j < n
    BY <2>1, <1>1
  <2>2. CASE j = n
    BY <2>2, <1>1
  <2>3. CASE j > n
    BY <2>3, <1>1
  <2> QED BY <2>1, <2>2, <2>3, <1>1
<1>4. /\ \A i \in 1..m : TameFrame(f[i]) /\ f[i].op \notin {"flush", "top", "end"}
      /\ \A i \in 1..(m - 1) : ~Flushing(f[i]) /\ ~Keeps(f[i])
      /\ f # <<>> => /\ Flushing(g) => t.op = "flush"
                     /\ Keeps(g) => Keep(g) = IF Keeps(t) THEN Keep(t) ELSE Len(q)
      /\ p2 \in Nat \ {0} \/ (t.op = "flushed" /\ f = <<>>)
      /\ Len(q2) >= Len(q) \/ (f = <<>> /\ (t.op = "flushed" \/ (Keeps(t) /\ Len(q2) = Keep(t))))
      /\ \A k \in 1..Len(q2) : q2[k] # NoNode
  BY DEF TameStep
<1>5. /\ \A j \in 1..n : /\ TameFrame(Level(w, j))
                         /\ Flushing(Level(w, j)) => j = 2 /\ Level(w, 1).op = "end"
                         /\ Keeps(Level(w, j)) => Keep(Level(w, j)) \in 0..Len(q)
      /\ \A j, k \in 1..n :
           j < k /\ Keeps(Level(w, j)) /\ Keeps(Level(w, k)) => Keep(Level(w, j)) <= Keep(Level(w, k))
  BY DEF Tame
<1>6. t.op \in {"flush", "flushed"} => n = 2 /\ Level(w, 1).op = "end"
  BY <1>1, <1>5 DEF Flushing
<1> HIDE DEF n, m, g, t
<1>7. ASSUME NEW j \in 1..Len(v)
      PROVE  /\ TameFrame(Level(v, j))
             /\ Flushing(Level(v, j)) => j = 2 /\ Level(v, 1).op = "end"
  <2>1. CASE j \in 1..(n - 1) /\ j \in 1..n /\ Level(v, j) = Level(w, j)
    BY <2>1, <1>1, <1>5
  <2>2. CASE j = n /\ f # <<>> /\ Level(v, j) = g
    BY <2>2, <1>1, <1>4, <1>6 DEF g
  <2>3. CASE j > n /\ \E i \in 1..(m - 1) : Level(v, j) = f[i]
    <3>1. PICK i \in 1..(m - 1) : Level(v, j) = f[i]
      BY <2>3
    <3>2. i \in 1..m
      BY <1>1
    <3> QED BY <3>1, <3>2, <1>4
  <2> QED BY <2>1, <2>2, <2>3, <1>3
\* What the frames outside keep is there after the step.
<1>8. ASSUME NEW j \in 1..(n - 1), Keeps(Level(w, j))
      PROVE  /\ Keep(Level(w, j)) \in 0..Len(q2)
             /\ f # <<>> /\ Keeps(g) => Keep(Level(w, j)) <= Keep(g)
  <2>1. j \in 1..n /\ j < n /\ Keep(Level(w, j)) \in 0..Len(q)
    BY <1>1, <1>5, <1>8
  <2>2. Keeps(t) => Keep(t) \in 0..Len(q) /\ Keep(Level(w, j)) <= Keep(t)
    BY <1>1, <1>5, <1>8, <2>1
  <2>3. t.op # "flushed"
    <3> SUFFICES ASSUME t.op = "flushed" PROVE FALSE
      OBVIOUS
    <3>1. j = 1 /\ Level(w, 1).op = "end"
      BY <1>6, <2>1
    <3> QED BY <3>1, <1>8 DEF Keeps
  <2> QED BY <1>2, <1>4, <2>1, <2>2, <2>3
<1>9. f # <<>> /\ Keeps(g) => Keep(g) \in 0..Len(q2)
  <2>1. Keeps(t) => Keep(t) \in 0..Len(q)
    BY <1>1, <1>5
  <2> QED BY <1>2, <1>4, <2>1
<1>10. ASSUME NEW j \in 1..Len(v), Keeps(Level(v, j))
       PROVE  \/ j \in 1..(n - 1) /\ Level(v, j) = Level(w, j)
              \/ j = n /\ f # <<>> /\ Level(v, j) = g
  BY <1>3, <1>4, <1>10
<1>11. \A j \in 1..Len(v) : Keeps(Level(v, j)) => Keep(Level(v, j)) \in 0..Len(q2)
  BY <1>8, <1>9, <1>10
<1>12. ASSUME NEW j \in 1..Len(v), NEW k \in 1..Len(v), j < k, Keeps(Level(v, j)), Keeps(Level(v, k))
       PROVE  Keep(Level(v, j)) <= Keep(Level(v, k))
  <2>1. j \in 1..(n - 1) /\ Level(v, j) = Level(w, j)
    <3>1. j # n \/ k # n
      BY <1>12
    <3>2. k <= n
      BY <1>1, <1>10, <1>12
    <3> QED BY <1>1, <1>10, <1>12, <3>2
  <2>2. CASE k \in 1..(n - 1) /\ Level(v, k) = Level(w, k)
    BY <1>1, <1>5, <1>12, <2>1, <2>2
  <2>3. CASE k = n /\ f # <<>> /\ Level(v, k) = g
    BY <1>8, <1>12, <2>1, <2>3
  <2> QED BY <1>10, <1>12, <2>2, <2>3
<1>13. v[1].op \notin {"top", "end"} => p2 \in Nat \ {0}
  <2> SUFFICES ASSUME t.op = "flushed", f = <<>> PROVE v[1].op = "end"
    BY <1>4
  <2>1. n = 2 /\ Len(v) = 1
    BY <1>1, <1>6
  <2>2. Level(v, 1) = v[1]
    BY <2>1 DEF Level
  <2> QED BY <1>1, <1>6, <2>2
<1> QED BY <1>4, <1>7, <1>11, <1>12, <1>13 DEF Tame

\* Nothing below n refers to a rule or is put off.
Quiet(n) == \A m \in Below[n] : Item[m].kind \notin RefKinds \cup {"post"}
Quietly(f) == f.op \notin {"leave", "rule"} /\ (f.op \in {"item", "and"} => Quiet(f.node))

\* While the items that were put off to the end are built.
Calm(w, q) ==
  /\ \A k \in 1..Len(q) : Quiet(q[k])
  /\ \A j \in 3..Len(w) : Level(w, 2).op = "flushed" => Quietly(Level(w, j))

CalmStep(t, f, q2) ==
  /\ \A k \in 1..Len(q2) : Quiet(q2[k])
  /\ Quietly(t) => \A i \in 1..Len(f) : Quietly(f[i])

LEMMA CalmKeeps ==
  ASSUME NEW w, NEW f, NEW v, Splice(w, f, v), Len(w) > 1, NEW q, NEW p2, NEW q2,
         Calm(w, q), TameStep(w[1], f, q, p2, q2), CalmStep(w[1], f, q2)
  PROVE  Calm(v, q2)
<1> DEFINE n == Len(w)
           m == Len(f)
           t == w[1]
<1>1. /\ n \in Nat \ {0} /\ n > 1 /\ m \in Nat /\ Len(v) = n - 1 + m /\ (f = <<>> <=> m = 0)
      /\ Level(w, n) = t
      /\ \A j \in 1..(n - 1) : Level(v, j) = Level(w, j)
      /\ f # <<>> => Level(v, n) = f[m] /\ m \in 1..m
      /\ \A j \in (n + 1)..Len(v) : \E i \in 1..(m - 1) : Level(v, j) = f[i]
  BY DEF Splice
<1>2. \A k \in 1..Len(q2) : Quiet(q2[k])
  BY DEF CalmStep
<1>3. \A j \in 3..n : Level(w, 2).op = "flushed" => Quietly(Level(w, j))
  BY DEF Calm
<1>4. f # <<>> /\ Flushing(f[m]) => t.op = "flush"
  BY DEF TameStep
<1>5. Quietly(t) => \A i \in 1..m : Quietly(f[i])
  BY DEF CalmStep
<1> HIDE DEF n, m, t
<1>6. ASSUME NEW j \in 3..Len(v), Level(v, 2).op = "flushed"
      PROVE  Quietly(Level(v, j))
  <2>1. Quietly(t)
    <3>1. CASE n = 2
      <4>1. f # <<>> /\ Flushing(f[m])
        BY <1>1, <1>6, <3>1 DEF Flushing
      <4> QED BY <1>4, <4>1 DEF Quietly
    <3>2. CASE n > 2
      <4>1. Level(w, 2).op = "flushed" /\ n \in 3..n
        BY <1>1, <1>6, <3>2
      <4> QED BY <1>1, <1>3, <4>1
    <3> QED BY <3>1, <3>2, <1>1
  <2>2. CASE j < n
    <3>1. j \in 3..n /\ Level(w, 2).op = "flushed" /\ Level(v, j) = Level(w, j)
      BY <2>2, <1>1, <1>6
    <3> QED BY <3>1, <1>3
  <2>3. CASE j = n
    <3>1. f # <<>>
      BY <2>3, <1>1
    <3> QED BY <2>1, <2>3, <3>1, <1>1, <1>5
  <2>4. CASE j > n
    <3>1. PICK i \in 1..(m - 1) : Level(v, j) = f[i]
      BY <2>4, <1>1
    <3>2. i \in 1..m
      BY <1>1
    <3> QED BY <2>1, <3>1, <3>2, <1>5
  <2> QED BY <2>2, <2>3, <2>4, <1>1
<1> QED BY <1>2, <1>6 DEF Calm

\* Between and during the steps of a build.
Steady ==
  /\ IInv /\ BuildInv
  /\ Tame(work, ctx.pre, ctx.posts) /\ (PostsAreQuiet => Calm(work, ctx.posts))

Settles(f) ==
  /\ AnySeq(f) /\ work' = f \o Tail(work)
  /\ TameStep(Top, f, ctx.posts, ctx'.pre, ctx'.posts)
  /\ PostsAreQuiet => CalmStep(Top, f, ctx'.posts)

\* The frame on top and what is put off.
LEMMA TopIsTame ==
  ASSUME Steady, work # <<>>
  PROVE  /\ TameFrame(Top) /\ (Keeps(Top) => Keep(Top) \in 0..Len(ctx.posts))
         /\ Flushing(Top) => Len(work) = 2
         /\ Top.op \notin {"top", "end"} => ctx.pre \in Nat \ {0}
         /\ AnySeq(ctx.posts) /\ Len(ctx.posts) \in Nat /\ ctx.posts \in Seq(Used \cup {NoNode})
         /\ \A k \in 1..Len(ctx.posts) : ctx.posts[k] # NoNode
<1>1. Len(work) \in Nat \ {0} /\ Top = work[1] /\ Top = Level(work, Len(work))
  BY Places DEF Steady
<1>2. ctx.posts \in Seq(Used \cup {NoNode})
  BY DEF Steady, BuildInv, CtxTyped
<1>3. AnySeq(ctx.posts) /\ Len(ctx.posts) \in Nat
  <2>1. AnySeq(ctx.posts)
    BY <1>2 DEF AnySeq
  <2> QED BY <2>1, SeqFacts
<1>4. Tame(work, ctx.pre, ctx.posts) /\ Len(work) \in 1..Len(work)
  BY <1>1 DEF Steady
<1> QED BY <1>1, <1>2, <1>3, <1>4 DEF Tame

LEMMA SettledKeeps ==
  ASSUME Steady, IInv', BuildInv', work # <<>>, grammar' = grammar, NEW f, Settles(f)
  PROVE  Steady'
<1>1. AnySeq(work) /\ Len(work) \in Nat \ {0} /\ Top = work[1] /\ Top = Level(work, Len(work))
  BY Places DEF Steady, IInv, StackInv
<1>2. Splice(work, f, work')
  BY <1>1, Spliced DEF Settles
<1>3. Len(work) > 1
  <2>1. ~Outmost(Top)
    BY DEF Settles, TameStep
  <2>2. Outmost(Level(work, 1))
    BY DEF Steady, BuildInv, StackOK, Shape
  <2> QED BY <1>1, <2>1, <2>2
<1>4. work' # <<>>
  <2>1. AnySeq(work') /\ Len(work') = Len(work) - 1 + Len(f) /\ Len(f) \in Nat
    BY <1>2 DEF Splice
  <2> QED BY <1>1, <1>3, <2>1, SeqFacts
<1>5. AnySeq(ctx.posts) /\ AnySeq(ctx'.posts)
  <2>1. ctx'.posts \in Seq(Used' \cup {NoNode})
    BY DEF BuildInv, CtxTyped
  <2>2. AnySeq(ctx'.posts)
    BY <2>1 DEF AnySeq
  <2> QED BY <2>2, TopIsTame
<1>6. PICK p2, q2 : p2 = ctx'.pre /\ q2 = ctx'.posts
  OBVIOUS
<1>7. TameStep(work[1], f, ctx.posts, p2, q2) /\ (PostsAreQuiet => CalmStep(work[1], f, q2))
  BY <1>1, <1>6 DEF Settles
<1>8. Tame(work', p2, q2)
  <2>1. Tame(work, ctx.pre, ctx.posts)
    BY DEF Steady
  <2> QED BY <1>2, <1>3, <1>4, <1>5, <1>6, <1>7, <2>1, TameKeeps
<1>9. PostsAreQuiet => Calm(work', q2)
  <2> SUFFICES ASSUME PostsAreQuiet PROVE Calm(work', q2)
    OBVIOUS
  <2>1. Calm(work, ctx.posts)
    BY DEF Steady
  <2> QED BY <1>2, <1>3, <1>7, <2>1, CalmKeeps
<1>10. PostsAreQuiet' <=> PostsAreQuiet
  BY SameGrammar DEF PostsAreQuiet
<1> QED BY <1>6, <1>8, <1>9, <1>10 DEF Steady

LEMMA QuietKids == ASSUME NEW n \in Nodes, Quiet(n), NEW k \in KidsOf(n) PROVE Quiet(k)
<1>1. Below[k] \subseteq Below[n]
  BY BelowIs
<1> QED BY <1>1 DEF Quiet

\* A frame that calls an item of the one in whose place it is, or ends it.
Mild(t, x) ==
  \/ x.op \in {"end_capture", "end_store", "end_scope", "end_pre"}
  \/ x.op \in {"item", "and"} /\ x.node \in Used /\ (Quietly(t) => Quiet(x.node))

\* The items in the item on top.
LEMMA KidsAreMild ==
  ASSUME Steady, NEW kinds, At(kinds)
  PROVE  /\ \A i \in 1..Len(Kids) : Mild(Top, ItemFrame(Kids[i]))
         /\ Item[Top.node].kind \in Wrappers => Mild(Top, ItemFrame(Kid))
<1>1. /\ Top.op = "item" /\ Top.node \in Nodes /\ Kids \in Seq(Used) /\ Kids = Item[Top.node].kids
      /\ Item[Top.node].kind \in Wrappers => Kid \in Used
  BY AtItem DEF Steady
<1>2. ASSUME NEW i \in 1..Len(Kids)
      PROVE  Mild(Top, ItemFrame(Kids[i]))
  <2>1. Kids[i] \in Used /\ Kids[i] \in KidsOf(Top.node)
    BY <1>1 DEF KidsOf, ToSet
  <2>2. Quietly(Top) => Quiet(Kids[i])
    BY <1>1, <2>1, QuietKids DEF Quietly
  <2> QED BY <2>1, <2>2 DEF Mild, ItemFrame
<1>3. Item[Top.node].kind \in Wrappers => 1 \in 1..Len(Kids)
  <2>1. Item[Top.node].kind \in Wrappers => Len(Kids) = 1
    BY <1>1, GrammarAssumption
  <2> QED BY <2>1
<1> QED BY <1>2, <1>3 DEF Kid

LEMMA AndIsMild ==
  ASSUME grammar \in Grammars, NEW t, NEW n \in Used, Quietly(t) => Quiet(n), NEW i \in Nat \ {0}
  PROVE  AnySeq(AndFrom(n, i)) /\ \A j \in 1..Len(AndFrom(n, i)) : Mild(t, AndFrom(n, i)[j])
<1> DEFINE kids == Item[n].kids
           next == [op |-> "and", node |-> n, next |-> i + 1]
<1>1. kids \in Seq(Used) /\ n \in Nodes
  BY KidIsUsed
<1>2. ASSUME NEW k \in 1..Len(kids)
      PROVE  Mild(t, ItemFrame(kids[k]))
  <2>1. kids[k] \in Used /\ kids[k] \in KidsOf(n)
    BY <1>1 DEF KidsOf, ToSet
  <2>2. Quietly(t) => Quiet(kids[k])
    BY <1>1, <2>1, QuietKids
  <2> QED BY <2>1, <2>2 DEF Mild, ItemFrame
<1>3. Mild(t, next)
  BY DEF Mild
<1>4. AnySeq(AndFrom(n, i))
  BY ItemCalls DEF Calls
<1>5. CASE i > Len(kids)
  BY <1>4, <1>5, NoItems DEF AndFrom
<1>6. CASE i <= Len(kids)
  <2> DEFINE x == ItemFrame(kids[i])
  <2>1. Mild(t, x)
    BY <1>1, <1>2, <1>6
  <2>2. AndFrom(n, i) \in {<<x>>, <<x, next>>}
    BY <1>1, <1>6 DEF AndFrom
  <2> HIDE DEF x, next
  <2>3. /\ Len(<<x>>) = 1 /\ <<x>>[1] = x
        /\ Len(<<x, next>>) = 2 /\ <<x, next>>[1] = x /\ <<x, next>>[2] = next
    OBVIOUS
  <2>4. /\ \A j \in 1..Len(<<x>>) : Mild(t, <<x>>[j])
        /\ \A j \in 1..Len(<<x, next>>) : Mild(t, <<x, next>>[j])
    BY <1>3, <2>1, <2>3
  <2> QED BY <1>4, <2>2, <2>4
<1> QED BY <1>1, <1>5, <1>6

\* A step that puts nothing off and leaves a pre output.
LEMMA PlainSettles ==
  ASSUME Steady, work # <<>>, ~Outmost(Top), NEW f, AnySeq(f), Goto(f),
         \A i \in 1..Len(f) : Mild(Top, f[i]), ctx'.pre \in Nat \ {0}, ctx'.posts = ctx.posts
  PROVE  \E g : Settles(g)
<1>1. Len(f) \in Nat /\ (f = <<>> <=> Len(f) = 0)
  BY SeqFacts
<1>2. NoNode \notin Used
  BY UsedIsClosed DEF Steady, BuildInv, GrammarInv
<1>3. \A x : Mild(Top, x) => TameFrame(x) /\ x.op \notin {"flush", "top", "end"} /\ ~Flushing(x) /\ ~Keeps(x)
  BY <1>2 DEF Mild, TameFrame, Flushing, Keeps
<1>4. \A x : Mild(Top, x) /\ Quietly(Top) => Quietly(x)
  BY DEF Mild, Quietly
<1>5. TameStep(Top, f, ctx.posts, ctx'.pre, ctx'.posts)
  <2>1. Len(ctx.posts) \in Nat /\ \A k \in 1..Len(ctx.posts) : ctx.posts[k] # NoNode
    BY TopIsTame
  <2>2. f # <<>> => ~Flushing(f[Len(f)]) /\ ~Keeps(f[Len(f)])
    BY <1>1, <1>3
  <2>3. \A i \in 1..(Len(f) - 1) : ~Flushing(f[i]) /\ ~Keeps(f[i])
    BY <1>1, <1>3
  <2> QED BY <1>3, <2>1, <2>2, <2>3 DEF TameStep
<1>6. PostsAreQuiet => CalmStep(Top, f, ctx'.posts)
  BY <1>4 DEF Steady, Calm, CalmStep
<1>7. Settles(f)
  BY <1>5, <1>6 DEF Settles, Goto
<1> QED BY <1>7

LEMMA ReturnSettles ==
  ASSUME Steady, work # <<>>, ~Outmost(Top), Return, ctx'.pre \in Nat \ {0}, ctx'.posts = ctx.posts
  PROVE  \E g : Settles(g)
<1>1. AnySeq(<<>>) /\ Goto(<<>>) /\ \A i \in 1..Len(<<>>) : Mild(Top, <<>>[i])
  BY NoItems DEF Return
<1> QED BY <1>1, PlainSettles

LEMMA CallSettles ==
  ASSUME Steady, work # <<>>, ~Outmost(Top), NEW x, Mild(Top, x), Goto(<<x>>),
         ctx'.pre \in Nat \ {0}, ctx'.posts = ctx.posts
  PROVE  \E g : Settles(g)
<1>1. AnySeq(<<x>>) /\ Len(<<x>>) = 1 /\ <<x>>[1] = x
  BY ShortSeq
<1> QED BY <1>1, PlainSettles

LEMMA PairSettles ==
  ASSUME Steady, work # <<>>, ~Outmost(Top), NEW x, Mild(Top, x), NEW y, Mild(Top, y), Goto(<<x, y>>),
         ctx'.pre \in Nat \ {0}, ctx'.posts = ctx.posts
  PROVE  \E g : Settles(g)
<1>1. AnySeq(<<x, y>>) /\ Len(<<x, y>>) = 2 /\ <<x, y>>[1] = x /\ <<x, y>>[2] = y
  BY Pairs
<1>2. \A i \in 1..Len(<<x, y>>) : Mild(Top, <<x, y>>[i])
  BY <1>1
<1> QED BY <1>1, <1>2, PlainSettles

\* The frame on top is not that of the top rule: there is a pre output.
LEMMA Inside ==
  ASSUME Steady, work # <<>>, Top.op \notin {"top", "end", "leave"}
  PROVE  ~Outmost(Top) /\ ctx.pre \in Nat \ {0}
BY TopIsTame DEF Outmost

LEMMA EndsSettle ==
  ASSUME Steady, fault' = fault,
         BuildRaw \/ BuildDraw \/ BuildCaptured \/ BuildId \/ EndStore \/ EndScope \/ BuildScopeAction
  PROVE  \E f : Settles(f)
<1> USE DEF At, AtOp, Fail
<1>1. work # <<>> /\ Top.op \in {"item", "end_store", "end_scope"} /\ fault = "none"
  BY DEF BuildRaw, BuildDraw, BuildCaptured, BuildId, EndStore, EndScope, BuildScopeAction
<1>2. Return /\ ctx' = ctx
  <2>1. CASE BuildRaw \/ BuildDraw \/ BuildCaptured
    BY <1>1, <2>1 DEF BuildRaw, BuildDraw, BuildCaptured
  <2>2. CASE BuildId \/ EndStore
    BY <1>1, <2>2 DEF BuildId, EndStore
  <2>3. CASE EndScope \/ BuildScopeAction
    BY <1>1, <2>3 DEF EndScope, BuildScopeAction
  <2> QED BY <2>1, <2>2, <2>3
<1>3. ~Outmost(Top) /\ ctx'.pre \in Nat \ {0}
  BY <1>1, <1>2, Inside
<1> QED BY <1>1, <1>2, <1>3, ReturnSettles

LEMMA RestoresSettle ==
  ASSUME Steady, EndCapture \/ EndPre \/ (LeaveRule /\ ctx.depth # 0)
  PROVE  \E f : Settles(f)
<1>1. CASE EndCapture
  <2>1. work # <<>> /\ Top.op = "end_capture" /\ Return
    BY <1>1 DEF EndCapture, AtOp
  <2>2. ctx'.pre = ctx.pre /\ ctx'.posts = ctx.posts
    <3>1. PICK c : ctx' = [ctx EXCEPT !.captures = c]
      BY <1>1 DEF EndCapture
    <3> QED BY <3>1 DEF Steady, IInv, Context
  <2> QED BY <2>1, <2>2, Inside, ReturnSettles
<1>2. CASE EndPre
  <2>1. work # <<>> /\ Top.op = "end_pre" /\ Return /\ ctx' = [ctx EXCEPT !.pre = ctx.out, !.out = Top.out]
    BY <1>2 DEF EndPre, AtOp
  <2>2. ctx'.pre = ctx.out /\ ctx'.posts = ctx.posts
    BY <2>1, ContextFields DEF Steady
  <2>3. ctx.out \in Nat \ {0}
    BY <2>1, Places DEF Steady
  <2> QED BY <2>1, <2>2, <2>3, Inside, ReturnSettles
<1>3. CASE LeaveRule /\ ctx.depth # 0
  <2> DEFINE limit == IF Top.undo THEN Top.limit ELSE ctx.limit
             pre == IF Top.own /\ ctx.pre = Len(bufs) THEN Dangling ELSE ctx.pre
  <2>1. /\ work # <<>> /\ Top.op = "leave" /\ Return
        /\ ctx' = [ctx EXCEPT !.limit = limit, !.depth = @ - 1, !.pre = pre]
    BY <1>3 DEF LeaveRule, AtOp
  <2>2. Top.depth = ctx.depth
    BY <2>1, TopIsInmost DEF Steady
  <2>3. ~Outmost(Top) /\ ~Top.own /\ ctx.pre \in Nat \ {0}
    BY <1>3, <2>1, <2>2, TopIsTame DEF Outmost, TameFrame
  <2> HIDE DEF limit, pre
  <2>4. ctx'.pre = pre /\ ctx'.posts = ctx.posts
    BY <2>1 DEF Steady, IInv, Context
  <2> QED BY <2>1, <2>3, <2>4, ReturnSettles DEF pre
<1> QED BY <1>1, <1>2, <1>3

LEMMA AndSettles == ASSUME Steady, BuildAnd \/ NextItem PROVE \E f : Settles(f)
<1>1. PICK n \in Used, i \in Nat \ {0} :
        /\ work # <<>> /\ Top.op \in {"item", "and"} /\ n = Top.node /\ Goto(AndFrom(n, i))
        /\ ctx' = ctx
  <2>1. CASE BuildAnd
    BY <2>1, AtItem DEF BuildAnd, Steady
  <2>2. CASE NextItem
    <3>1. work # <<>> /\ Top.op = "and"
      BY <2>2 DEF NextItem, AtOp
    <3>2. Top.node \in Used /\ Top.next \in Nat \ {0}
      BY <3>1, Places DEF FrameOK, Steady
    <3> QED BY <2>2, <3>1, <3>2 DEF NextItem
  <2> QED BY <2>1, <2>2
<1>2. Quietly(Top) => Quiet(n)
  BY <1>1 DEF Quietly
<1>3. AnySeq(AndFrom(n, i)) /\ \A j \in 1..Len(AndFrom(n, i)) : Mild(Top, AndFrom(n, i)[j])
  BY <1>2, Unmoved, AndIsMild DEF Steady
<1> QED BY <1>1, <1>3, Inside, PlainSettles

LEMMA OptSettles == ASSUME Steady, BuildOpt PROVE \E f : Settles(f)
<1>1. work # <<>> /\ Top.op = "item" /\ ctx' = ctx /\ Mild(Top, ItemFrame(Kid))
  <2>1. At({"opt"}) /\ ctx' = ctx
    BY DEF BuildOpt
  <2>2. Item[Top.node].kind \in Wrappers
    BY <2>1 DEF At, Wrappers
  <2> QED BY <2>1, <2>2, AtItem, KidsAreMild DEF Steady
<1>2. Return \/ Goto(<<ItemFrame(Kid)>>)
  BY DEF BuildOpt
<1> QED BY <1>1, <1>2, Inside, ReturnSettles, CallSettles

LEMMA ChoiceSettles ==
  ASSUME Steady, work # <<>>, Top.op \in {"item", "rule"}, NEW or, BuildChoice(or),
         fault = "none", fault' = fault,
         \A i \in DOMAIN or.items : or.items[i].node # NoNode => Mild(Top, ItemFrame(or.items[i].node))
  PROVE  \E f : Settles(f)
<1>1. ctx' = ctx /\ \E i \in DOMAIN or.items : BuildEntry(or.items[i])
  <2>1. CASE ChoiceList(or) = <<>> \/ \E i \in DOMAIN ChoiceList(or) : ChoiceList(or)[i] \notin DOMAIN or.items
    BY <2>1 DEF BuildChoice, Fail
  <2>2. CASE ~(ChoiceList(or) = <<>> \/ \E i \in DOMAIN ChoiceList(or) : ChoiceList(or)[i] \notin DOMAIN or.items)
    BY <2>2 DEF BuildChoice
  <2> QED BY <2>1, <2>2
<1>2. PICK i \in DOMAIN or.items : Return \/ (or.items[i].node # NoNode /\ Goto(<<ItemFrame(or.items[i].node)>>))
  BY <1>1 DEF BuildEntry
<1> QED BY <1>1, <1>2, Inside, ReturnSettles, CallSettles

LEMMA OrSettles == ASSUME Steady, BuildOr, fault' = fault PROVE \E f : Settles(f)
<1> DEFINE items == [i \in DOMAIN Kids |-> StaticEntry(Kids[i])]
           or == [keep |-> FALSE, items |-> items, choice |-> inline[Top.node].choice,
                  shortest |-> inline[Top.node].shortest]
<1>1. At({"or"}) /\ BuildChoice(or) /\ fault = "none"
  BY DEF BuildOr, At
<1>2. work # <<>> /\ Top.op = "item" /\ Kids \in Seq(Used)
  BY <1>1, AtItem DEF Steady
<1>3. \A i \in 1..Len(Kids) : Mild(Top, ItemFrame(Kids[i]))
  BY <1>1, KidsAreMild
<1>4. \A i \in DOMAIN or.items : Mild(Top, ItemFrame(or.items[i].node))
  BY <1>2, <1>3 DEF StaticEntry
<1> HIDE DEF or
<1> QED BY <1>1, <1>2, <1>4, ChoiceSettles

LEMMA RuleSettles == ASSUME Steady, BuildRule, fault' = fault PROVE \E f : Settles(f)
<1> DEFINE or == scopes[Top.scope][Top.rule]
<1>1. work # <<>> /\ Top.op = "rule" /\ fault = "none" /\ BuildChoice(or)
  BY DEF BuildRule, AtOp
<1>2. RuleThere(Top, scopes)
  <2>1. Len(work) \in 1..Len(work) /\ Top = Level(work, Len(work))
    BY <1>1, Places DEF Steady
  <2> QED BY <1>1, <2>1 DEF Steady, BuildInv, StackOK, RulesOK
<1>3. RuleList(Used, scopes[Top.scope])
  BY <1>2 DEF RuleThere, Steady, BuildInv, GrammarInv, ScopesOK
<1>4. or.items \in Seq(Entry(Used))
  BY <1>2, <1>3 DEF RuleThere, RuleList, RuleOK
<1> HIDE DEF or
<1>5. \A i \in DOMAIN or.items : or.items[i] \in Entry(Used)
  <2> DEFINE E == Entry(Used)
  <2> HIDE DEF E
  <2>1. or.items \in Seq(E)
    BY <1>4 DEF E
  <2>2. \A i \in DOMAIN or.items : or.items[i] \in E
    BY <2>1
  <2> QED BY <2>2 DEF E
<1>6. \A i \in DOMAIN or.items : or.items[i].node # NoNode => Mild(Top, ItemFrame(or.items[i].node))
  BY <1>1, <1>5 DEF Entry, Mild, ItemFrame, Quietly
<1> QED BY <1>1, <1>6, ChoiceSettles

\* Items around another.
LEMMA AroundSettles ==
  ASSUME Steady, fault' = fault, BuildCapture \/ BuildStore \/ BuildScope \/ BuildPre
  PROVE  \E f : Settles(f)
<1>1. PICK y :
        /\ At(Wrappers) /\ y.op \in {"end_capture", "end_store", "end_scope", "end_pre"}
        /\ Goto(<<ItemFrame(Kid), y>>)
        /\ ctx' = ctx \/ ctx' = [ctx EXCEPT !.out = ctx.pre, !.pre = Len(bufs) + 1]
  <2> USE DEF At, Wrappers
  <2>1. CASE BuildCapture
    BY <2>1 DEF BuildCapture
  <2>2. CASE BuildStore
    BY <2>2 DEF BuildStore
  <2>3. CASE BuildScope
    BY <2>3 DEF BuildScope
  <2>4. CASE BuildPre
    BY <2>4 DEF BuildPre, Fail
  <2> QED BY <2>1, <2>2, <2>3, <2>4
<1>2. work # <<>> /\ Top.op = "item" /\ Mild(Top, ItemFrame(Kid)) /\ Mild(Top, y)
  <2>1. Item[Top.node].kind \in Wrappers
    BY <1>1 DEF At
  <2> QED BY <1>1, <2>1, AtItem, KidsAreMild DEF Steady, Mild
<1>3. ctx'.posts = ctx.posts /\ ctx'.pre \in {ctx.pre, Len(bufs) + 1} /\ Len(bufs) + 1 \in Nat \ {0}
  <2>1. Len(bufs) \in Nat
    BY <1>2, Places DEF Steady
  <2>2. ctx' = [ctx EXCEPT !.out = ctx.pre, !.pre = Len(bufs) + 1] =>
          ctx'.posts = ctx.posts /\ ctx'.pre = Len(bufs) + 1
    BY DEF Steady, IInv, Context
  <2> QED BY <1>1, <2>1, <2>2
<1>4. ~Outmost(Top) /\ ctx'.pre \in Nat \ {0}
  BY <1>2, <1>3, Inside
<1> QED BY <1>1, <1>2, <1>3, <1>4, PairSettles

\* The frame of a rule is not quiet, nor is what refers to it.
LEMMA RefSettles == ASSUME Steady, BuildRef, fault' = fault PROVE \E f : Settles(f)
<1>1. At(RefKinds) /\ fault = "none"
  BY DEF BuildRef, At
<1>2. /\ work # <<>> /\ Top.op = "item" /\ Top.node \in Nodes /\ Top.node \in NameNodes
      /\ Item[Top.node].kind \in RefKinds
  BY <1>1, AtItem DEF NameNodes, Steady
<1> DEFINE deeper == [ctx EXCEPT !.depth = @ + 1]
<1>3. PICK i \in RuleIdx :
        IF Having(i) = {}
        THEN IF Item[Top.node].kind = "scoped" \/ Len(scopes) = 1
             THEN Return /\ UNCHANGED <<gramVars, ctx, bufs, randVars, fault>>
             ELSE Fail("no_items")
        ELSE \E s \in Having(i) : Enter(s, i, deeper, rng) \/ Enter(s, i, deeper, AfterNext)
  BY DEF BuildRef
<1>4. CASE Having(i) = {}
  <2>1. Return /\ ctx' = ctx
    BY <1>1, <1>3, <1>4 DEF Fail
  <2> QED BY <1>2, <2>1, Inside, ReturnSettles
<1>5. CASE Having(i) # {}
  <2>1. PICK s \in Having(i), r \in {rng, AfterNext} : Enter(s, i, deeper, r)
    BY <1>3, <1>5
  <2>2. /\ s \in 1..Len(scopes) /\ ValidRule(s, i) /\ i \in Nat /\ r \in States
        /\ ctx.depth \in Nat
    <3>1. DOMAIN scopes = 1..Len(scopes)
      BY SeqFacts DEF Steady, BuildInv, GrammarInv, ScopesOK
    <3> QED BY <1>2, <3>1, Unmoved, RuleIdxIsNat DEF Having, Steady, IInv, Context
  <2> DEFINE d == ctx.depth + 1
  <2>3. d \in Nat /\ deeper = [ctx EXCEPT !.depth = d]
    BY <2>2
  <2> HIDE DEF deeper, d
  <2>4. PICK x, y : EntersWith(x, y, d)
    BY <2>1, <2>2, <2>3, Entered DEF Steady
  <2>5. ~Outmost(Top) /\ ctx.pre \in Nat \ {0}
    BY <1>2, Inside
  <2>6. /\ x.op = "rule" /\ y.op = "leave" /\ ~y.own /\ Goto(<<x, y>>)
        /\ ctx'.pre = ctx.pre /\ ctx'.posts = ctx.posts
    BY <2>4, <2>5 DEF EntersWith, Null
  <2>7. /\ TameFrame(x) /\ ~Flushing(x) /\ ~Keeps(x) /\ TameFrame(y) /\ ~Flushing(y) /\ ~Keeps(y)
    BY <2>6 DEF TameFrame, Flushing, Keeps
  <2>8. AnySeq(<<x, y>>) /\ Len(<<x, y>>) = 2 /\ <<x, y>>[1] = x /\ <<x, y>>[2] = y
    BY Pairs
  <2>9. \A k \in 1..2 : <<x, y>>[k] \in {x, y}
    OBVIOUS
  <2>10. Len(ctx.posts) \in Nat /\ \A k \in 1..Len(ctx.posts) : ctx.posts[k] # NoNode
    BY <1>2, TopIsTame
  <2>11. TameStep(Top, <<x, y>>, ctx.posts, ctx'.pre, ctx'.posts)
    BY <2>5, <2>6, <2>7, <2>8, <2>9, <2>10 DEF TameStep
  <2>12. ~Quietly(Top)
    BY <1>2, BelowIsClosed DEF Quietly, Quiet
  <2>13. PostsAreQuiet => CalmStep(Top, <<x, y>>, ctx'.posts)
    BY <2>6, <2>12 DEF Steady, Calm, CalmStep
  <2>14. Settles(<<x, y>>)
    BY <2>6, <2>8, <2>11, <2>13 DEF Settles, Goto
  <2> QED BY <2>14
<1> QED BY <1>4, <1>5

LEMMA FlushSettles == ASSUME Steady, FlushTop, fault' = fault PROVE \E f : Settles(f)
<1> DEFINE x == [op |-> "flushed"]
           items == ItemFrames(ctx.posts)
           f == items \o <<x>>
<1>1. work # <<>> /\ fault = "none" /\ Top.op = "flush" /\ Goto(f) /\ ctx' = ctx
  BY DEF FlushTop, AtOp, FlushPrePost, Fail
<1>2. /\ Len(ctx.posts) \in Nat /\ DOMAIN ctx.posts = 1..Len(ctx.posts)
      /\ \A k \in 1..Len(ctx.posts) : ctx.posts[k] # NoNode
  BY <1>1, TopIsTame, SeqFacts
<1>3. /\ DOMAIN items = 1..Len(ctx.posts) /\ Len(items) = Len(ctx.posts)
      /\ \A i \in 1..Len(items) : items[i] = ItemFrame(ctx.posts[i])
  <2>1. items = [i \in 1..Len(ctx.posts) |-> ItemFrame(ctx.posts[i])]
    BY <1>2 DEF ItemFrames
  <2> QED BY <1>2, <2>1
<1> DEFINE F == {items[i] : i \in 1..Len(items)} \cup {x}
<1>4. items \in Seq(F) /\ x \in F
  <2>1. items \in [1..Len(ctx.posts) -> F]
    <3>1. items = [i \in 1..Len(ctx.posts) |-> ItemFrame(ctx.posts[i])]
      BY <1>2 DEF ItemFrames
    <3> QED BY <1>3, <3>1
  <2> HIDE DEF items, F
  <2> QED BY <1>2, <2>1, FunctionIsSeq DEF F
<1>5. x.op = "flushed" /\ TameFrame(x) /\ ~Keeps(x) /\ Quietly(x)
  BY DEF TameFrame, Keeps, Quietly
<1>6. \A i \in 1..Len(items) :
        /\ TameFrame(items[i]) /\ ~Keeps(items[i]) /\ ~Flushing(items[i])
        /\ items[i].op = "item" /\ items[i].node = ctx.posts[i]
  <2> SUFFICES ASSUME NEW i \in 1..Len(items)
               PROVE  /\ TameFrame(items[i]) /\ ~Keeps(items[i]) /\ ~Flushing(items[i])
                      /\ items[i].op = "item" /\ items[i].node = ctx.posts[i]
    OBVIOUS
  <2>1. items[i] = ItemFrame(ctx.posts[i]) /\ ctx.posts[i] # NoNode
    BY <1>2, <1>3
  <2> HIDE DEF items
  <2>2. items[i].op = "item" /\ items[i].node = ctx.posts[i]
    BY <2>1 DEF ItemFrame
  <2> QED BY <2>1, <2>2 DEF TameFrame, Keeps, Flushing
<1> HIDE DEF items, x, F
<1>7. /\ AnySeq(f) /\ Len(f) = Len(items) + 1 /\ Len(f) - 1 = Len(items) /\ f[Len(f)] = x /\ f # <<>>
      /\ \A i \in 1..Len(items) : f[i] = items[i]
      /\ \A i \in 1..Len(f) : i \in 1..Len(items) \/ f[i] = x
  <2>1. f \in Seq(F) /\ Len(f) = Len(items) + 1 /\ f[Len(f)] = x /\ f # <<>>
        /\ Len(items) \in Nat /\ \A i \in 1..Len(items) : f[i] = items[i]
    BY <1>4
  <2> HIDE DEF f
  <2>2. AnySeq(f)
    BY <2>1 DEF AnySeq
  <2> QED BY <2>1, <2>2
<1> HIDE DEF f
<1>8. ~Outmost(Top) /\ ctx.pre \in Nat \ {0}
  BY <1>1, Inside
<1>9. \A i \in 1..Len(f) : TameFrame(f[i]) /\ f[i].op \notin {"flush", "top", "end"}
  BY <1>5, <1>6, <1>7 DEF Flushing
<1>10. TameStep(Top, f, ctx.posts, ctx'.pre, ctx'.posts)
  BY <1>1, <1>2, <1>5, <1>6, <1>7, <1>8, <1>9 DEF TameStep
<1>11. PostsAreQuiet => CalmStep(Top, f, ctx'.posts)
  <2> SUFFICES ASSUME PostsAreQuiet PROVE CalmStep(Top, f, ctx'.posts)
    OBVIOUS
  <2>1. \A k \in 1..Len(ctx.posts) : Quiet(ctx.posts[k])
    BY DEF Steady, Calm
  <2>2. \A i \in 1..Len(items) : Quietly(items[i])
    BY <1>3, <1>6, <2>1 DEF Quietly
  <2>3. \A i \in 1..Len(f) : Quietly(f[i])
    BY <1>5, <1>7, <2>2
  <2> QED BY <1>1, <2>1, <2>3 DEF CalmStep
<1>12. Settles(f)
  BY <1>1, <1>7, <1>10, <1>11 DEF Settles, Goto
<1> QED BY <1>12

LEMMA FlushedSettles == ASSUME Steady, FlushedPrePost PROVE \E f : Settles(f)
<1>1. /\ work # <<>> /\ Top.op = "flushed" /\ Return /\ ctx' = [ctx EXCEPT !.posts = <<>>, !.pre = Null]
  BY DEF FlushedPrePost, AtOp
<1>2. ctx'.posts = <<>> /\ Len(<<>>) = 0 /\ AnySeq(<<>>)
  BY <1>1, NoItems, ContextFields DEF Steady
<1>3. TameStep(Top, <<>>, ctx.posts, ctx'.pre, ctx'.posts)
  BY <1>1, <1>2 DEF TameStep, Outmost
<1>4. CalmStep(Top, <<>>, ctx'.posts)
  BY <1>2 DEF CalmStep
<1>5. Settles(<<>>)
  BY <1>1, <1>2, <1>3, <1>4 DEF Settles, Return, Goto
<1> QED BY <1>5

LEMMA PostSettles == ASSUME Steady, BuildPost, fault' = fault PROVE \E f : Settles(f)
<1>1. At({"post"}) /\ fault = "none"
  BY DEF BuildPost, At
<1>2. /\ work # <<>> /\ Top.op = "item" /\ Kid \in Used /\ Top.node \in Used /\ Item[Top.node].kind = "post"
  BY <1>1, AtItem DEF Wrappers, Steady
<1> DEFINE q == Append(ctx.posts, Kid)
<1>3. ctx' = [ctx EXCEPT !.posts = q] /\ Return
  BY <1>1 DEF BuildPost, Fail
<1>4. /\ Len(q) = Len(ctx.posts) + 1 /\ Len(ctx.posts) \in Nat
      /\ \A k \in 1..Len(q) : (k \in 1..Len(ctx.posts) /\ q[k] = ctx.posts[k]) \/ q[k] = Kid
  <2> DEFINE T == Used \cup {NoNode}
  <2>1. ctx.posts \in Seq(T) /\ Kid \in T
    BY <1>2, TopIsTame
  <2> HIDE DEF T
  <2> QED BY <2>1
<1> HIDE DEF q
<1>5. ctx'.posts = q /\ ctx'.pre = ctx.pre
  BY <1>3, ContextFields DEF Steady
<1>6. Kid # NoNode /\ \A k \in 1..Len(ctx.posts) : ctx.posts[k] # NoNode
  BY <1>2, TopIsTame, UsedIsClosed DEF Steady, BuildInv, GrammarInv
<1>7. ~Outmost(Top) /\ ctx.pre \in Nat \ {0} /\ Len(<<>>) = 0 /\ AnySeq(<<>>)
  BY <1>2, Inside, NoItems
<1>8. TameStep(Top, <<>>, ctx.posts, ctx'.pre, ctx'.posts)
  BY <1>4, <1>5, <1>6, <1>7 DEF TameStep
<1>9. PostsAreQuiet => CalmStep(Top, <<>>, ctx'.posts)
  <2> SUFFICES ASSUME PostsAreQuiet PROVE CalmStep(Top, <<>>, ctx'.posts)
    OBVIOUS
  <2>1. Quiet(Kid)
    BY <1>2 DEF PostsAreQuiet, Quiet, Kid, Kids
  <2>2. \A k \in 1..Len(ctx.posts) : Quiet(ctx.posts[k])
    BY DEF Steady, Calm
  <2> QED BY <1>4, <1>5, <1>7, <2>1, <2>2 DEF CalmStep
<1>10. Settles(<<>>)
  BY <1>3, <1>7, <1>8, <1>9 DEF Settles, Return, Goto
<1> QED BY <1>10

\* A pre output of its own, and a mark of what was put off before.
LEMMA BuildFlushedSettles == ASSUME Steady, BuildFlushed PROVE \E f : Settles(f)
<1> DEFINE x == ItemFrame(Kid)
           y == [op |-> "end_flushed", out |-> ctx.out, pre |-> ctx.pre, posts |-> Len(ctx.posts)]
<1>1. /\ At({"flushed"}) /\ Goto(<<x, y>>)
      /\ ctx' = [ctx EXCEPT !.pre = Len(bufs) + 1, !.out = Len(bufs) + 2]
  BY DEF BuildFlushed
<1>2. work # <<>> /\ Top.op = "item" /\ Mild(Top, x) /\ Kid \in Used
  <2>1. Item[Top.node].kind \in Wrappers
    BY <1>1 DEF At, Wrappers
  <2> QED BY <1>1, <2>1, AtItem, KidsAreMild DEF Steady
<1>3. ~Outmost(Top) /\ ctx.pre \in Nat \ {0}
  BY <1>2, Inside
<1>4. ctx'.pre = Len(bufs) + 1 /\ ctx'.posts = ctx.posts
  BY <1>1 DEF Steady, IInv, Context
<1>5. Len(bufs) + 1 \in Nat \ {0}
  BY <1>2, Places DEF Steady
<1>6. TameFrame(x) /\ x.op = "item" /\ ~Keeps(x) /\ ~Flushing(x)
  <2>1. Kid # NoNode
    BY <1>2, UsedIsClosed DEF Steady, BuildInv, GrammarInv
  <2> QED BY <2>1 DEF ItemFrame, TameFrame, Keeps, Flushing
<1>7. /\ TameFrame(y) /\ y.op = "end_flushed" /\ Keep(y) = Len(ctx.posts) /\ ~Flushing(y)
      /\ Quietly(y) /\ ~Keeps(Top)
  BY <1>2, <1>3 DEF TameFrame, Keep, Keeps, Flushing, Quietly
<1>8. Quietly(Top) => Quietly(x)
  BY <1>2, <1>6 DEF Mild, Quietly
<1> HIDE DEF x, y
<1>9. AnySeq(<<x, y>>) /\ Len(<<x, y>>) = 2 /\ <<x, y>>[1] = x /\ <<x, y>>[2] = y
  BY Pairs
<1>10. \A k \in 1..2 : <<x, y>>[k] \in {x, y}
  OBVIOUS
<1>11. Len(ctx.posts) \in Nat /\ \A k \in 1..Len(ctx.posts) : ctx.posts[k] # NoNode
  BY <1>2, TopIsTame
<1>12. TameStep(Top, <<x, y>>, ctx.posts, ctx'.pre, ctx'.posts)
  BY <1>3, <1>4, <1>5, <1>6, <1>7, <1>9, <1>10, <1>11 DEF TameStep
<1>13. PostsAreQuiet => CalmStep(Top, <<x, y>>, ctx'.posts)
  BY <1>4, <1>7, <1>8, <1>9, <1>10 DEF Steady, Calm, CalmStep
<1>14. Settles(<<x, y>>)
  BY <1>1, <1>9, <1>12, <1>13 DEF Settles, Goto
<1> QED BY <1>14

LEMMA EndFlushedSettles == ASSUME Steady, EndFlushed PROVE \E f : Settles(f)
<1> DEFINE x == [op |-> "posts", next |-> Top.posts + 1, keep |-> Top.posts]
<1>1. /\ work # <<>> /\ Top.op = "end_flushed" /\ Goto(<<x>>)
      /\ ctx' = [ctx EXCEPT !.pre = Top.pre, !.out = Top.out]
  BY DEF EndFlushed, AtOp
<1>2. ctx'.pre = Top.pre /\ ctx'.posts = ctx.posts
  BY <1>1, ContextFields DEF Steady
<1>3. ~Outmost(Top) /\ Top.pre \in Nat \ {0} /\ Keeps(Top) /\ Keep(Top) = Top.posts
  BY <1>1, TopIsTame DEF TameFrame, Outmost, Keeps, Keep
<1>4. TameFrame(x) /\ x.op = "posts" /\ Keep(x) = Top.posts /\ ~Flushing(x) /\ Quietly(x)
  BY DEF TameFrame, Keep, Flushing, Quietly
<1> HIDE DEF x
<1>5. AnySeq(<<x>>) /\ Len(<<x>>) = 1 /\ <<x>>[1] = x
  BY ShortSeq
<1>6. Len(ctx.posts) \in Nat /\ \A k \in 1..Len(ctx.posts) : ctx.posts[k] # NoNode
  BY <1>1, TopIsTame
<1>7. TameStep(Top, <<x>>, ctx.posts, ctx'.pre, ctx'.posts)
  BY <1>2, <1>3, <1>4, <1>5, <1>6 DEF TameStep
<1>8. PostsAreQuiet => CalmStep(Top, <<x>>, ctx'.posts)
  BY <1>2, <1>4, <1>5 DEF Steady, Calm, CalmStep
<1>9. Settles(<<x>>)
  BY <1>1, <1>5, <1>7, <1>8 DEF Settles, Goto
<1> QED BY <1>9

\* One more of the items that were put off; after the last there are as many as before.
LEMMA NextPostSettles == ASSUME Steady, NextPost PROVE \E f : Settles(f)
<1> DEFINE n == ctx.posts[Top.next]
           x == ItemFrame(n)
           y == [op |-> "posts", next |-> Top.next + 1, keep |-> Top.keep]
           kept == [i \in 1..Top.keep |-> IF i <= Len(ctx.posts) THEN ctx.posts[i] ELSE NoNode]
<1>1. work # <<>> /\ Top.op = "posts"
  BY DEF NextPost, AtOp
<1>2. /\ ~Outmost(Top) /\ ctx.pre \in Nat \ {0} /\ Keeps(Top) /\ Keep(Top) = Top.keep
      /\ Top.next \in Nat \ {0} /\ Top.keep \in 0..Len(ctx.posts)
      /\ Len(ctx.posts) \in Nat /\ \A k \in 1..Len(ctx.posts) : ctx.posts[k] # NoNode
  <2>1. Top.next \in Nat \ {0}
    BY <1>1, Places DEF FrameOK, Steady
  <2>2. Keeps(Top) /\ Keep(Top) = Top.keep
    BY <1>1 DEF Keeps, Keep
  <2> QED BY <1>1, <2>1, <2>2, Inside, TopIsTame
<1>3. CASE Top.next <= Len(ctx.posts)
  <2>1. Goto(<<x, y>>) /\ ctx' = ctx
    BY <1>3 DEF NextPost
  <2>2. n # NoNode /\ (PostsAreQuiet => Quiet(n))
    BY <1>2, <1>3 DEF Steady, Calm
  <2>3. TameFrame(x) /\ x.op = "item" /\ x.node = n /\ ~Keeps(x) /\ ~Flushing(x)
    BY <2>2 DEF ItemFrame, TameFrame, Keeps, Flushing
  <2>4. TameFrame(y) /\ y.op = "posts" /\ Keep(y) = Top.keep /\ ~Flushing(y) /\ Quietly(y)
    BY DEF TameFrame, Keep, Flushing, Quietly
  <2>5. PostsAreQuiet => Quietly(x)
    BY <2>2, <2>3 DEF Quietly
  <2> HIDE DEF x, y
  <2>6. AnySeq(<<x, y>>) /\ Len(<<x, y>>) = 2 /\ <<x, y>>[1] = x /\ <<x, y>>[2] = y
    BY Pairs
  <2>7. \A k \in 1..2 : <<x, y>>[k] \in {x, y}
    OBVIOUS
  <2>8. TameStep(Top, <<x, y>>, ctx.posts, ctx'.pre, ctx'.posts)
    BY <1>2, <2>1, <2>3, <2>4, <2>6, <2>7 DEF TameStep
  <2>9. PostsAreQuiet => CalmStep(Top, <<x, y>>, ctx'.posts)
    BY <2>1, <2>4, <2>5, <2>6, <2>7 DEF Steady, Calm, CalmStep
  <2>10. Settles(<<x, y>>)
    BY <2>1, <2>6, <2>8, <2>9 DEF Settles, Goto
  <2> QED BY <2>10
<1>4. CASE ~(Top.next <= Len(ctx.posts))
  <2>1. ctx' = [ctx EXCEPT !.posts = kept] /\ Return
    BY <1>4 DEF NextPost
  <2>2. Len(kept) = Top.keep /\ \A k \in 1..Len(kept) : k \in 1..Len(ctx.posts) /\ kept[k] = ctx.posts[k]
    BY <1>2
  <2> HIDE DEF kept
  <2>3. ctx'.posts = kept /\ ctx'.pre = ctx.pre
    BY <2>1, ContextFields DEF Steady
  <2>4. Len(<<>>) = 0 /\ AnySeq(<<>>)
    BY NoItems
  <2>5. TameStep(Top, <<>>, ctx.posts, ctx'.pre, ctx'.posts)
    BY <1>2, <2>2, <2>3, <2>4 DEF TameStep
  <2>6. PostsAreQuiet => CalmStep(Top, <<>>, ctx'.posts)
    BY <2>2, <2>3, <2>4 DEF Steady, Calm, CalmStep
  <2>7. Settles(<<>>)
    BY <2>1, <2>4, <2>5, <2>6 DEF Settles, Return, Goto
  <2> QED BY <2>7
<1> QED BY <1>3, <1>4

-----------------------------------------------------------------------------
(* The steps of the top rule.                                              *)

LEMMA RestIsTame ==
  ASSUME NEW w, w = <<>> \/ w = <<[op |-> "top"]>>, NEW p
  PROVE  Tame(w, p, <<>>) /\ Calm(w, <<>>)
<1>1. Len(<<>>) = 0
  BY NoItems
<1> DEFINE none == <<>>
<1>2. none = <<>> /\ Len(none) = 0
  BY <1>1
<1> HIDE DEF none
<1>3. CASE w = none
  BY <1>2, <1>3 DEF Tame, Calm
<1>4. CASE w = <<[op |-> "top"]>>
  <2> DEFINE x == [op |-> "top"]
  <2>1. TameFrame(x) /\ ~Flushing(x) /\ ~Keeps(x) /\ x.op = "top"
    BY DEF TameFrame, Flushing, Keeps
  <2> HIDE DEF x
  <2>2. w = <<x>>
    BY <1>4 DEF x
  <2>3. Len(w) = 1 /\ w[1] = x /\ Level(w, 1) = x
    BY <2>2 DEF Level
  <2> QED BY <1>2, <2>1, <2>3 DEF Tame, Calm
<1> QED BY <1>2, <1>3, <1>4

LEMMA RestIsSteady == ASSUME IInv, BuildInv, work = <<>> \/ work = <<[op |-> "top"]>> PROVE Steady
<1>1. ctx.posts = <<>>
  <2>1. work = <<[op |-> "top"]>> => Top.op = "top"
    BY DEF Top
  <2> QED BY <2>1 DEF BuildInv, ChainInv, Idle
<1>2. PICK p : p = ctx.pre
  OBVIOUS
<1> QED BY <1>1, <1>2, RestIsTame DEF Steady

LEMMA TwoAreTame ==
  ASSUME NEW x, NEW y, TameFrame(x), ~Keeps(x), Flushing(x) => y.op = "end",
         TameFrame(y), ~Keeps(y), ~Flushing(y),
         NEW p \in Nat \ {0}, NEW q, \A k \in 1..Len(q) : q[k] # NoNode
  PROVE  /\ Tame(<<x, y>>, p, q)
         /\ (\A k \in 1..Len(q) : Quiet(q[k])) => Calm(<<x, y>>, q)
<1> DEFINE w == <<x, y>>
<1>1. Len(w) = 2 /\ w[1] = x /\ w[2] = y
  BY Pairs
<1> HIDE DEF w
<1>2. Level(w, 1) = y /\ Level(w, 2) = x
  BY <1>1 DEF Level
<1>3. \A j \in 1..2 : (j = 1 /\ Level(w, j) = y) \/ (j = 2 /\ Level(w, j) = x)
  BY <1>2
<1>4. Tame(w, p, q)
  BY <1>1, <1>2, <1>3 DEF Tame
<1>5. (\A k \in 1..Len(q) : Quiet(q[k])) => Calm(w, q)
  BY <1>1 DEF Calm
<1> QED BY <1>4, <1>5 DEF w

\* The top rule is entered, left and ended.
LEMMA TopIsSteady ==
  ASSUME Steady, IInv', BuildInv', grammar' = grammar, BuildTop \/ (LeaveRule /\ ctx.depth = 0) \/ EndTop
  PROVE  Steady'
<1>1. CASE BuildTop
  <2>1. work # <<>> /\ Top.op = "top"
    BY <1>1 DEF BuildTop, AtOp
  <2>2. /\ \A f : AnySeq(f) /\ Goto(f) => work' = f
        /\ Len(work) = 1 /\ bufs \in Seq(Texts) /\ Len(bufs) \in Nat \ {0}
    BY <2>1, Alone DEF Outmost, Steady
  <2>3. ctx.pre = Null /\ ctx.posts = <<>> /\ Len(ctx.posts) = 0
    BY <2>1, NoItems DEF Steady, BuildInv, ChainInv, Idle
  <2>4. CASE ValidRule(1, 1)
    <3>1. Enter(1, 1, ctx, rng)
      BY <1>1, <2>4 DEF BuildTop
    <3>2. ctx.depth = 0 /\ ctx = [ctx EXCEPT !.depth = 0] /\ 1 \in 1..Len(scopes) /\ rng \in States
      <4>1. ctx.depth = 0
        <5>1. 1 \in 1..Len(work) /\ work[1].op = "top"
          BY <2>1, <2>2, Places DEF Steady
        <5> QED BY <5>1 DEF Steady, IInv, TakenInv
      <4>2. ctx = [ctx EXCEPT !.depth = 0]
        BY <4>1 DEF Steady, IInv, Context
      <4>3. 1 \in 1..Len(scopes)
        BY SeqFacts DEF Steady, BuildInv, GrammarInv, ScopesOK
      <4> QED BY <4>1, <4>2, <4>3, Unmoved DEF Steady
    <3>3. PICK d, x, y : d = 0 /\ EntersWith(x, y, d)
      <4>1. PICK i, d, c : i = 1 /\ d = 0 /\ c = ctx
        OBVIOUS
      <4>2. /\ i \in Nat /\ d \in Nat /\ c = [ctx EXCEPT !.depth = d] /\ ValidRule(i, i)
            /\ i \in 1..Len(scopes) /\ Enter(i, i, c, rng) /\ rng \in States
        BY <2>4, <3>1, <3>2, <4>1
      <4>3. \E x, y : EntersWith(x, y, d)
        BY <4>2, Entered DEF Steady
      <4> QED BY <4>1, <4>3
    <3>4. /\ x.op = "rule" /\ y.op = "leave" /\ y.depth = 0 /\ Goto(<<x, y>>)
          /\ ctx'.pre = Len(bufs) + 1 /\ ctx'.posts = ctx.posts
      BY <2>3, <3>3 DEF EntersWith
    <3>5. work' = <<x, y>>
      BY <2>2, <3>4, Pairs
    <3>6. /\ TameFrame(x) /\ ~Keeps(x) /\ ~Flushing(x) /\ TameFrame(y) /\ ~Keeps(y) /\ ~Flushing(y)
      BY <3>4 DEF TameFrame, Keeps, Flushing
    <3>7. PICK p, q : p = Len(bufs) + 1 /\ q = ctx.posts
      OBVIOUS
    <3>8. p \in Nat \ {0} /\ Len(q) = 0
      BY <2>2, <2>3, <3>7
    <3>9. Tame(<<x, y>>, p, q) /\ Calm(<<x, y>>, q)
      BY <3>6, <3>8, TwoAreTame
    <3> QED BY <3>4, <3>5, <3>7, <3>9 DEF Steady
  <2>5. CASE ~ValidRule(1, 1)
    <3>1. work' = <<>> /\ ctx' = ctx
      BY <1>1, <2>2, <2>5, NoItems DEF BuildTop, Return
    <3>2. PICK w, p : w = work' /\ p = ctx.pre
      OBVIOUS
    <3>3. Tame(w, p, <<>>) /\ Calm(w, <<>>)
      BY <3>1, <3>2, RestIsTame
    <3> QED BY <2>3, <3>1, <3>2, <3>3 DEF Steady
  <2> QED BY <2>4, <2>5
<1>2. CASE LeaveRule /\ ctx.depth = 0
  <2> DEFINE x == [op |-> "flush"]
             y == [op |-> "end"]
             limit == IF Top.undo THEN Top.limit ELSE ctx.limit
  <2>1. /\ work # <<>> /\ Top.op = "leave" /\ Goto(<<x, y>>) /\ ctx' = [ctx EXCEPT !.limit = limit]
    BY <1>2 DEF LeaveRule, AtOp
  <2>2. Outmost(Top)
    BY <1>2, <2>1, TopIsInmost DEF Outmost, Steady
  <2>3. /\ TameFrame(x) /\ ~Keeps(x) /\ TameFrame(y) /\ ~Keeps(y) /\ ~Flushing(y) /\ y.op = "end"
    BY DEF TameFrame, Keeps, Flushing
  <2> HIDE DEF x, y, limit
  <2>4. work' = <<x, y>>
    BY <2>1, <2>2, Alone, Pairs DEF Steady
  <2>5. ctx'.pre = ctx.pre /\ ctx'.posts = ctx.posts
    BY <2>1, ContextFields DEF Steady
  <2>6. PICK p, q : p = ctx.pre /\ q = ctx.posts
    OBVIOUS
  <2>7. p \in Nat \ {0} /\ \A k \in 1..Len(q) : q[k] # NoNode
    BY <2>1, <2>6, TopIsTame
  <2>8. Tame(<<x, y>>, p, q) /\ ((\A k \in 1..Len(q) : Quiet(q[k])) => Calm(<<x, y>>, q))
    BY <2>3, <2>7, TwoAreTame
  <2>9. PostsAreQuiet => \A k \in 1..Len(q) : Quiet(q[k])
    BY <2>6 DEF Steady, Calm
  <2>10. PostsAreQuiet' <=> PostsAreQuiet
    BY SameGrammar DEF PostsAreQuiet
  <2> QED BY <2>4, <2>5, <2>6, <2>8, <2>9, <2>10 DEF Steady
<1>3. CASE EndTop
  <2>1. work # <<>> /\ Top.op = "end" /\ Return
    BY <1>3 DEF EndTop, AtOp
  <2>2. work' = <<>>
    BY <2>1, Alone, NoItems DEF Outmost, Return, Steady
  <2>3. ctx'.posts = <<>>
    BY <2>2 DEF BuildInv, ChainInv, Idle
  <2>4. PICK w, p : w = work' /\ p = ctx'.pre
    OBVIOUS
  <2>5. Tame(w, p, <<>>) /\ Calm(w, <<>>)
    BY <2>2, <2>4, RestIsTame
  <2> QED BY <2>3, <2>4, <2>5 DEF Steady
<1> QED BY <1>1, <1>2, <1>3

LEMMA StepIsSteady ==
  ASSUME Steady, IInv', BuildInv', ~Uses({"flush"}), BuildStep, fault' = fault, grammar' = grammar
  PROVE  Steady'
<1>1. work # <<>>
  BY StepsOrFails
<1>2. CASE BuildTop \/ (LeaveRule /\ ctx.depth = 0) \/ EndTop
  BY <1>2, TopIsSteady
<1>3. ~BuildNullItem
  BY DEF BuildNullItem, AtOp, Fail
<1>4. ~BuildFlush
  <2> SUFFICES ASSUME At({"flush"}) PROVE FALSE
    BY DEF BuildFlush
  <2>1. Item[Top.node].kind \in {"flush"} /\ Top.node \in Used
    BY AtItem DEF Steady
  <2> QED BY <2>1 DEF Uses
<1>5. CASE ~(BuildTop \/ (LeaveRule /\ ctx.depth = 0) \/ EndTop)
  <2>1. \E f : Settles(f)
    <3>1. CASE BuildRaw \/ BuildDraw \/ BuildCaptured \/ BuildId \/ EndStore \/ EndScope \/ BuildScopeAction
      BY <3>1, EndsSettle
    <3>2. CASE EndCapture \/ EndPre \/ (LeaveRule /\ ctx.depth # 0)
      BY <3>2, RestoresSettle
    <3>3. CASE BuildAnd \/ NextItem \/ BuildOpt \/ BuildOr \/ BuildRule
      BY <3>3, AndSettles, OptSettles, OrSettles, RuleSettles
    <3>4. CASE BuildCapture \/ BuildStore \/ BuildScope \/ BuildPre
      BY <3>4, AroundSettles
    <3>5. CASE BuildRef \/ FlushTop \/ FlushedPrePost \/ BuildPost
      BY <3>5, RefSettles, FlushSettles, FlushedSettles, PostSettles
    <3>6. CASE BuildFlushed \/ EndFlushed \/ NextPost
      BY <3>6, BuildFlushedSettles, EndFlushedSettles, NextPostSettles
    <3> QED BY <1>3, <1>4, <1>5, <3>1, <3>2, <3>3, <3>4, <3>5, <3>6 DEF BuildStep
  <2> QED BY <1>1, <2>1, SettledKeeps
<1> QED BY <1>2, <1>5

-----------------------------------------------------------------------------
(* The steps that fail.                                                    *)

\* What each of them found.
LEMMA Failures ==
  ASSUME BuildStep, fault' # fault
  PROVE  \/ /\ fault' = "pre_output" /\ ctx.pre \in {Null, Dangling}
            /\ AtOp("flush") \/ At({"flush"}) \/ At({"pre"})
         \/ /\ fault' = "post_items"
            /\ \/ At({"post"}) /\ \E i \in DOMAIN work : work[i].op = "flushed"
               \/ AtOp("item") /\ Top.node = NoNode
         \/ /\ fault' = "no_scope"
            /\ \/ AtOp("end_scope") /\ (Len(scopes) <= Top.outer \/ Len(work) \in gone)
               \/ At({"pop"})
         \/ fault' = "no_capture" /\ At({"captured"})
         \/ fault' = "no_index" /\ 0 \in RuleIdx /\ (At({"id"}) \/ AtOp("end_store"))
         \/ fault' = "no_items"
<1>1. CASE BuildRaw \/ BuildDraw \/ BuildAnd \/ NextItem \/ BuildOpt
  BY <1>1 DEF BuildRaw, BuildDraw, BuildAnd, NextItem, BuildOpt
<1>2. CASE BuildOr \/ BuildRule
  <2>1. \E or : BuildChoice(or)
    BY <1>2 DEF BuildOr, BuildRule
  <2> QED BY <2>1 DEF BuildChoice, Fail
<1>3. CASE BuildTop \/ BuildRef
  BY <1>3 DEF BuildTop, BuildRef, Enter, Fail
<1>4. CASE LeaveRule \/ FlushedPrePost \/ EndTop
  BY <1>4 DEF LeaveRule, FlushedPrePost, EndTop
<1>5. CASE FlushTop \/ BuildFlush \/ BuildPre
  BY <1>5 DEF FlushTop, BuildFlush, BuildPre, FlushPrePost, Fail
<1>6. CASE EndPre \/ BuildFlushed \/ EndFlushed \/ NextPost \/ BuildCapture \/ EndCapture
  BY <1>6 DEF EndPre, BuildFlushed, EndFlushed, NextPost, BuildCapture, EndCapture
<1>7. CASE BuildPost \/ BuildNullItem \/ BuildCaptured
  BY <1>7 DEF BuildPost, BuildNullItem, BuildCaptured, Fail
<1>8. CASE BuildId \/ BuildStore \/ EndStore
  BY <1>8 DEF BuildId, BuildStore, EndStore, Fail
<1>9. CASE BuildScope \/ EndScope
  BY <1>9 DEF BuildScope, EndScope, Fail
<1>10. CASE BuildScopeAction
  <2>1. At({"push", "pop"}) /\ Item[Top.node].kind = "pop" /\ fault' = "no_scope"
    BY <1>10 DEF BuildScopeAction, Fail
  <2> QED BY <2>1 DEF At
<1> QED BY <1>1, <1>2, <1>3, <1>4, <1>5, <1>6, <1>7, <1>8, <1>9, <1>10 DEF BuildStep

\* An item on top that the grammar uses.
LEMMA ItemIsUsed == ASSUME IInv, BuildInv, NEW kind, At({kind}) PROVE Uses({kind})
BY AtItem DEF Uses

LEMMA PreOutputIsThere ==
  ASSUME Steady, AtOp("flush") \/ At({"pre"})
  PROVE  ctx.pre \notin {Null, Dangling}
<1>1. work # <<>> /\ Top.op \in {"flush", "item"}
  BY DEF At, AtOp
<1> QED BY <1>1, Inside DEF Null, Dangling

LEMMA PostsAreThere ==
  ASSUME Steady, \/ At({"post"}) /\ \E i \in DOMAIN work : work[i].op = "flushed"
                 \/ AtOp("item") /\ Top.node = NoNode
  PROVE  ~PostsAreQuiet
<1>1. work # <<>> /\ Top.op = "item"
  BY DEF At, AtOp
<1>2. Top.node # NoNode
  BY <1>1, TopIsTame DEF TameFrame
<1>3. At({"post"}) /\ \E i \in DOMAIN work : work[i].op = "flushed"
  BY <1>2 DEF At, AtOp
<1>4. /\ Len(work) \in Nat \ {0} /\ DOMAIN work = 1..Len(work) /\ Top = Level(work, Len(work))
  BY <1>1, Places, SeqFacts DEF Steady, IInv, StackInv
<1>5. PICK j \in 1..Len(work) : Level(work, j).op = "flushed"
  <2>1. PICK i \in 1..Len(work) : work[i].op = "flushed"
    BY <1>3, <1>4
  <2> DEFINE k == Len(work) + 1 - i
  <2>2. k \in 1..Len(work) /\ Len(work) + 1 - k = i
    BY <1>4
  <2>3. Level(work, k).op = "flushed"
    BY <2>1, <2>2 DEF Level
  <2> QED BY <2>2, <2>3
<1>6. j = 2 /\ Level(work, 1).op = "end"
  BY <1>5 DEF Steady, Tame, Flushing
<1>7. Len(work) \in 3..Len(work)
  <2>1. Len(work) # 1 /\ Len(work) # 2
    BY <1>1, <1>4, <1>5, <1>6
  <2> QED BY <1>4, <2>1
<1>8. ~Quietly(Top)
  <2>1. Item[Top.node].kind = "post" /\ Top.node \in Below[Top.node]
    BY <1>3, AtItem, BelowIsClosed DEF Steady
  <2> QED BY <1>1, <2>1 DEF Quietly, Quiet
<1> QED BY <1>4, <1>5, <1>6, <1>7, <1>8 DEF Steady, Calm

LEMMA ScopeIsThere ==
  ASSUME IInv, BuildInv, ~Uses({"pop"}) => gone = {},
         AtOp("end_scope"), Len(scopes) <= Top.outer \/ Len(work) \in gone
  PROVE  Uses({"pop"})
<1> SUFFICES ASSUME ~Popped, Len(scopes) <= Top.outer PROVE FALSE
  BY DEF Popped
<1>1. work # <<>> /\ Top.op = "end_scope"
  BY DEF AtOp
<1>2. Len(work) \in 1..Len(work) /\ Top = Level(work, Len(work))
  BY <1>1, Places
<1>3. Top.outer \in 1..(Len(scopes) - 1) /\ Len(scopes) \in Nat
  BY <1>1, <1>2 DEF BuildInv, StackOK, Scoping
<1> QED BY <1>3

\* Only SCOPE_POP deletes the scope of another item.
LEMMA OnlyPopsDelete ==
  ASSUME IInv, BuildInv, BuildStep, ~Uses({"pop"}), gone = {}
  PROVE  gone' = {}
<1>1. CASE BuildRaw \/ BuildDraw \/ BuildAnd \/ NextItem \/ BuildOpt
  BY <1>1 DEF BuildRaw, BuildDraw, BuildAnd, NextItem, BuildOpt
<1>2. CASE BuildOr \/ BuildRule
  <2>1. \E or : BuildChoice(or)
    BY <1>2 DEF BuildOr, BuildRule
  <2> QED BY <2>1 DEF BuildChoice, Fail
<1>3. CASE BuildTop \/ BuildRef
  BY <1>3 DEF BuildTop, BuildRef, Enter, Fail
<1>4. CASE LeaveRule \/ FlushedPrePost \/ EndTop
  BY <1>4 DEF LeaveRule, FlushedPrePost, EndTop
<1>5. CASE FlushTop \/ BuildFlush \/ BuildPre
  BY <1>5 DEF FlushTop, BuildFlush, BuildPre, FlushPrePost, Fail
<1>6. CASE EndPre \/ BuildFlushed \/ EndFlushed \/ NextPost \/ BuildCapture \/ EndCapture
  BY <1>6 DEF EndPre, BuildFlushed, EndFlushed, NextPost, BuildCapture, EndCapture
<1>7. CASE BuildPost \/ BuildNullItem \/ BuildCaptured
  BY <1>7 DEF BuildPost, BuildNullItem, BuildCaptured, Fail
<1>8. CASE BuildId \/ BuildStore \/ EndStore
  BY <1>8 DEF BuildId, BuildStore, EndStore, Fail
<1>9. CASE BuildScope \/ EndScope
  BY <1>9 DEF BuildScope, EndScope, Fail
<1>10. CASE BuildScopeAction
  <2>1. Item[Top.node].kind # "pop" /\ Item[Top.node].kind \in {"push", "pop"}
    BY <1>10, AtItem DEF BuildScopeAction, Uses
  <2> QED BY <1>10, <2>1 DEF BuildScopeAction
<1> QED BY <1>1, <1>2, <1>3, <1>4, <1>5, <1>6, <1>7, <1>8, <1>9, <1>10 DEF BuildStep

LEMMA IndexIsMissing ==
  ASSUME IInv, BuildInv, 0 \in RuleIdx, At({"id"}) \/ AtOp("end_store")
  PROVE  ~IndexesAreSet
<1>1. Top.node \in Used /\ Top.node \in NameNodes
  <2>1. CASE At({"id"})
    BY <2>1, AtItem DEF NameNodes
  <2>2. CASE AtOp("end_store")
    <3>1. work # <<>> /\ Top.op = "end_store"
      BY <2>2 DEF AtOp
    <3>2. Top.node \in Used /\ Item[Top.node].kind \in StoreKinds
      BY <3>1, Places DEF FrameOK
    <3> QED BY <3>2, UsedIsClosed, Unmoved DEF NameNodes
  <2> QED BY <2>1, <2>2
<1>2. index[Top.node] \in {-1} \cup 1..Len(names) /\ Len(names) \in Nat
  BY <1>1, SeqFacts DEF BuildInv, GrammarInv, Indexed
<1>3. index[Top.node] = -1
  BY <1>2 DEF RuleIdx
<1> QED BY <1>1, <1>3 DEF IndexesAreSet

LEMMA FailuresAreExplained ==
  ASSUME IInv, BuildInv, ~Uses({"flush"}) => Steady, ~Uses({"pop"}) => gone = {},
         BuildStep, fault' # fault, UNCHANGED gramRest
  PROVE  BuildsAreDefined'
<1>1. /\ Used' = Used /\ PostsAreQuiet' = PostsAreQuiet /\ IndexesAreSet' = IndexesAreSet
      /\ \A kinds : Uses(kinds)' = Uses(kinds)
  BY SameGrammar DEF gramRest, PostsAreQuiet, IndexesAreSet, Uses
<1>2. fault' = "pre_output" => Uses({"flush"})
  BY Failures, ItemIsUsed, PreOutputIsThere
<1>3. fault' = "post_items" => Uses({"flush"}) \/ ~PostsAreQuiet
  BY Failures, PostsAreThere
<1>4. fault' = "no_scope" => Uses({"pop"})
  BY Failures, ItemIsUsed, ScopeIsThere
<1>5. fault' = "no_capture" => Uses({"captured"})
  BY Failures, ItemIsUsed
<1>6. fault' = "no_index" => ~IndexesAreSet
  BY Failures, IndexIsMissing
<1> QED BY <1>1, <1>2, <1>3, <1>4, <1>5, <1>6 DEF BuildsAreDefined

-----------------------------------------------------------------------------
(* The invariant.                                                          *)

\* A fault ends the behaviour; where there is no FLUSH the frames are tame.
DefInv ==
  /\ fault # "none" => at = "build" /\ work # <<>>
  /\ BuildsAreDefined
  /\ ~Uses({"flush"}) => Steady
  /\ ~Uses({"pop"}) => gone = {}

LEMMA NoFault == ASSUME fault' = "none" PROVE BuildsAreDefined'
BY DEF BuildsAreDefined

LEMMA OutsideBuilds ==
  ASSUME Next, ~Build
  PROVE  /\ at # "build" \/ work = <<>>
         /\ fault' = fault /\ grammar' = grammar /\ gone' \in {gone, {}}
         /\ at' # "build" \/ work' = <<[op |-> "top"]>>
<1> USE DEF gramRest, gramVars, genVars, Built
<1>1. CASE FinalizeStep
  BY <1>1 DEF FinalizeStep, Finalize, AddRule, ReachRule, ReachItem, ReachReturn, ReachRuleEnd,
              ReachEnd, DepthRule, DepthEnd, Visit
<1>2. CASE LaunchCampaign \/ Relaunch
  BY <1>2 DEF LaunchCampaign, Relaunch, Forked
<1>3. CASE Create \/ BuildMutated \/ RunAndCrash \/ DumpEntry
  BY <1>3 DEF Create, BuildMutated, RunAndCrash, DumpEntry, StartBuild
<1>4. CASE PickInput \/ KeepSnapshot \/ MutateSnapshot
  BY <1>4 DEF PickInput, KeepSnapshot, MutateSnapshot, Mutating
<1>5. CASE RunQuietly \/ RunWithNews \/ StartDump
  BY <1>5 DEF RunQuietly, RunWithNews, StartDump
<1> QED BY <1>1, <1>2, <1>3, <1>4, <1>5 DEF Next

LEMMA DefInvKeeps ==
  ASSUME IInv, IInv', BuildInv, BuildInv', DefInv, [Next]_vars
  PROVE  DefInv'
<1>1. CASE UNCHANGED vars
  <2>1. UNCHANGED <<grammar, names, index, scopes, work, ctx, bufs, fault, gone, at>>
    BY <1>1 DEF vars, gramVars, genVars
  <2>2. /\ PostsAreQuiet' = PostsAreQuiet /\ IndexesAreSet' = IndexesAreSet
        /\ \A kinds : Uses(kinds)' = Uses(kinds)
    BY <2>1, SameGrammar DEF PostsAreQuiet, IndexesAreSet, Uses
  <2>3. BuildsAreDefined'
    BY <2>1, <2>2 DEF DefInv, BuildsAreDefined
  <2>4. ~Uses({"flush"})' => Steady'
    BY <2>1, <2>2 DEF DefInv, Steady
  <2>5. (~Uses({"pop"}) => gone = {})'
    BY <2>1, <2>2 DEF DefInv
  <2> QED BY <2>1, <2>3, <2>4, <2>5 DEF DefInv
<1>2. CASE Next /\ ~Build
  <2>1. /\ at # "build" \/ work = <<>>
        /\ fault' = fault /\ grammar' = grammar /\ gone' \in {gone, {}}
        /\ at' # "build" \/ work' = <<[op |-> "top"]>>
    BY <1>2, OutsideBuilds
  <2>2. fault' = "none"
    BY <2>1 DEF DefInv
  <2>3. work' = <<>> \/ work' = <<[op |-> "top"]>>
    BY <2>1 DEF IInv, StackInv
  <2>4. ctx'.posts = <<>>
    <3>1. work' = <<[op |-> "top"]>> => Top'.op = "top"
      BY DEF Top
    <3> QED BY <2>3, <3>1 DEF BuildInv, ChainInv, Idle
  <2>5. PICK w, p : w = work' /\ p = ctx'.pre
    OBVIOUS
  <2>6. Tame(w, p, <<>>) /\ Calm(w, <<>>)
    BY <2>3, <2>5, RestIsTame
  <2>7. Steady'
    BY <2>4, <2>5, <2>6 DEF Steady
  <2>8. (~Uses({"pop"}) => gone = {})'
    <3>1. Uses({"pop"})' <=> Uses({"pop"})
      BY <2>1, SameGrammar DEF Uses
    <3> QED BY <2>1, <3>1 DEF DefInv
  <2> QED BY <2>2, <2>7, <2>8, NoFault DEF DefInv
<1>3. CASE Build
  <2>1. BuildStep /\ at = "build" /\ at' = at /\ UNCHANGED gramRest /\ work # <<>>
        /\ (fault' = fault \/ \E why \in Faults : Fail(why))
    BY <1>3, StepsOrFails DEF Build
  <2>2. fault = "none"
    BY <2>1, StepsOrFails
  <2>3. grammar' = grammar /\ Uses({"flush"})' = Uses({"flush"})
    BY <2>1, SameGrammar DEF gramRest, Uses
  <2>6. (~Uses({"pop"}) => gone = {})'
    <3>1. Uses({"pop"})' <=> Uses({"pop"})
      BY <2>3, SameGrammar DEF Uses
    <3> QED BY <2>1, <3>1, OnlyPopsDelete DEF DefInv
  <2>4. CASE fault' = fault
    <3>1. ~Uses({"flush"}) => Steady'
      BY <2>1, <2>3, <2>4, StepIsSteady DEF DefInv
    <3> QED BY <2>2, <2>3, <2>4, <2>6, <3>1, NoFault DEF DefInv
  <2>5. CASE fault' # fault
    <3>1. BuildsAreDefined'
      BY <2>1, <2>5, FailuresAreExplained DEF DefInv
    <3>2. UNCHANGED <<work, ctx>>
      BY <2>1, <2>5 DEF Fail
    <3>3. PostsAreQuiet' = PostsAreQuiet
      BY <2>3, SameGrammar DEF PostsAreQuiet
    <3>4. ~Uses({"flush"}) => Steady'
      BY <3>2, <3>3 DEF DefInv, Steady
    <3> QED BY <2>1, <2>3, <2>6, <3>1, <3>2, <3>4 DEF DefInv
  <2> QED BY <2>4, <2>5
<1> QED BY <1>1, <1>2, <1>3

\* In every build of every grammar the behaviour is undefined at most where an
\* item is used that cannot be used everywhere, where a post puts off others or refers
\* to a rule, and where no pass has set an index (pre_post.cpp, build_context.cpp).
THEOREM FaultsHaveReasons == Spec => []BuildsAreDefined
<1>1. Init => DefInv
  <2> SUFFICES ASSUME Init PROVE DefInv
    OBVIOUS
  <2>1. IInv /\ BuildInv /\ fault = "none" /\ work = <<>> /\ gone = {}
    BY InitInv, InitBuildInv DEF Init, GenInit
  <2> QED BY <2>1, RestIsSteady DEF DefInv, BuildsAreDefined
<1>2. IInv /\ IInv' /\ BuildInv /\ BuildInv' /\ DefInv /\ [Next]_vars => DefInv'
  BY DefInvKeeps
<1>3. DefInv => BuildsAreDefined
  BY DEF DefInv
<1> QED BY <1>1, <1>2, <1>3, BuildsInOrder, PTL DEF Spec
=============================================================================
