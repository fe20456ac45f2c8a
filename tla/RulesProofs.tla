---------------------------- MODULE RulesProofs -----------------------------
(***************************************************************************)
(* The correctness of Rules, but for GlobsAgreeWithGit, for every tree,    *)
(* every content of the policy files and every sequence of edits.          *)
(*                                                                         *)
(* The model's recursive functions (Pick, AtLines, ResolveIgnore, and      *)
(* FlattenSeq of the community modules) are shown to obey their recursion  *)
(* (Recursion), and what is proved of them by induction on a position is   *)
(* proved with UpTo: a set of numbers that has 0 and, with every number,   *)
(* the next one up to n.                                                   *)
(*                                                                         *)
(* The invariant says that the levels are compiled: the files Discover     *)
(* found in the order of its walk, the global one first, no directory      *)
(* before one above it.  Resolve is then a run of verdicts through the     *)
(* levels (LevelRun), and each property is about what such a run can do:   *)
(* how a hidden path can show again (ShowsAgain), what a poisoned verdict  *)
(* comes from (VerdictsFounded), that fewer allow lines hide more          *)
(* (TighterRuns).                                                          *)
(***************************************************************************)
EXTENDS Rules, WellFoundedInduction, TLAPS

\* The elements of a sequence are in its set.
LEMMA Element ==
  ASSUME NEW S, NEW s \in Seq(S)
  PROVE  Len(s) \in Nat /\ \A i \in 1 .. Len(s) : s[i] \in S
OBVIOUS

\* Sequences of the same length with the same elements are equal.
LEMMA SeqEqual ==
  ASSUME NEW X, NEW s \in Seq(X), NEW t \in Seq(X), Len(s) = Len(t), \A i \in 1 .. Len(s) : s[i] = t[i]
  PROVE  s = t
<1>1. s = [i \in 1 .. Len(s) |-> s[i]] /\ t = [i \in 1 .. Len(t) |-> t[i]]
  OBVIOUS
<1> QED
  BY <1>1

\* A set of numbers that is not empty has a least one.
LEMMA Least ==
  ASSUME NEW T, T \subseteq Nat, T # {}
  PROVE  \E n \in T : \A m \in T : n <= m
<1> DEFINE R == {ss \in Nat \X Nat : ss[1] < ss[2]}
<1>1. IsWellFoundedOn(OpToRel(<, Nat), Nat)
  BY NatLessThanWellFounded
<1>2. IsWellFoundedOn(R, Nat)
  BY <1>1 DEF OpToRel
<1>3. \A m, n \in Nat : m < n => <<m, n>> \in R
  OBVIOUS
<1> HIDE DEF R
<1>4. PICK n \in T : \A m \in T : ~ (<<m, n>> \in R)
  BY <1>2, WFMin
<1>5. ASSUME NEW m \in T PROVE n <= m
  <2>1. m \in Nat /\ n \in Nat
    OBVIOUS
  <2>2. ~ (m < n)
    BY <2>1, <1>3, <1>4
  <2> QED BY <2>1, <2>2
<1> QED
  BY <1>5

\* Induction up to n: a set that has 0 and, with any k < n, also k + 1.
LEMMA UpTo ==
  ASSUME NEW n \in Nat, NEW G, 0 \in G, \A k \in 0 .. n - 1 : k \in G => k + 1 \in G
  PROVE  0 .. n \subseteq G
<1> DEFINE T == (0 .. n) \ G
<1>1. SUFFICES ASSUME T # {} PROVE FALSE
  OBVIOUS
<1>2. T \subseteq Nat
  OBVIOUS
<1>3. PICK m \in T : \A k \in T : m <= k
  <2> HIDE DEF T
  <2> QED BY <1>1, <1>2, Least
<1>4. m # 0 /\ m - 1 \in 0 .. n - 1 /\ m - 1 \notin T
  BY <1>3
<1> QED
  BY <1>3, <1>4

\* A function defined by recursion on 0 .. n, its step given as a function.
Obeys(f, n, b, st) == f[0] = b /\ \A k \in 1 .. n : f[k] = st[<<f[k - 1], k>>]

\* There is a function on 0 .. n that starts at b and goes on by st: the
\* recursive functions of this module are such functions.
LEMMA Recursion ==
  ASSUME NEW n \in Nat, NEW V, NEW b \in V, NEW st \in [V \X (1 .. n) -> V]
  PROVE  \E f \in [0 .. n -> V] : Obeys(f, n, b, st)
<1> DEFINE G == {m \in 0 .. n : \E f \in [0 .. m -> V] :
                   f[0] = b /\ \A k \in 1 .. m : f[k] = st[<<f[k - 1], k>>]}
<1>1. 0 \in G
  <2> DEFINE f == [k \in 0 .. 0 |-> b]
  <2>1. f \in [0 .. 0 -> V] /\ f[0] = b /\ \A k \in 1 .. 0 : f[k] = st[<<f[k - 1], k>>]
    OBVIOUS
  <2> HIDE DEF f
  <2> QED BY <2>1
<1>2. ASSUME NEW m \in 0 .. n - 1, m \in G PROVE m + 1 \in G
  <2>1. PICK f \in [0 .. m -> V] : f[0] = b /\ \A k \in 1 .. m : f[k] = st[<<f[k - 1], k>>]
    BY <1>2
  <2> DEFINE g == [k \in 0 .. m + 1 |-> IF k = m + 1 THEN st[<<f[m], m + 1>>] ELSE f[k]]
  <2>2. f[m] \in V /\ m + 1 \in 1 .. n /\ st[<<f[m], m + 1>>] \in V
    OBVIOUS
  <2>3. g \in [0 .. m + 1 -> V]
    BY <2>2
  <2>4. g[0] = b
    BY <2>1
  <2>5. ASSUME NEW k \in 1 .. m + 1 PROVE g[k] = st[<<g[k - 1], k>>]
    <3>1. CASE k = m + 1
      <4>1. k - 1 = m /\ m \in 0 .. m + 1 /\ m # m + 1 /\ k \in 0 .. m + 1
        BY <3>1
      <4>2. g[k] = st[<<f[m], m + 1>>] /\ g[m] = f[m]
        BY <4>1, <3>1
      <4> QED BY <4>1, <4>2, <3>1
    <3>2. CASE k # m + 1
      <4>1. k \in 1 .. m /\ k \in 0 .. m + 1 /\ k - 1 \in 0 .. m + 1 /\ k - 1 # m + 1
        BY <3>2
      <4>2. g[k] = f[k] /\ g[k - 1] = f[k - 1]
        BY <4>1, <3>2
      <4> QED BY <4>1, <4>2, <2>1
    <3> QED BY <3>1, <3>2
  <2> HIDE DEF g
  <2> QED BY <2>3, <2>4, <2>5
<1>3. 0 .. n \subseteq G
  <2> HIDE DEF G
  <2> QED BY <1>1, <1>2, UpTo
<1> QED
  BY <1>3 DEF Obeys

\* What Pick returns is computed step by step.
PickRun(f, s, N) ==
  /\ f[0] = <<>>
  /\ \A k \in 1 .. Len(s) : f[k] = IF k \in N THEN Append(f[k - 1], s[k]) ELSE f[k - 1]

\* Pick walks the positions and appends the picked ones.
LEMMA PickSteps ==
  ASSUME NEW V, NEW s \in Seq(V), NEW N
  PROVE  \E f \in [0 .. Len(s) -> Seq(V)] :
           PickRun(f, s, N) /\ Pick(s, N) = f[Len(s)]
<1> DEFINE n == Len(s)
           Body(f) == [k \in 0 .. n |-> IF k = 0 THEN <<>> ELSE IF k \in N THEN Append(f[k - 1], s[k]) ELSE f[k - 1]]
           st == [p \in Seq(V) \X (1 .. n) |-> IF p[2] \in N THEN Append(p[1], s[p[2]]) ELSE p[1]]
           picked == CHOOSE f : f = Body(f)
<1>1. n \in Nat /\ <<>> \in Seq(V) /\ \A k \in 1 .. n : s[k] \in V
  OBVIOUS
<1>2. st \in [Seq(V) \X (1 .. n) -> Seq(V)]
  BY <1>1
<1>3. \A q \in Seq(V), k \in 1 .. n : st[<<q, k>>] = IF k \in N THEN Append(q, s[k]) ELSE q
  OBVIOUS
<1>4. PICK f \in [0 .. n -> Seq(V)] : f[0] = <<>> /\ \A k \in 1 .. n : f[k] = st[<<f[k - 1], k>>]
  <2>1. \E f \in [0 .. n -> Seq(V)] : Obeys(f, n, <<>>, st)
    <3> HIDE DEF st, n
    <3> QED BY <1>1, <1>2, Recursion, Zenon
  <2> QED BY <2>1 DEF Obeys
<1>5. \A k \in 1 .. n : f[k] = IF k \in N THEN Append(f[k - 1], s[k]) ELSE f[k - 1]
  <2>1. \A k \in 1 .. n : f[k - 1] \in Seq(V)
    BY <1>1
  <2> HIDE DEF st, n
  <2> QED BY <1>3, <1>4, <2>1
<1>6. f = Body(f)
  <2>1. \A k \in 0 .. n : f[k] = Body(f)[k]
    <3>1. ASSUME NEW k \in 0 .. n PROVE f[k] = Body(f)[k]
      <4>1. k = 0 \/ k \in 1 .. n
        BY <1>1
      <4> HIDE DEF st
      <4> QED BY <4>1, <1>4, <1>5
    <3> QED BY <3>1
  <2> QED BY <2>1
<1>7. picked = Body(picked)
  <2> HIDE DEF Body
  <2> QED BY <1>6
<1>8. Pick(s, N) = picked[n]
  BY DEF Pick
<1>9. picked[0] = <<>> /\ \A k \in 1 .. n : picked[k] = IF k \in N THEN Append(picked[k - 1], s[k]) ELSE picked[k - 1]
  <2>1. 0 \in 0 .. n /\ \A k \in 1 .. n : k \in 0 .. n /\ k # 0
    BY <1>1
  <2> HIDE DEF picked
  <2> QED BY <2>1, <1>7
<1>10. picked \in [0 .. n -> Seq(V)]
  <2> DEFINE G == {k \in 0 .. n : picked[k] \in Seq(V)}
  <2> HIDE DEF picked, n
  <2>1. 0 \in G
    <3>1. 0 \in 0 .. n /\ picked[0] \in Seq(V)
      BY <1>1, <1>9 DEF n
    <3> QED BY <3>1
  <2>2. ASSUME NEW k \in 0 .. n - 1, k \in G PROVE k + 1 \in G
    <3>1. k + 1 \in 1 .. n /\ k + 1 \in 0 .. n /\ (k + 1) - 1 = k
      BY <1>1
    <3>2. picked[k + 1] = IF k + 1 \in N THEN Append(picked[k], s[k + 1]) ELSE picked[k]
      BY <1>9, <3>1
    <3>3. picked[k] \in Seq(V) /\ s[k + 1] \in V
      BY <2>2, <3>1, <1>1
    <3>4. picked[k + 1] \in Seq(V)
      BY <3>2, <3>3
    <3> QED BY <3>1, <3>4
  <2>3. 0 .. n \subseteq G
    <3> HIDE DEF G
    <3> QED BY <1>1, <2>1, <2>2, UpTo
  <2>4. picked = [k \in 0 .. n |-> picked[k]]
    BY <1>7
  <2> QED BY <2>3, <2>4
<1> HIDE DEF picked
<1>11. PickRun(picked, s, N)
  BY <1>9 DEF PickRun
<1> QED
  BY <1>8, <1>10, <1>11

\* t is s at the positions in M: h tells which.
Selects(t, s, M, h) ==
  /\ h \in [1 .. Len(t) -> M]
  /\ \A i \in 1 .. Len(t) : t[i] = s[h[i]]
  /\ \A i, j \in 1 .. Len(t) : i < j => h[i] < h[j]
  /\ \A k \in M : \E i \in 1 .. Len(t) : h[i] = k

\* A selection of the first k positions, and position k + 1 after it.
LEMMA SelectsOneMore ==
  ASSUME NEW V, NEW s \in Seq(V), NEW t \in Seq(V), NEW k \in Nat, k + 1 \in 1 .. Len(s),
         NEW M \in SUBSET (1 .. k), NEW h, Selects(t, s, M, h)
  PROVE  \E g : Selects(Append(t, s[k + 1]), s, M \cup {k + 1}, g)
<1> DEFINE u == Append(t, s[k + 1])
           m == Len(t)
           g == [i \in 1 .. m + 1 |-> IF i = m + 1 THEN k + 1 ELSE h[i]]
<1>1. m \in Nat /\ Len(u) = m + 1 /\ u[m + 1] = s[k + 1] /\ \A i \in 1 .. m : u[i] = t[i]
  OBVIOUS
<1>2. h \in [1 .. m -> M] /\ \A i \in 1 .. m : h[i] \in 1 .. k
  BY DEF Selects
<1>3. 1 .. Len(u) = 1 .. m + 1 /\ m + 1 \in 1 .. m + 1 /\ 1 .. m + 1 = (1 .. m) \cup {m + 1} /\ m + 1 \notin 1 .. m
  BY <1>1
<1>4. g[m + 1] = k + 1 /\ \A i \in 1 .. m : g[i] = h[i]
  BY <1>3
<1>5. g \in [1 .. m + 1 -> M \cup {k + 1}]
  BY <1>2, <1>3
<1> HIDE DEF g, u, m
<1>6. \A i \in 1 .. m + 1 : u[i] = s[g[i]]
  BY <1>1, <1>3, <1>4 DEF Selects, m
<1>7. ASSUME NEW i \in 1 .. m + 1, NEW j \in 1 .. m + 1, i < j PROVE g[i] < g[j]
  <2>1. i \in 1 .. m
    BY <1>1, <1>3, <1>7
  <2>2. CASE j = m + 1
    BY <1>2, <1>4, <2>1, <2>2
  <2>3. CASE j # m + 1
    <3>1. j \in 1 .. m
      BY <1>3, <2>3
    <3>2. h[i] < h[j]
      BY <2>1, <3>1, <1>7 DEF Selects, m
    <3> QED BY <1>4, <2>1, <3>1, <3>2
  <2> QED BY <2>2, <2>3
<1>8. ASSUME NEW p \in M \cup {k + 1} PROVE \E i \in 1 .. m + 1 : g[i] = p
  <2>1. CASE p \in M
    <3>1. PICK i \in 1 .. m : h[i] = p
      BY <2>1 DEF Selects, m
    <3> QED BY <3>1, <1>3, <1>4
  <2>2. CASE p = k + 1
    BY <2>2, <1>3, <1>4
  <2> QED BY <2>1, <2>2
<1>9. Selects(u, s, M \cup {k + 1}, g)
  BY <1>3, <1>5, <1>6, <1>7, <1>8 DEF Selects
<1> QED
  BY <1>9 DEF u

\* Pick returns the elements at the positions in N, each once and in order.
LEMMA PickPositions ==
  ASSUME NEW V, NEW s \in Seq(V), NEW N
  PROVE  /\ Pick(s, N) \in Seq(V)
         /\ \E h : Selects(Pick(s, N), s, N \cap (1 .. Len(s)), h)
<1>0. PICK f \in [0 .. Len(s) -> Seq(V)] : PickRun(f, s, N) /\ Pick(s, N) = f[Len(s)]
  BY PickSteps, Zenon
<1>1. /\ f[0] = <<>> /\ Pick(s, N) = f[Len(s)]
      /\ \A k \in 1 .. Len(s) : f[k] = IF k \in N THEN Append(f[k - 1], s[k]) ELSE f[k - 1]
  BY <1>0 DEF PickRun
<1> DEFINE G == {k \in 0 .. Len(s) : \E h : Selects(f[k], s, N \cap (1 .. k), h)}
<1>2. Len(s) \in Nat
  OBVIOUS
<1>3. 0 \in G
  <2>1. Selects(<<>>, s, {}, [i \in 1 .. 0 |-> 0])
    BY DEF Selects
  <2>2. N \cap (1 .. 0) = {} /\ 0 \in 0 .. Len(s)
    BY <1>2
  <2> QED BY <1>1, <2>1, <2>2
<1>4. ASSUME NEW k \in 0 .. Len(s) - 1, k \in G PROVE k + 1 \in G
  <2>1. k \in Nat /\ k + 1 \in 1 .. Len(s) /\ k + 1 \in 0 .. Len(s) /\ k \in 0 .. Len(s) /\ (k + 1) - 1 = k
    BY <1>2
  <2>2. PICK h : Selects(f[k], s, N \cap (1 .. k), h)
    BY <1>4
  <2>3. f[k + 1] = IF k + 1 \in N THEN Append(f[k], s[k + 1]) ELSE f[k]
    BY <1>1, <2>1
  <2>4. CASE k + 1 \in N
    <3>1. N \cap (1 .. k + 1) = (N \cap (1 .. k)) \cup {k + 1}
      BY <2>1, <2>4
    <3>2. f[k] \in Seq(V) /\ N \cap (1 .. k) \in SUBSET (1 .. k)
      BY <2>1
    <3>3. \E g : Selects(Append(f[k], s[k + 1]), s, (N \cap (1 .. k)) \cup {k + 1}, g)
      BY <2>1, <2>2, <3>2, SelectsOneMore, Zenon
    <3> QED BY <2>1, <2>3, <2>4, <3>1, <3>3
  <2>5. CASE k + 1 \notin N
    <3>1. N \cap (1 .. k + 1) = N \cap (1 .. k)
      BY <2>1, <2>5
    <3> QED BY <2>1, <2>2, <2>3, <2>5, <3>1
  <2> QED BY <2>4, <2>5
<1>5. 0 .. Len(s) \subseteq G
  <2> HIDE DEF G
  <2> QED BY <1>2, <1>3, <1>4, UpTo
<1>6. Len(s) \in 0 .. Len(s)
  BY <1>2
<1> QED
  BY <1>1, <1>5, <1>6

\* The elements of the first k of the sequences ss.
Among(ss, k, x) == \E j \in 1 .. k : \E i \in 1 .. Len(ss[j]) : ss[j][i] = x
Has(t, x) == \E i \in 1 .. Len(t) : t[i] = x

\* The elements of a concatenation, by position.
LEMMA Appended ==
  ASSUME NEW X, NEW t \in Seq(X), NEW u \in Seq(X)
  PROVE  /\ Len(t \o u) = Len(t) + Len(u)
         /\ \A i \in 1 .. Len(t) : (t \o u)[i] = t[i]
         /\ \A i \in 1 .. Len(u) : (t \o u)[Len(t) + i] = u[i]
OBVIOUS

\* What is in a concatenation is in one of its parts.
LEMMA Concatenated ==
  ASSUME NEW X, NEW t \in Seq(X), NEW u \in Seq(X)
  PROVE  t \o u \in Seq(X) /\ \A x : Has(t \o u, x) <=> Has(t, x) \/ Has(u, x)
<1>1. /\ t \o u \in Seq(X) /\ Len(t \o u) = Len(t) + Len(u) /\ Len(t) \in Nat /\ Len(u) \in Nat
      /\ \A i \in 1 .. Len(t) : (t \o u)[i] = t[i]
      /\ \A i \in 1 .. Len(u) : (t \o u)[Len(t) + i] = u[i]
  OBVIOUS
<1> DEFINE tu == t \o u
<1> HIDE DEF tu
<1>2. ASSUME NEW x, Has(tu, x) PROVE Has(t, x) \/ Has(u, x)
  <2>1. PICK i \in 1 .. Len(tu) : tu[i] = x
    BY <1>2 DEF Has
  <2>2. CASE i <= Len(t)
    <3>1. i \in 1 .. Len(t)
      BY <2>2, <1>1 DEF tu
    <3> QED BY <3>1, <2>1, <1>1 DEF Has, tu
  <2>3. CASE i > Len(t)
    <3>1. i - Len(t) \in 1 .. Len(u) /\ Len(t) + (i - Len(t)) = i
      BY <2>3, <1>1 DEF tu
    <3>2. u[i - Len(t)] = x
      BY <3>1, <2>1, <1>1 DEF tu
    <3> QED BY <3>1, <3>2 DEF Has
  <2> QED BY <2>2, <2>3, <1>1
<1>3. ASSUME NEW x, Has(t, x) PROVE Has(tu, x)
  <2>1. PICK i \in 1 .. Len(t) : t[i] = x
    BY <1>3 DEF Has
  <2>2. i \in 1 .. Len(tu)
    BY <1>1 DEF tu
  <2> QED BY <2>1, <2>2, <1>1 DEF Has, tu
<1>4. ASSUME NEW x, Has(u, x) PROVE Has(tu, x)
  <2>1. PICK i \in 1 .. Len(u) : u[i] = x
    BY <1>4 DEF Has
  <2>2. Len(t) + i \in 1 .. Len(tu) /\ tu[Len(t) + i] = x
    BY <1>1, <2>1 DEF tu
  <2> QED BY <2>2 DEF Has
<1> QED
  BY <1>1, <1>2, <1>3, <1>4 DEF tu

\* What is in a flattened sequence is in one of its sequences, and
\* nothing is lost.
LEMMA Flattened ==
  ASSUME NEW X, NEW ss \in Seq(Seq(X))
  PROVE  FlattenSeq(ss) \in Seq(X) /\ \A x : Has(FlattenSeq(ss), x) <=> Among(ss, Len(ss), x)
<1> DEFINE n == Len(ss)
           Body(f) == [i \in 1 .. n |-> IF i = 1 THEN ss[i] ELSE f[i - 1] \o ss[i]]
           st == [p \in Seq(X) \X (1 .. n) |-> p[1] \o ss[p[2]]]
           flat == CHOOSE f : f = Body(f)
<1>1. n \in Nat /\ <<>> \in Seq(X) /\ \A k \in 1 .. n : ss[k] \in Seq(X)
  OBVIOUS
<1>2. st \in [Seq(X) \X (1 .. n) -> Seq(X)]
  BY <1>1
<1>3. \A q \in Seq(X), k \in 1 .. n : st[<<q, k>>] = q \o ss[k]
  OBVIOUS
<1>4. PICK f \in [0 .. n -> Seq(X)] : Obeys(f, n, <<>>, st)
  <2> HIDE DEF st, n
  <2> QED BY <1>1, <1>2, Recursion, Zenon
<1>5. \A k \in 1 .. n : f[k] = f[k - 1] \o ss[k]
  <2>1. \A k \in 1 .. n : f[k - 1] \in Seq(X)
    <3> HIDE DEF st, n
    <3>1. \A k \in 1 .. n : k - 1 \in 0 .. n
      BY <1>1
    <3> QED BY <3>1
  <2> HIDE DEF st, n
  <2> QED BY <1>3, <1>4, <2>1 DEF Obeys
<1> DEFINE g == [k \in 1 .. n |-> f[k]]
<1>6. g = Body(g)
  <2>1. ASSUME NEW k \in 1 .. n PROVE g[k] = Body(g)[k]
    <3>1. CASE k = 1
      <4>1. f[0] = <<>> /\ k - 1 = 0
        BY <1>4, <3>1 DEF Obeys
      <4>2. <<>> \o ss[k] = ss[k]
        BY <1>1
      <4>3. f[k] = ss[k]
        BY <4>1, <4>2, <1>5
      <4> QED BY <3>1, <4>3
    <3>2. CASE k # 1
      <4>1. k - 1 \in 1 .. n
        BY <3>2, <1>1
      <4>2. g[k - 1] = f[k - 1]
        BY <4>1
      <4> QED BY <3>2, <4>2, <1>5
    <3> QED BY <3>1, <3>2
  <2> QED BY <2>1
<1>7. flat = Body(flat)
  <2> HIDE DEF Body
  <2> QED BY <1>6
<1>8. \A k \in 1 .. n : flat[k] = IF k = 1 THEN ss[k] ELSE flat[k - 1] \o ss[k]
  <2> HIDE DEF flat
  <2> QED BY <1>7
<1> HIDE DEF flat
<1> DEFINE OK(k) == flat[k] \in Seq(X) /\ \A x : Has(flat[k], x) <=> Among(ss, k, x)
           G == {k \in 0 .. n : k = 0 \/ OK(k)}
<1>9. ASSUME NEW k \in 0 .. n - 1, k \in G PROVE k + 1 \in G
  <2>1. k + 1 \in 1 .. n /\ k + 1 \in 0 .. n /\ (k + 1) - 1 = k /\ k + 1 # 0
    BY <1>1
  <2>2. CASE k = 0
    <3>0. 1 \in 1 .. n
      BY <2>1, <2>2
    <3>1. flat[1] = ss[1] /\ ss[1] \in Seq(X)
      <4> HIDE DEF n
      <4> QED BY <3>0, <1>8, <1>1
    <3>2. \A x : Has(ss[1], x) <=> Among(ss, 1, x)
      BY DEF Has, Among
    <3> QED BY <2>1, <2>2, <3>1, <3>2
  <2>3. CASE k # 0
    <3>1. flat[k + 1] = flat[k] \o ss[k + 1] /\ flat[k] \in Seq(X) /\ ss[k + 1] \in Seq(X)
      <4>1. flat[k] \in Seq(X)
        BY <2>3, <1>9
      <4>2. ss[k + 1] \in Seq(X)
        BY <2>1, <1>1
      <4>3. k + 1 # 1
        BY <2>1, <2>3
      <4>4. flat[k + 1] = flat[k] \o ss[k + 1]
        <5> HIDE DEF n
        <5> QED BY <4>3, <2>1, <1>8
      <4> QED BY <4>1, <4>2, <4>4
    <3>2. flat[k + 1] \in Seq(X) /\ \A x : Has(flat[k + 1], x) <=> Has(flat[k], x) \/ Has(ss[k + 1], x)
      <4>1. flat[k] \o ss[k + 1] \in Seq(X)
        BY <3>1
      <4>2. \A x : Has(flat[k] \o ss[k + 1], x) <=> Has(flat[k], x) \/ Has(ss[k + 1], x)
        BY <3>1, Concatenated
      <4> QED BY <3>1, <4>1, <4>2
    <3>3. 1 .. k + 1 = (1 .. k) \cup {k + 1}
      BY <2>1
    <3>4. \A x : Among(ss, k + 1, x) <=> Among(ss, k, x) \/ Has(ss[k + 1], x)
      BY <3>3 DEF Among, Has
    <3>5. \A x : Has(flat[k], x) <=> Among(ss, k, x)
      BY <2>3, <1>9
    <3> QED BY <2>1, <3>2, <3>4, <3>5
  <2> QED BY <2>2, <2>3
<1>10. 0 .. n \subseteq G
  <2>1. 0 \in G
    BY <1>1
  <2> HIDE DEF G
  <2> QED BY <1>1, <2>1, <1>9, UpTo
<1>11. CASE n = 0
  <2>1. ss = <<>> /\ FlattenSeq(ss) = ss
    BY <1>11 DEF FlattenSeq
  <2>2. <<>> \in Seq(X) /\ \A x : ~ Has(<<>>, x)
    BY DEF Has
  <2>3. \A x : ~ Among(ss, n, x)
    BY <1>11 DEF Among
  <2> QED BY <2>1, <2>2, <2>3
<1>12. CASE n # 0
  <2>1. n \in 0 .. n /\ n \in G
    <3> HIDE DEF G, n
    <3> QED BY <1>1, <1>10
  <2>2. FlattenSeq(ss) = flat[n]
    BY <1>12 DEF FlattenSeq, flat
  <2> QED BY <2>1, <2>2, <1>12
<1> QED
  BY <1>11, <1>12

-----------------------------------------------------------------------------
(* What Discover returns. *)

LineRecs  == [line : Nat, glob : Globs]
MaskRecs  == [line : Nat, glob : Globs, refs : Seq(STRING), pats : Seq(PatternRecs), err : BOOLEAN]
LevelRecs == [dir : Dirs, poisoned : BOOLEAN, patterns : Seq(LineRecs), masks : Seq(MaskRecs)]

\* Each directory has one level; the global one is the first, and no
\* directory comes before one above it.
Before(a, b) == a # b /\ b # Global /\ (a # Global => ~IsStrictPrefix(b, a))
Ordered(levels) == \A i, j \in 1 .. Len(levels) : i < j => Before(levels[i].dir, levels[j].dir)

\* A policy file's lines, hide and allow, are lines.
LEMMA LinesType ==
  ASSUME NEW c \in PolicyFiles
  PROVE  Lines(c) \in Seq(LineRecs)
<1> DEFINE neg == [i \in 1 .. Len(c.allow) |-> [c.allow[i] EXCEPT !.neg = TRUE]]
           globs == c.hide \o neg
<1>1. c.hide \in Seq(Globs) /\ c.allow \in Seq(Globs)
  BY DEF PolicyFiles
<1>2. neg \in Seq(Globs)
  <2>1. ASSUME NEW i \in 1 .. Len(c.allow) PROVE [c.allow[i] EXCEPT !.neg = TRUE] \in Globs
    <3>1. c.allow[i] \in Globs
      BY <1>1
    <3> QED BY <3>1 DEF Globs
  <2>2. Len(c.allow) \in Nat
    BY <1>1
  <2> QED BY <2>1, <2>2
<1>3. globs \in Seq(Globs)
  <2> HIDE DEF neg
  <2> QED BY <1>1, <1>2
<1>4. Lines(c) = [i \in 1 .. Len(globs) |-> [line |-> i, glob |-> globs[i]]]
  BY DEF Lines
<1> HIDE DEF globs
<1>5. ASSUME NEW i \in 1 .. Len(globs) PROVE [line |-> i, glob |-> globs[i]] \in LineRecs
  <2>1. globs[i] \in Globs /\ i \in Nat
    BY <1>3
  <2> QED BY <2>1 DEF LineRecs
<1>6. Len(globs) \in Nat
  BY <1>3
<1> QED
  BY <1>4, <1>5, <1>6

\* The patterns of a mask line's references are patterns, the builtin
\* ones or none.
LEMMA PatternsType ==
  ASSUME NEW refs \in Seq(STRING)
  PROVE  PatternsOf(refs) \in Seq(PatternRecs)
<1>1. Builtins["whole-file"] \in Seq(PatternRecs) /\ \A b \in DOMAIN Builtins : Builtins[b] \in Seq(PatternRecs)
  BY RulesAssumption
<1> DEFINE ss == [i \in 1 .. Len(refs) |-> IF refs[i] \in DOMAIN Builtins THEN Builtins[refs[i]] ELSE <<>>]
<1>2. \A i \in 1 .. Len(refs) : ss[i] \in Seq(PatternRecs)
  BY <1>1
<1>3. ss \in Seq(Seq(PatternRecs))
  <2>1. Len(refs) \in Nat
    OBVIOUS
  <2> QED BY <1>2, <2>1
<1>4. FlattenSeq(ss) \in Seq(PatternRecs)
  <2> HIDE DEF ss
  <2> QED BY <1>3, Flattened
<1> QED
  BY <1>1, <1>4 DEF PatternsOf

\* A policy file's mask lines are mask entries.
LEMMA MasksType ==
  ASSUME NEW c \in PolicyFiles
  PROVE  MaskEntries(c) \in Seq(MaskRecs)
<1> DEFINE m(i) == [line |-> i, glob |-> c.mask[i].glob, refs |-> c.mask[i].refs, pats |-> PatternsOf(c.mask[i].refs),
                    err |-> ~c.mask[i].glob.ok \/ \E r \in ToSet(c.mask[i].refs) : r \notin DOMAIN Builtins]
<1>1. c.mask \in Seq([glob : Globs, refs : Seq(STRING)])
  BY DEF PolicyFiles
<1>2. ASSUME NEW i \in 1 .. Len(c.mask) PROVE m(i) \in MaskRecs
  <2>0. c.mask[i] \in [glob : Globs, refs : Seq(STRING)]
    BY <1>1, Element, Zenon
  <2>1. c.mask[i].glob \in Globs /\ c.mask[i].refs \in Seq(STRING) /\ i \in Nat
    BY <2>0
  <2>2. PatternsOf(c.mask[i].refs) \in Seq(PatternRecs)
    BY <2>1, PatternsType
  <2> QED BY <2>1, <2>2 DEF MaskRecs
<1>3. MaskEntries(c) = [i \in 1 .. Len(c.mask) |-> m(i)] /\ Len(c.mask) \in Nat
  BY <1>1 DEF MaskEntries
<1> HIDE DEF m
<1> QED
  BY <1>2, <1>3

\* A level that was compiled from a policy file.
LEMMA LoadType ==
  ASSUME NEW d \in Dirs, NEW c \in PolicyFiles
  PROVE  LoadPolicyLevel(d, c) \in LevelRecs /\ LoadPolicyLevel(d, c).dir = d
<1>1. Lines(c) \in Seq(LineRecs) /\ MaskEntries(c) \in Seq(MaskRecs)
  BY LinesType, MasksType
<1>2. Compiled(Lines(c)) \in Seq(LineRecs)
  BY <1>1, PickPositions DEF Compiled
<1>3. <<>> \in Seq(LineRecs) /\ <<>> \in Seq(MaskRecs)
  OBVIOUS
<1> QED
  BY <1>1, <1>2, <1>3 DEF LoadPolicyLevel, LevelRecs

Walk == <<Global>> \o DirOrder

\* The global directory, then the tree's, no directory before one above it.
LEMMA WalkOrder ==
  /\ Walk \in Seq(Dirs)
  /\ Len(Walk) = Len(DirOrder) + 1 /\ Walk[1] = Global
  /\ \A d \in TreeDirs : \E i \in 2 .. Len(Walk) : Walk[i] = d
  /\ \A i, j \in 1 .. Len(Walk) : i < j => Before(Walk[i], Walk[j])
<1>1. /\ DirOrder \in Seq(Seq(Seq(STRING))) /\ Len(DirOrder) \in Nat
      /\ \A i, j \in 1 .. Len(DirOrder) :
           i < j => DirOrder[i] # DirOrder[j] /\ ~IsStrictPrefix(DirOrder[j], DirOrder[i])
  BY RulesAssumption
<1>2. DirOrder \in Seq(Dirs) /\ \A i \in 1 .. Len(DirOrder) : DirOrder[i] \in TreeDirs
  BY <1>1 DEF Dirs, TreeDirs, ToSet
<1>3. Global \in Dirs /\ <<Global>> \in Seq(Dirs) /\ Len(<<Global>>) = 1
  BY DEF Dirs
<1>4. /\ Walk \in Seq(Dirs) /\ Len(Walk) = Len(DirOrder) + 1 /\ Walk[1] = Global
      /\ \A i \in 2 .. Len(Walk) : Walk[i] = DirOrder[i - 1]
  BY <1>1, <1>2, <1>3 DEF Walk
<1>5. ASSUME NEW d \in TreeDirs PROVE \E i \in 2 .. Len(Walk) : Walk[i] = d
  <2>1. PICK k \in 1 .. Len(DirOrder) : DirOrder[k] = d
    BY <1>1 DEF TreeDirs, ToSet
  <2>2. k + 1 \in 2 .. Len(Walk) /\ (k + 1) - 1 = k
    BY <1>1, <1>4
  <2> QED BY <2>1, <2>2, <1>4
<1>6. ASSUME NEW i \in 1 .. Len(Walk), NEW j \in 1 .. Len(Walk), i < j PROVE Before(Walk[i], Walk[j])
  <2>1. j \in 2 .. Len(Walk) /\ j - 1 \in 1 .. Len(DirOrder)
    BY <1>1, <1>4, <1>6
  <2>2. Walk[j] = DirOrder[j - 1] /\ Walk[j] \in TreeDirs
    BY <2>1, <1>2, <1>4
  <2>3. Walk[j] # Global
    BY <2>2, RulesAssumption
  <2>4. CASE i = 1
    BY <2>3, <2>4, <1>4 DEF Before
  <2>5. CASE i # 1
    <3>1. i \in 2 .. Len(Walk) /\ i - 1 \in 1 .. Len(DirOrder) /\ i - 1 < j - 1
      BY <1>1, <1>4, <1>6, <2>5
    <3>2. Walk[i] = DirOrder[i - 1]
      BY <3>1, <1>4
    <3> QED BY <3>1, <3>2, <2>1, <2>2, <2>3, <1>1 DEF Before
  <2> QED BY <2>4, <2>5
<1> QED
  BY <1>4, <1>5, <1>6

Compiles(levels) ==
  /\ levels \in Seq(LevelRecs)
  /\ Ordered(levels)

\* What Discover compiles: the files it finds, in the order of the walk, each
\* level from its own file; a poisoned level is among the errors, and every
\* file is found when every directory could be listed.
LEMMA DiscoveredLevels ==
  ASSUME files \in [Dirs -> PolicyFiles], NEW lost
  PROVE  /\ Compiles(Discovered(lost).levels)
         /\ \A i \in 1 .. Len(Discovered(lost).levels) :
              LET l == Discovered(lost).levels[i]
              IN l = LoadPolicyLevel(l.dir, files[l.dir]) /\ (l.poisoned => l.dir \in Discovered(lost).errs)
         /\ \A d \in Dirs : files[d] # NoFile /\ lost = {} =>
              \E i \in 1 .. Len(Discovered(lost).levels) : Discovered(lost).levels[i].dir = d
<1> DEFINE walked == {i \in DOMAIN Walk : i = 1 \/ \A u \in lost : ~IsStrictPrefix(u, Walk[i])}
           N      == {i \in walked : files[Walk[i]] # NoFile}
           found  == Pick(Walk, N)
           levels == [i \in 1 .. Len(found) |-> LoadPolicyLevel(found[i], files[found[i]])]
<1>1. /\ Discovered(lost).levels = levels
      /\ Discovered(lost).errs = lost \cup {levels[i].dir : i \in {j \in 1 .. Len(levels) : levels[j].poisoned}}
  BY DEF Discovered, Walk
<1>2. Walk \in Seq(Dirs) /\ Len(Walk) \in Nat /\ DOMAIN Walk = 1 .. Len(Walk)
  BY WalkOrder
<1>3. found \in Seq(Dirs) /\ \E h : Selects(found, Walk, N \cap (1 .. Len(Walk)), h)
  <2> HIDE DEF N
  <2> QED BY <1>2, PickPositions
<1>4. PICK h : Selects(found, Walk, N \cap (1 .. Len(Walk)), h)
  BY <1>3
<1>5. Len(found) \in Nat /\ \A i \in 1 .. Len(found) : found[i] \in Dirs
  BY <1>3, Element, Zenon
<1> HIDE DEF N, found
<1>6. Len(levels) = Len(found) /\ \A i \in 1 .. Len(found) :
        /\ levels[i] = LoadPolicyLevel(found[i], files[found[i]])
        /\ levels[i] \in LevelRecs /\ levels[i].dir = found[i]
  <2>1. Len(levels) = Len(found)
    BY <1>5
  <2>2. ASSUME NEW i \in 1 .. Len(found)
        PROVE  LoadPolicyLevel(found[i], files[found[i]]) \in LevelRecs /\ LoadPolicyLevel(found[i], files[found[i]]).dir = found[i]
    <3>1. found[i] \in Dirs /\ files[found[i]] \in PolicyFiles
      BY <1>5
    <3> QED BY <3>1, LoadType
  <2> QED BY <2>1, <2>2
<1>7. levels \in Seq(LevelRecs)
  BY <1>5, <1>6
<1> HIDE DEF levels
<1>8. Ordered(levels)
  <2>1. ASSUME NEW i \in 1 .. Len(found), NEW j \in 1 .. Len(found), i < j PROVE Before(found[i], found[j])
    <3>1. h[i] \in 1 .. Len(Walk) /\ h[j] \in 1 .. Len(Walk) /\ h[i] < h[j]
      BY <1>4, <2>1 DEF Selects
    <3>2. found[i] = Walk[h[i]] /\ found[j] = Walk[h[j]]
      BY <1>4 DEF Selects
    <3> QED BY <3>1, <3>2, WalkOrder
  <2> QED BY <2>1, <1>6 DEF Ordered
<1>9. ASSUME NEW i \in 1 .. Len(levels)
      PROVE  /\ levels[i] = LoadPolicyLevel(levels[i].dir, files[levels[i].dir])
             /\ levels[i].poisoned => levels[i].dir \in Discovered(lost).errs
  <2>1. levels[i] = LoadPolicyLevel(levels[i].dir, files[levels[i].dir])
    BY <1>6
  <2> QED BY <2>1, <1>1
<1>10. ASSUME NEW d \in Dirs, files[d] # NoFile, lost = {} PROVE \E i \in 1 .. Len(levels) : levels[i].dir = d
  <2>1. PICK k \in 1 .. Len(Walk) : Walk[k] = d
    <3>1. CASE d = Global
      <4>1. 1 \in 1 .. Len(Walk) /\ Walk[1] = Global
        BY <1>2, WalkOrder, RulesAssumption
      <4> QED BY <3>1, <4>1
    <3>2. CASE d \in TreeDirs
      <4>1. PICK i \in 2 .. Len(Walk) : Walk[i] = d
        BY <3>2, WalkOrder
      <4>2. i \in 1 .. Len(Walk)
        BY <1>2
      <4> QED BY <4>1, <4>2
    <3> QED BY <3>1, <3>2 DEF Dirs
  <2>2. k \in N \cap (1 .. Len(Walk))
    BY <2>1, <1>10, <1>2 DEF N
  <2>3. PICK i \in 1 .. Len(found) : h[i] = k
    BY <1>4, <2>2 DEF Selects
  <2>4. found[i] = d
    BY <1>4, <2>1, <2>3 DEF Selects
  <2> QED BY <2>4, <1>6
<1> QED
  BY <1>1, <1>7, <1>8, <1>9, <1>10 DEF Compiles

-----------------------------------------------------------------------------
(* How a verdict comes about. *)

VerdictRecs == [hidden : BOOLEAN, floor : BOOLEAN, poisoned : BOOLEAN, blocked : SUBSET (Dirs \X Nat)]

LineRun(f, l, s, rel, isDir) ==
  /\ f[0] = s
  /\ \A k \in 1 .. Len(l.patterns) : f[k] = AtLine(l, l.patterns[k], f[k - 1], rel, isDir)

LevelRun(f, levels, path, isDir) ==
  /\ f[0] = NoVerdict
  /\ \A k \in 1 .. Len(levels) :
       f[k] = IF Applicable(levels[k], path) THEN AtLevel(levels[k], f[k - 1], path, isDir) ELSE f[k - 1]

\* A line leaves a verdict.
LEMMA LineType ==
  ASSUME NEW l \in LevelRecs, NEW p \in LineRecs, NEW s \in VerdictRecs, NEW rel, NEW isDir
  PROVE  AtLine(l, p, s, rel, isDir) \in VerdictRecs
<1>1. l.dir \in Dirs /\ p.line \in Nat /\ <<l.dir, p.line>> \in Dirs \X Nat
  BY DEF LevelRecs, LineRecs
<1>2. Negate(l, s, p.line) \in VerdictRecs
  BY <1>1 DEF Negate, VerdictRecs
<1>3. [s EXCEPT !.hidden = TRUE] \in VerdictRecs
  BY DEF VerdictRecs
<1> QED
  BY <1>2, <1>3 DEF AtLine

\* The lines of a level, one step each.
LEMMA LineSteps ==
  ASSUME NEW l \in LevelRecs, NEW s \in VerdictRecs, NEW rel, NEW isDir
  PROVE  \E f \in [0 .. Len(l.patterns) -> VerdictRecs] :
           LineRun(f, l, s, rel, isDir) /\ AtLines(l, s, rel, isDir) = f[Len(l.patterns)]
<1> DEFINE n == Len(l.patterns)
           Body(f) == [k \in 0 .. n |-> IF k = 0 THEN s ELSE AtLine(l, l.patterns[k], f[k - 1], rel, isDir)]
           st == [p \in VerdictRecs \X (1 .. n) |-> AtLine(l, l.patterns[p[2]], p[1], rel, isDir)]
           after == CHOOSE f : f = Body(f)
<1>1. n \in Nat /\ \A k \in 1 .. n : l.patterns[k] \in LineRecs
  <2>1. l.patterns \in Seq(LineRecs)
    BY DEF LevelRecs
  <2> QED BY <2>1, Element, Zenon
<1>2. \A v \in VerdictRecs, k \in 1 .. n : AtLine(l, l.patterns[k], v, rel, isDir) \in VerdictRecs
  BY <1>1, LineType
<1>3. st \in [VerdictRecs \X (1 .. n) -> VerdictRecs]
  BY <1>2
<1>4. \A v \in VerdictRecs, k \in 1 .. n : st[<<v, k>>] = AtLine(l, l.patterns[k], v, rel, isDir)
  OBVIOUS
<1>5. PICK f \in [0 .. n -> VerdictRecs] : Obeys(f, n, s, st)
  <2> HIDE DEF st, n
  <2> QED BY <1>1, <1>3, Recursion, Zenon
<1>6. f[0] = s /\ \A k \in 1 .. n : f[k] = AtLine(l, l.patterns[k], f[k - 1], rel, isDir)
  <2> HIDE DEF st, n
  <2>1. \A k \in 1 .. n : k - 1 \in 0 .. n
    BY <1>1
  <2>2. \A k \in 1 .. n : f[k - 1] \in VerdictRecs
    BY <2>1
  <2> QED BY <1>4, <1>5, <2>2 DEF Obeys
<1>7. f = Body(f)
  <2>1. ASSUME NEW k \in 0 .. n PROVE f[k] = Body(f)[k]
    <3>1. k = 0 \/ k \in 1 .. n
      BY <1>1
    <3> QED BY <3>1, <1>6
  <2> QED BY <2>1
<1>8. after = Body(after)
  <2> HIDE DEF Body
  <2> QED BY <1>7
<1>9. AtLines(l, s, rel, isDir) = after[n]
  BY DEF AtLines
<1> HIDE DEF after
<1>10. after[0] = s /\ \A k \in 1 .. n : after[k] = AtLine(l, l.patterns[k], after[k - 1], rel, isDir)
  <2>1. 0 \in 0 .. n /\ \A k \in 1 .. n : k \in 0 .. n /\ k # 0
    BY <1>1
  <2> QED BY <2>1, <1>8
<1>11. after = [k \in 0 .. n |-> after[k]]
  BY <1>8
<1> DEFINE G == {k \in 0 .. n : after[k] \in VerdictRecs}
<1>12. 0 .. n \subseteq G
  <2> HIDE DEF n
  <2>1. 0 \in G
    <3>1. 0 \in 0 .. n
      BY <1>1
    <3> QED BY <3>1, <1>10
  <2>2. ASSUME NEW k \in 0 .. n - 1, k \in G PROVE k + 1 \in G
    <3>1. k + 1 \in 1 .. n /\ k + 1 \in 0 .. n /\ (k + 1) - 1 = k
      BY <1>1
    <3>2. after[k + 1] = AtLine(l, l.patterns[k + 1], after[k], rel, isDir)
      BY <1>10, <3>1
    <3>3. after[k + 1] \in VerdictRecs
      BY <3>1, <3>2, <2>2, <1>2
    <3> QED BY <3>1, <3>3
  <2> HIDE DEF G
  <2> QED BY <1>1, <2>1, <2>2, UpTo
<1>13. after \in [0 .. n -> VerdictRecs]
  BY <1>11, <1>12
<1>14. LineRun(after, l, s, rel, isDir)
  BY <1>10 DEF LineRun
<1> QED
  BY <1>9, <1>13, <1>14

\* A run over the lines of l and its result.
Lined(f, l, s, rel, isDir) ==
  /\ f \in [0 .. Len(l.patterns) -> VerdictRecs]
  /\ LineRun(f, l, s, rel, isDir)
  /\ AtLines(l, s, rel, isDir) = f[Len(l.patterns)]

\* The same as a run, with its steps spelt out.
LEMMA LinesRun ==
  ASSUME NEW l \in LevelRecs, NEW s \in VerdictRecs, NEW rel, NEW isDir
  PROVE  \E f : Lined(f, l, s, rel, isDir)
<1>1. PICK f \in [0 .. Len(l.patterns) -> VerdictRecs] :
        LineRun(f, l, s, rel, isDir) /\ AtLines(l, s, rel, isDir) = f[Len(l.patterns)]
  BY LineSteps, Zenon
<1>2. Lined(f, l, s, rel, isDir)
  BY <1>1 DEF Lined
<1> QED
  BY <1>2

\* A line of l that matches, and whose glob's negation is n.
Hit(l, n, rel, isDir) ==
  \E i \in 1 .. Len(l.patterns) : l.patterns[i].glob.neg = n /\ Matches(l.patterns[i].glob, rel, isDir)

\* What the lines of l can do to the verdict s before them, t being the one
\* after them: a hidden path shows again only by a negation that the floor
\* does not stop, and a line is stopped only by the floor.
LineEffect(l, s, t, rel, isDir) ==
  /\ t \in VerdictRecs
  /\ t.floor = s.floor /\ t.poisoned = s.poisoned
  /\ s.hidden /\ ~t.hidden => (l.dir = Global \/ ~s.floor) /\ Hit(l, TRUE, rel, isDir)
  /\ ~s.hidden /\ t.hidden => Hit(l, FALSE, rel, isDir)
  /\ t.blocked # s.blocked => l.dir # Global /\ s.floor

\* What the lines of a level do to a verdict together: what ends up hidden was
\* hidden or is matched by a hide line, what ends up shown was shown or is
\* matched by an allow line the floor did not stop.
LEMMA LineEffects ==
  ASSUME NEW l \in LevelRecs, NEW s \in VerdictRecs, NEW rel, NEW isDir
  PROVE  LineEffect(l, s, AtLines(l, s, rel, isDir), rel, isDir)
<1> DEFINE n == Len(l.patterns)
<1>1. n \in Nat /\ \A k \in 1 .. n : l.patterns[k] \in LineRecs
  <2>1. l.patterns \in Seq(LineRecs)
    BY DEF LevelRecs
  <2> QED BY <2>1, Element, Zenon
<1>2. PICK f \in [0 .. n -> VerdictRecs] : LineRun(f, l, s, rel, isDir) /\ AtLines(l, s, rel, isDir) = f[n]
  BY LineSteps, Zenon
<1>3. f[0] = s /\ \A k \in 1 .. n : f[k] = AtLine(l, l.patterns[k], f[k - 1], rel, isDir)
  BY <1>2 DEF LineRun
<1> DEFINE G == {k \in 0 .. n : LineEffect(l, s, f[k], rel, isDir)}
<1> HIDE DEF n
<1>4. 0 \in G
  <2>1. LineEffect(l, s, s, rel, isDir)
    BY DEF LineEffect
  <2>2. 0 \in 0 .. n
    BY <1>1
  <2> QED BY <2>1, <2>2, <1>3
<1>5. ASSUME NEW k \in 0 .. n - 1, k \in G PROVE k + 1 \in G
  <2>1. k + 1 \in 1 .. n /\ k + 1 \in 0 .. n /\ k \in 0 .. n /\ (k + 1) - 1 = k
    BY <1>1
  <2> DEFINE p == l.patterns[k + 1]
             u == f[k]
             t == f[k + 1]
  <2>2. p \in LineRecs /\ u \in VerdictRecs /\ t \in VerdictRecs /\ LineEffect(l, s, u, rel, isDir)
    BY <2>1, <1>1, <1>5
  <2>3. t = AtLine(l, p, u, rel, isDir)
    BY <2>1, <1>3
  <2>4. Matches(p.glob, rel, isDir) => Hit(l, p.glob.neg, rel, isDir)
    BY <2>1 DEF Hit, n
  <2>5. p.glob.neg \in BOOLEAN
    BY <2>2 DEF LineRecs, Globs
  <2> HIDE DEF p, u, t
  <2>6. CASE ~Matches(p.glob, rel, isDir)
    <3>1. t = u
      BY <2>3, <2>6 DEF AtLine
    <3> QED BY <3>1, <2>1, <2>2 DEF t
  <2>7. CASE Matches(p.glob, rel, isDir) /\ p.glob.neg
    <3>1. t = Negate(l, u, p.line)
      BY <2>3, <2>7 DEF AtLine
    <3>2. Hit(l, TRUE, rel, isDir)
      BY <2>4, <2>5, <2>7
    <3>3. CASE l.dir # Global /\ u.floor
      <4>1. t.hidden = u.hidden /\ t.floor = u.floor /\ t.poisoned = u.poisoned
        BY <3>1, <3>3, <2>2 DEF Negate, VerdictRecs
      <4>2. LineEffect(l, s, t, rel, isDir)
        BY <4>1, <3>3, <2>2 DEF LineEffect
      <4> QED BY <4>2, <2>1 DEF t
    <3>4. CASE ~(l.dir # Global /\ u.floor)
      <4>1. t.hidden = FALSE /\ t.floor = u.floor /\ t.poisoned = u.poisoned /\ t.blocked = u.blocked
        BY <3>1, <3>4, <2>2 DEF Negate, VerdictRecs
      <4>2. LineEffect(l, s, t, rel, isDir)
        BY <4>1, <3>2, <3>4, <2>2 DEF LineEffect
      <4> QED BY <4>2, <2>1 DEF t
    <3> QED BY <3>3, <3>4
  <2>8. CASE Matches(p.glob, rel, isDir) /\ ~p.glob.neg
    <3>1. t = [u EXCEPT !.hidden = TRUE]
      BY <2>3, <2>8 DEF AtLine
    <3>2. Hit(l, FALSE, rel, isDir)
      BY <2>4, <2>5, <2>8
    <3>3. t.hidden = TRUE /\ t.floor = u.floor /\ t.poisoned = u.poisoned /\ t.blocked = u.blocked
      BY <3>1, <2>2 DEF VerdictRecs
    <3>4. LineEffect(l, s, t, rel, isDir)
      BY <3>2, <3>3, <2>2 DEF LineEffect
    <3> QED BY <3>4, <2>1 DEF t
  <2> QED BY <2>6, <2>7, <2>8
<1>6. 0 .. n \subseteq G
  <2> HIDE DEF G
  <2> QED BY <1>1, <1>4, <1>5, UpTo
<1>7. n \in 0 .. n
  BY <1>1
<1>8. LineEffect(l, s, f[n], rel, isDir)
  BY <1>6, <1>7
<1> QED
  BY <1>2, <1>8 DEF n

\* The same of a whole level.
LevelEffect(l, s, t, path, isDir) ==
  /\ t \in VerdictRecs
  /\ l.poisoned => t.hidden
  /\ t.poisoned => s.poisoned \/ l.poisoned
  /\ ~s.hidden /\ t.hidden => l.poisoned \/ Hit(l, FALSE, RelativeTo(l, path), isDir)
  /\ l.dir = Global /\ ~s.floor => t.floor = t.hidden /\ t.blocked = s.blocked
  /\ l.dir # Global =>
       /\ t.floor = s.floor
       /\ t.blocked # s.blocked => s.floor
       /\ s.hidden /\ ~t.hidden => ~s.floor /\ ~l.poisoned /\ Hit(l, TRUE, RelativeTo(l, path), isDir)

\* What a level does to a verdict: its lines, its poison, the floor.
LEMMA LevelEffects ==
  ASSUME NEW l \in LevelRecs, NEW s \in VerdictRecs, NEW path, NEW isDir
  PROVE  LevelEffect(l, s, AtLevel(l, s, path, isDir), path, isDir)
<1> DEFINE rel == RelativeTo(l, path)
           after == AtLines(l, s, rel, isDir)
           t == AtLevel(l, s, path, isDir)
<1>1. LineEffect(l, s, after, rel, isDir)
  <2> HIDE DEF rel
  <2> QED BY LineEffects
<1>2. t = IF l.poisoned THEN [s EXCEPT !.hidden = TRUE, !.poisoned = TRUE, !.floor = @ \/ l.dir = Global]
          ELSE IF l.dir = Global THEN [after EXCEPT !.floor = after.hidden]
          ELSE after
  BY DEF AtLevel, Floored
<1> HIDE DEF rel, after, t
<1>3. l.poisoned \in BOOLEAN
  BY DEF LevelRecs
<1>4. CASE l.poisoned
  <2>1. t = [s EXCEPT !.hidden = TRUE, !.poisoned = TRUE, !.floor = s.floor \/ l.dir = Global]
    BY <1>2, <1>4
  <2>2. t.hidden = TRUE /\ t.poisoned = TRUE /\ t.floor = (s.floor \/ l.dir = Global) /\ t.blocked = s.blocked /\ t \in VerdictRecs
    BY <2>1 DEF VerdictRecs
  <2>3. s.floor \in BOOLEAN
    BY DEF VerdictRecs
  <2> QED BY <2>2, <2>3, <1>4 DEF LevelEffect, t
<1>5. CASE ~l.poisoned /\ l.dir = Global
  <2>1. t = [after EXCEPT !.floor = after.hidden] /\ after \in VerdictRecs
    BY <1>1, <1>2, <1>5 DEF LineEffect
  <2>2. t.hidden = after.hidden /\ t.poisoned = after.poisoned /\ t.floor = after.hidden /\ t.blocked = after.blocked /\ t \in VerdictRecs
    BY <2>1 DEF VerdictRecs
  <2> QED BY <2>2, <1>1, <1>5 DEF LevelEffect, LineEffect, t, rel
<1>6. CASE ~l.poisoned /\ l.dir # Global
  <2>1. t = after
    BY <1>2, <1>6
  <2> QED BY <2>1, <1>1, <1>6 DEF LevelEffect, LineEffect, t, rel
<1> QED
  BY <1>3, <1>4, <1>5, <1>6

\* The levels, one step each.
LEMMA LevelSteps ==
  ASSUME NEW levels \in Seq(LevelRecs), NEW path, NEW isDir
  PROVE  \E f \in [0 .. Len(levels) -> VerdictRecs] :
           LevelRun(f, levels, path, isDir) /\ ResolveIgnore(levels, path, isDir) = f[Len(levels)]
<1> DEFINE n == Len(levels)
           at(s, k) == IF Applicable(levels[k], path) THEN AtLevel(levels[k], s, path, isDir) ELSE s
           Body(f) == [k \in 0 .. n |->
              IF k = 0 THEN NoVerdict
              ELSE IF Applicable(levels[k], path) THEN AtLevel(levels[k], f[k - 1], path, isDir)
              ELSE f[k - 1]]
           st == [p \in VerdictRecs \X (1 .. n) |-> at(p[1], p[2])]
           verdict == CHOOSE f : f = Body(f)
<1>1. n \in Nat /\ \A k \in 1 .. n : levels[k] \in LevelRecs
  BY Element, Zenon
<1>2. \A v \in VerdictRecs, k \in 1 .. n : at(v, k) \in VerdictRecs
  <2>1. ASSUME NEW v \in VerdictRecs, NEW k \in 1 .. n PROVE AtLevel(levels[k], v, path, isDir) \in VerdictRecs
    BY <1>1, LevelEffects DEF LevelEffect
  <2> QED BY <2>1
<1>3. NoVerdict \in VerdictRecs
  BY DEF NoVerdict, VerdictRecs
<1>4. st \in [VerdictRecs \X (1 .. n) -> VerdictRecs]
  <2> HIDE DEF at
  <2> QED BY <1>2
<1>5. \A v \in VerdictRecs, k \in 1 .. n : st[<<v, k>>] = at(v, k)
  <2> HIDE DEF at
  <2> QED OBVIOUS
<1>6. PICK f \in [0 .. n -> VerdictRecs] : Obeys(f, n, NoVerdict, st)
  <2> HIDE DEF st, n
  <2> QED BY <1>1, <1>3, <1>4, Recursion, Zenon
<1>7. f[0] = NoVerdict /\ \A k \in 1 .. n : f[k] = at(f[k - 1], k)
  <2> HIDE DEF st, n, at
  <2>1. \A k \in 1 .. n : k - 1 \in 0 .. n
    BY <1>1
  <2>2. \A k \in 1 .. n : f[k - 1] \in VerdictRecs
    BY <2>1
  <2> QED BY <1>5, <1>6, <2>2 DEF Obeys
<1>8. f = Body(f)
  <2>1. ASSUME NEW k \in 0 .. n PROVE f[k] = Body(f)[k]
    <3>1. k = 0 \/ k \in 1 .. n
      BY <1>1
    <3> QED BY <3>1, <1>7
  <2> QED BY <2>1
<1>9. verdict = Body(verdict)
  <2> HIDE DEF Body
  <2> QED BY <1>8
<1>10. ResolveIgnore(levels, path, isDir) = verdict[n]
  BY DEF ResolveIgnore
<1> HIDE DEF verdict
<1>11. verdict[0] = NoVerdict /\ \A k \in 1 .. n : verdict[k] = at(verdict[k - 1], k)
  <2>1. 0 \in 0 .. n /\ \A k \in 1 .. n : k \in 0 .. n /\ k # 0
    BY <1>1
  <2> QED BY <2>1, <1>9
<1>12. verdict = [k \in 0 .. n |-> verdict[k]]
  BY <1>9
<1> DEFINE G == {k \in 0 .. n : verdict[k] \in VerdictRecs}
<1>13. 0 .. n \subseteq G
  <2> HIDE DEF n, at
  <2>1. 0 \in G
    <3>1. 0 \in 0 .. n
      BY <1>1
    <3> QED BY <3>1, <1>3, <1>11
  <2>2. ASSUME NEW k \in 0 .. n - 1, k \in G PROVE k + 1 \in G
    <3>1. k + 1 \in 1 .. n /\ k + 1 \in 0 .. n /\ (k + 1) - 1 = k
      BY <1>1
    <3>2. verdict[k + 1] = at(verdict[k], k + 1)
      BY <1>11, <3>1
    <3>3. verdict[k + 1] \in VerdictRecs
      BY <3>1, <3>2, <2>2, <1>2
    <3> QED BY <3>1, <3>3
  <2> HIDE DEF G
  <2> QED BY <1>1, <2>1, <2>2, UpTo
<1>14. verdict \in [0 .. n -> VerdictRecs]
  BY <1>12, <1>13
<1>15. LevelRun(verdict, levels, path, isDir)
  BY <1>11 DEF LevelRun
<1> QED
  BY <1>10, <1>14, <1>15

\* The global level comes first or not at all.
LEMMA GlobalFirst ==
  ASSUME NEW levels, Compiles(levels), NEW k \in 1 .. Len(levels), k # 1
  PROVE  levels[k].dir # Global
<1>1. Len(levels) \in Nat
  BY DEF Compiles
<1>2. 1 \in 1 .. Len(levels) /\ 1 < k
  BY <1>1
<1>3. Before(levels[1].dir, levels[k].dir)
  BY <1>2 DEF Compiles, Ordered
<1> QED
  BY <1>3 DEF Before

\* What is behind a verdict at every level on the way to it.
Founded(v, levels, k) ==
  /\ v.floor => v.hidden
  /\ v.blocked # {} => v.floor
  /\ v.poisoned => \E i \in 1 .. k : levels[i].poisoned

\* In a run, the floor holds only what is hidden, only the floor blocks a negation,
\* and poison comes from a poisoned level.
LEMMA VerdictsFounded ==
  ASSUME NEW levels, Compiles(levels), NEW path, NEW isDir,
         NEW f \in [0 .. Len(levels) -> VerdictRecs], LevelRun(f, levels, path, isDir)
  PROVE  \A k \in 0 .. Len(levels) : Founded(f[k], levels, k)
<1> DEFINE n == Len(levels)
           G == {k \in 0 .. n : Founded(f[k], levels, k)}
<1>1. n \in Nat /\ \A k \in 1 .. n : levels[k] \in LevelRecs
  <2>1. levels \in Seq(LevelRecs)
    BY DEF Compiles
  <2> QED BY <2>1, Element, Zenon
<1>2. f[0] = NoVerdict /\ \A k \in 1 .. n :
        f[k] = IF Applicable(levels[k], path) THEN AtLevel(levels[k], f[k - 1], path, isDir) ELSE f[k - 1]
  BY DEF LevelRun
<1> HIDE DEF n
<1>3. 0 \in G
  <2>1. Founded(NoVerdict, levels, 0) /\ 0 \in 0 .. n
    BY <1>1 DEF Founded, NoVerdict
  <2> QED BY <2>1, <1>2
<1>4. ASSUME NEW k \in 0 .. n - 1, k \in G PROVE k + 1 \in G
  <2>1. k + 1 \in 1 .. n /\ k + 1 \in 0 .. n /\ k \in 0 .. n /\ (k + 1) - 1 = k /\ k \in Nat
    BY <1>1
  <2> DEFINE l == levels[k + 1]
             s == f[k]
             t == f[k + 1]
  <2>2. l \in LevelRecs /\ s \in VerdictRecs /\ Founded(s, levels, k)
    BY <2>1, <1>1, <1>4 DEF n
  <2>3. t = IF Applicable(l, path) THEN AtLevel(l, s, path, isDir) ELSE s
    BY <2>1, <1>2
  <2>4. 1 .. k + 1 = (1 .. k) \cup {k + 1}
    BY <2>1
  <2>5. CASE t = s
    <3>1. Founded(s, levels, k + 1)
      BY <2>2, <2>4 DEF Founded
    <3> QED BY <3>1, <2>5, <2>1
  <2>6. CASE t = AtLevel(l, s, path, isDir)
    <3>1. LevelEffect(l, s, t, path, isDir)
      BY <2>2, <2>6, LevelEffects
    <3>2. l.dir = Global => ~s.floor /\ s.blocked = {} /\ ~s.poisoned
      <4>1. l.dir = Global => k = 0
        BY <2>1, GlobalFirst DEF n
      <4> QED BY <4>1, <1>2 DEF NoVerdict
    <3>3. /\ s.hidden \in BOOLEAN /\ s.floor \in BOOLEAN /\ s.poisoned \in BOOLEAN
          /\ t.hidden \in BOOLEAN /\ t.floor \in BOOLEAN /\ t.poisoned \in BOOLEAN /\ l.poisoned \in BOOLEAN
      BY <2>2, <3>1 DEF VerdictRecs, LevelRecs, LevelEffect
    <3>4. t.poisoned => \E i \in 1 .. k + 1 : levels[i].poisoned
      BY <3>1, <2>2, <2>4 DEF LevelEffect, Founded
    <3> HIDE DEF l, s, t
    <3>5. t.floor => t.hidden
      BY <3>1, <3>2, <3>3, <2>2 DEF LevelEffect, Founded
    <3>6. t.blocked # {} => t.floor
      BY <3>1, <3>2, <3>3, <2>2 DEF LevelEffect, Founded
    <3>7. Founded(t, levels, k + 1)
      BY <3>4, <3>5, <3>6 DEF Founded, l
    <3> QED BY <3>7, <2>1 DEF t
  <2> QED BY <2>3, <2>5, <2>6
<1>5. 0 .. n \subseteq G
  <2> HIDE DEF G
  <2> QED BY <1>1, <1>3, <1>4, UpTo
<1> QED
  BY <1>5 DEF n

\* A path that is hidden after level j and shows after level m: the floor
\* is not there, and a level in between has a negation that matches.
LEMMA ShowsAgain ==
  ASSUME NEW levels, Compiles(levels), NEW path, NEW isDir,
         NEW f \in [0 .. Len(levels) -> VerdictRecs], LevelRun(f, levels, path, isDir),
         NEW m \in 1 .. Len(levels), NEW j \in 1 .. m, f[j].hidden, ~f[m].hidden
  PROVE  /\ ~f[j].floor
         /\ \E k \in j + 1 .. m :
              /\ levels[k].dir # Global /\ ~levels[k].poisoned /\ Applicable(levels[k], path)
              /\ Hit(levels[k], TRUE, RelativeTo(levels[k], path), isDir)
<1> DEFINE n == Len(levels)
           Again(k) == /\ levels[k].dir # Global /\ ~levels[k].poisoned /\ Applicable(levels[k], path)
                       /\ Hit(levels[k], TRUE, RelativeTo(levels[k], path), isDir)
           G == {d \in 0 .. m - j : f[j + d].floor = f[j].floor /\
                    (f[j + d].hidden \/ (~f[j].floor /\ \E k \in j + 1 .. j + d : Again(k)))}
<1>1. n \in Nat /\ m \in 1 .. n /\ j \in 1 .. m /\ m - j \in Nat /\ \A k \in 1 .. n : levels[k] \in LevelRecs
  <2>1. levels \in Seq(LevelRecs)
    BY DEF Compiles
  <2>2. n \in Nat /\ \A k \in 1 .. n : levels[k] \in LevelRecs
    BY <2>1, Element, Zenon
  <2> QED BY <2>2
<1>2. \A k \in 1 .. n :
        f[k] = IF Applicable(levels[k], path) THEN AtLevel(levels[k], f[k - 1], path, isDir) ELSE f[k - 1]
  BY DEF LevelRun
<1>3. f \in [0 .. n -> VerdictRecs] /\ f[j].hidden /\ ~f[m].hidden
  OBVIOUS
<1> HIDE DEF n, Again
<1>4. 0 \in G
  <2>1. 0 \in 0 .. m - j /\ j + 0 = j
    BY <1>1
  <2> QED BY <2>1, <1>3
<1>5. ASSUME NEW d \in 0 .. m - j - 1, d \in G PROVE d + 1 \in G
  <2> DEFINE i == j + d
             l == levels[i + 1]
             s == f[i]
             t == f[i + 1]
  <2>1. i \in 1 .. n /\ i \in 0 .. n /\ i + 1 \in 1 .. n /\ (i + 1) - 1 = i /\ i + 1 # 1 /\ d + 1 \in 0 .. m - j /\ j + (d + 1) = i + 1
    BY <1>1
  <2>2. l \in LevelRecs /\ s \in VerdictRecs
    BY <2>1, <1>1, <1>3
  <2>3. l.dir # Global
    BY <2>1, GlobalFirst DEF n
  <2>4. t = IF Applicable(l, path) THEN AtLevel(l, s, path, isDir) ELSE s
    BY <2>1, <1>2
  <2>5. s.floor = f[j].floor /\ (s.hidden \/ (~f[j].floor /\ \E k \in j + 1 .. i : Again(k)))
    BY <1>5
  <2>6. j + 1 .. i + 1 = (j + 1 .. i) \cup {i + 1}
    BY <1>1
  <2>7. SUFFICES t.floor = f[j].floor /\ (t.hidden \/ (~f[j].floor /\ \E k \in j + 1 .. i + 1 : Again(k)))
    <3> HIDE DEF i
    <3> QED BY <2>1
  <2> HIDE DEF i
  <2>8. CASE t = s
    BY <2>5, <2>6, <2>8
  <2>9. CASE Applicable(l, path) /\ t = AtLevel(l, s, path, isDir)
    <3>1. LevelEffect(l, s, t, path, isDir)
      BY <2>2, <2>9, LevelEffects
    <3>2. t.floor = s.floor /\ (s.hidden /\ ~t.hidden => ~s.floor /\ ~l.poisoned /\ Hit(l, TRUE, RelativeTo(l, path), isDir))
      BY <3>1, <2>3 DEF LevelEffect
    <3>3. s.hidden /\ ~t.hidden => ~s.floor /\ Again(i + 1)
      BY <3>2, <2>3, <2>9 DEF Again
    <3> HIDE DEF l, s, t
    <3> QED BY <3>2, <3>3, <2>5, <2>6
  <2> QED BY <2>4, <2>8, <2>9
<1>6. 0 .. m - j \subseteq G
  <2> HIDE DEF G
  <2> QED BY <1>1, <1>4, <1>5, UpTo
<1>7. m - j \in 0 .. m - j /\ j + (m - j) = m
  BY <1>1
<1>8. f[m].hidden \/ (~f[j].floor /\ \E k \in j + 1 .. m : Again(k))
  BY <1>6, <1>7
<1> QED
  BY <1>3, <1>8 DEF n, Again

-----------------------------------------------------------------------------
(* What Resolve answers. *)

Above(levels, path) == {a \in 1 .. Len(path) - 1 : ResolveIgnore(levels, SubSeq(path, 1, a), TRUE).hidden}
Bad(levels, path) == \E i \in DOMAIN MaskHits(levels, path) : MaskHits(levels, path)[i].err
Hides(levels, path, isDir) == Above(levels, path) # {} \/ ResolveIgnore(levels, path, isDir).hidden

\* The least element of a set of numbers is one of them.
LEMMA MinOf ==
  ASSUME NEW T, T \subseteq Nat, T # {}
  PROVE  Min(T) \in T
<1>1. \E n \in T : \A m \in T : n <= m
  BY Least
<1>2. (CHOOSE n \in T : \A m \in T : n <= m) \in T
  BY <1>1
<1> QED
  BY <1>2 DEF Min

\* The decision, its patterns, and where its verdict comes from.
LEMMA Resolves ==
  ASSUME NEW levels, NEW path \in Seq(Seq(STRING)), NEW isDir \in BOOLEAN
  PROVE  LET a == Resolve(levels, path, isDir)
             u == UnionPatterns(MaskHits(levels, path))
         IN /\ a.decision = "HIDDEN" <=> Hides(levels, path, isDir) \/ (~isDir /\ Bad(levels, path))
            /\ a.decision = "MASKED" <=> a.decision # "HIDDEN" /\ ~isDir /\ u # {}
            /\ a.decision = "MASKED" => a.pats = u
            /\ a.decision \in {"HIDDEN", "MASKED", "ALLOWED"}
            /\ \/ Above(levels, path) = {} /\ a.blocked = ResolveIgnore(levels, path, isDir).blocked
                  /\ (a.poisoned => ResolveIgnore(levels, path, isDir).poisoned \/ Bad(levels, path))
               \/ \E k \in Above(levels, path) : LET v == ResolveIgnore(levels, SubSeq(path, 1, k), TRUE)
                     IN a.blocked = v.blocked /\ (a.poisoned => v.poisoned)
<1> DEFINE above == {a \in DOMAIN Ancestors(path) : ResolveIgnore(levels, Ancestors(path)[a], TRUE).hidden}
           v     == IF above # {} THEN ResolveIgnore(levels, Ancestors(path)[Min(above)], TRUE)
                    ELSE ResolveIgnore(levels, path, isDir)
           hits  == MaskHits(levels, path)
           bad   == \E i \in DOMAIN hits : hits[i].err
           pats  == UnionPatterns(hits)
           Answer(d, poisoned, ps) == [decision |-> d, poisoned |-> poisoned, pats |-> ps, blocked |-> v.blocked]
           a     == Resolve(levels, path, isDir)
<1>1. a = IF v.hidden THEN Answer("HIDDEN", v.poisoned, {})
          ELSE IF isDir THEN Answer("ALLOWED", FALSE, {})
          ELSE IF bad THEN Answer("HIDDEN", TRUE, {})
          ELSE IF pats # {} THEN Answer("MASKED", FALSE, pats)
          ELSE Answer("ALLOWED", FALSE, {})
  BY DEF Resolve, Resolution
<1>2. DOMAIN Ancestors(path) = 1 .. Len(path) - 1 /\ \A k \in 1 .. Len(path) - 1 : Ancestors(path)[k] = SubSeq(path, 1, k)
  BY DEF Ancestors
<1>3. above = Above(levels, path)
  BY <1>2 DEF Above
<1>4. above \subseteq Nat
  <2>1. 1 .. Len(path) - 1 \subseteq Nat
    OBVIOUS
  <2>2. above \subseteq 1 .. Len(path) - 1
    BY <1>2, Zenon
  <2> QED BY <2>1, <2>2
<1> HIDE DEF above
<1>5. above # {} => Min(above) \in above
  BY <1>4, MinOf
<1>6. above # {} => v = ResolveIgnore(levels, SubSeq(path, 1, Min(above)), TRUE) /\ v.hidden
  BY <1>2, <1>3, <1>5 DEF Above
<1>7. above = {} => v = ResolveIgnore(levels, path, isDir)
  OBVIOUS
<1>8. v.hidden <=> Hides(levels, path, isDir)
  BY <1>3, <1>6, <1>7 DEF Hides
<1>9. bad <=> Bad(levels, path)
  BY DEF Bad
<1>10. pats = UnionPatterns(MaskHits(levels, path))
  OBVIOUS
<1> HIDE DEF v, hits, bad, pats
<1>11. /\ a.blocked = v.blocked
       /\ a.decision = "HIDDEN" <=> v.hidden \/ (~isDir /\ bad)
       /\ a.decision = "MASKED" <=> a.decision # "HIDDEN" /\ ~isDir /\ pats # {}
       /\ a.decision = "MASKED" => a.pats = pats
       /\ a.decision \in {"HIDDEN", "MASKED", "ALLOWED"}
       /\ a.poisoned => (v.hidden /\ v.poisoned) \/ (~v.hidden /\ bad)
  <2>1. CASE v.hidden
    <3>1. a = Answer("HIDDEN", v.poisoned, {})
      BY <1>1, <2>1
    <3> HIDE DEF a
    <3> QED BY <3>1, <2>1
  <2>2. CASE ~v.hidden /\ isDir
    <3>1. a = Answer("ALLOWED", FALSE, {})
      BY <1>1, <2>2
    <3> HIDE DEF a
    <3> QED BY <3>1, <2>2
  <2>3. CASE ~v.hidden /\ ~isDir /\ bad
    <3>1. a = Answer("HIDDEN", TRUE, {})
      BY <1>1, <2>3
    <3> HIDE DEF a
    <3> QED BY <3>1, <2>3
  <2>4. CASE ~v.hidden /\ ~isDir /\ ~bad /\ pats # {}
    <3>1. a = Answer("MASKED", FALSE, pats)
      BY <1>1, <2>4
    <3> HIDE DEF a
    <3> QED BY <3>1, <2>4
  <2>5. CASE ~v.hidden /\ ~isDir /\ ~bad /\ pats = {}
    <3>1. a = Answer("ALLOWED", FALSE, {})
      BY <1>1, <2>5
    <3> HIDE DEF a
    <3> QED BY <3>1, <2>5
  <2> QED BY <2>1, <2>2, <2>3, <2>4, <2>5
<1> HIDE DEF a
<1>12. CASE above = {}
  BY <1>3, <1>7, <1>8, <1>9, <1>10, <1>11, <1>12 DEF a
<1>13. CASE above # {}
  <2>1. Min(above) \in Above(levels, path) /\ v = ResolveIgnore(levels, SubSeq(path, 1, Min(above)), TRUE) /\ v.hidden
    BY <1>3, <1>5, <1>6, <1>13
  <2>2. a.blocked = v.blocked /\ (a.poisoned => v.poisoned)
    BY <2>1, <1>11
  <2> QED BY <2>1, <2>2, <1>8, <1>9, <1>10, <1>11 DEF a
<1> QED
  BY <1>12, <1>13

-----------------------------------------------------------------------------
(* The invariant. *)

Inv ==
  /\ files \in [Dirs -> PolicyFiles]
  /\ Compiles(rs.levels)
  /\ \A i \in 1 .. Len(rs.levels) : rs.levels[i].poisoned => rs.levels[i].dir \in rs.errs

\* There is no level before the first Discover.
LEMMA InitInv == Init => Inv
<1> SUFFICES ASSUME Init PROVE Inv
  OBVIOUS
<1>1. files \in [Dirs -> PolicyFiles]
  BY RulesAssumption DEF Init
<1>2. rs.levels = <<>>
  BY DEF Init
<1>3. Compiles(<<>>)
  BY DEF Compiles, Ordered
<1> QED
  BY <1>1, <1>2, <1>3 DEF Inv

\* An edit leaves the compiled levels alone; Discover compiles what it finds.
LEMMA NextInv == Inv /\ [Next]_vars => Inv'
<1> SUFFICES ASSUME Inv, [Next]_vars PROVE Inv'
  OBVIOUS
<1>1. ASSUME NEW d \in DOMAIN files, NEW c \in Contents[d], Edit(d, c) PROVE Inv'
  <2>1. d \in Dirs /\ c \in PolicyFiles
    BY RulesAssumption DEF Inv
  <2>2. files' \in [Dirs -> PolicyFiles] /\ rs' = rs
    BY <1>1, <2>1 DEF Inv, Edit
  <2> QED BY <2>2 DEF Inv
<1>2. ASSUME NEW lost \in Losses, Discover(lost) PROVE Inv'
  <2>1. files' = files /\ rs' = Discovered(lost)
    BY <1>2 DEF Discover
  <2>2. files \in [Dirs -> PolicyFiles]
    BY DEF Inv
  <2>3. /\ Compiles(Discovered(lost).levels)
        /\ \A i \in 1 .. Len(Discovered(lost).levels) :
             Discovered(lost).levels[i].poisoned => Discovered(lost).levels[i].dir \in Discovered(lost).errs
    BY <2>2, DiscoveredLevels
  <2> QED BY <2>1, <2>2, <2>3 DEF Inv
<1>3. CASE UNCHANGED vars
  BY <1>3 DEF vars, Inv
<1> QED
  BY <1>1, <1>2, <1>3 DEF Next

\* Every compiled rule set has its levels in the order of Discover's walk, the global
\* one first and no directory before one above it, and reports each poisoned level
\* among its errors.
THEOREM RuleSetInvariant == Spec => []Inv
  BY InitInv, NextInv, PTL DEF Spec

\* An entry's path has at least one name.
LEMMA EntryPaths ==
  ASSUME NEW e \in Entries
  PROVE  e.path \in Seq(Seq(STRING)) /\ Len(e.path) \in Nat \ {0} /\ e.isDir \in BOOLEAN
<1>1. e \in [path : Seq(Seq(STRING)) \ {<<>>}, isDir : BOOLEAN]
  BY EntriesAssumption
<1>2. e.path \in Seq(Seq(STRING)) /\ e.path # <<>> /\ e.isDir \in BOOLEAN
  BY <1>1
<1>3. Len(e.path) \in Nat /\ Len(e.path) # 0
  BY <1>2
<1> QED
  BY <1>2, <1>3

\* A prefix agrees position by position.
LEMMA PrefixElements ==
  ASSUME NEW X, NEW s \in Seq(X), NEW t \in Seq(X)
  PROVE  /\ IsPrefix(s, t) <=> Len(s) <= Len(t) /\ \A i \in 1 .. Len(s) : s[i] = t[i]
         /\ IsStrictPrefix(s, t) <=> Len(s) < Len(t) /\ \A i \in 1 .. Len(s) : s[i] = t[i]
<1>1. Len(s) \in Nat /\ Len(t) \in Nat
  OBVIOUS
<1>2. ASSUME Len(s) <= Len(t)
      PROVE  SubSeq(s, 1, Len(s)) = SubSeq(t, 1, Len(s)) <=> \A i \in 1 .. Len(s) : s[i] = t[i]
  <2> DEFINE u == SubSeq(s, 1, Len(s))
             w == SubSeq(t, 1, Len(s))
  <2>1. u \in Seq(X) /\ Len(u) = Len(s) /\ \A i \in 1 .. Len(s) : u[i] = s[i]
    BY <1>1
  <2>2. w \in Seq(X) /\ Len(w) = Len(s) /\ \A i \in 1 .. Len(s) : w[i] = t[i]
    BY <1>1, <1>2
  <2> HIDE DEF u, w
  <2>3. u = w => \A i \in 1 .. Len(s) : s[i] = t[i]
    BY <2>1, <2>2
  <2>4. (\A i \in 1 .. Len(s) : s[i] = t[i]) => u = w
    BY <2>1, <2>2, SeqEqual
  <2> QED BY <2>3, <2>4 DEF u, w
<1>3. IsPrefix(s, t) <=> Len(s) <= Len(t) /\ \A i \in 1 .. Len(s) : s[i] = t[i]
  BY <1>2 DEF IsPrefix
<1>4. (Len(s) = Len(t) /\ \A i \in 1 .. Len(s) : s[i] = t[i]) <=> s = t
  BY SeqEqual
<1> QED
  BY <1>1, <1>3, <1>4 DEF IsStrictPrefix

\* A directory that its rules or those of one above it hide.
LEMMA HidesBelow ==
  ASSUME NEW levels, NEW path \in Seq(Seq(STRING)), NEW m \in 1 .. Len(path) - 1,
         Hides(levels, SubSeq(path, 1, m), TRUE)
  PROVE  Above(levels, path) # {}
<1> DEFINE d == SubSeq(path, 1, m)
<1>1. m \in Nat /\ Len(path) \in Nat /\ d \in Seq(Seq(STRING)) /\ Len(d) = m /\ \A i \in 1 .. m : d[i] = path[i]
  OBVIOUS
<1>2. ASSUME NEW k \in 1 .. m PROVE SubSeq(d, 1, k) = SubSeq(path, 1, k)
  <2> DEFINE u == SubSeq(d, 1, k)
             w == SubSeq(path, 1, k)
  <2> HIDE DEF d
  <2>1. u \in Seq(Seq(STRING)) /\ Len(u) = k /\ \A i \in 1 .. k : u[i] = d[i]
    BY <1>1
  <2>2. w \in Seq(Seq(STRING)) /\ Len(w) = k /\ \A i \in 1 .. k : w[i] = path[i]
    BY <1>1
  <2>3. \A i \in 1 .. k : d[i] = path[i]
    BY <1>1
  <2> HIDE DEF u, w
  <2> QED BY <2>1, <2>2, <2>3, SeqEqual
<1> HIDE DEF d
<1>3. CASE Above(levels, d) # {}
  <2>1. PICK k \in 1 .. Len(d) - 1 : ResolveIgnore(levels, SubSeq(d, 1, k), TRUE).hidden
    BY <1>3 DEF Above
  <2>2. k \in 1 .. m /\ k \in 1 .. Len(path) - 1
    BY <1>1
  <2>3. ResolveIgnore(levels, SubSeq(path, 1, k), TRUE).hidden
    BY <1>2, <2>1, <2>2
  <2> QED BY <2>2, <2>3 DEF Above
<1>4. CASE ResolveIgnore(levels, d, TRUE).hidden
  BY <1>4 DEF Above, d
<1> QED
  BY <1>3, <1>4 DEF Hides, d

\* Below a hidden directory every entry is hidden.
LEMMA HiddenBelow ==
  ASSUME NEW levels, NEW d \in Entries, NEW e \in Entries, d.isDir,
         IsStrictPrefix(d.path, e.path), Resolve(levels, d.path, d.isDir).decision = "HIDDEN"
  PROVE  Resolve(levels, e.path, e.isDir).decision = "HIDDEN"
<1>1. /\ d.path \in Seq(Seq(STRING)) /\ Len(d.path) \in Nat \ {0} /\ d.isDir \in BOOLEAN
      /\ e.path \in Seq(Seq(STRING)) /\ Len(e.path) \in Nat \ {0} /\ e.isDir \in BOOLEAN
  BY EntryPaths
<1>2. Len(d.path) < Len(e.path) /\ \A i \in 1 .. Len(d.path) : d.path[i] = e.path[i]
  BY <1>1, PrefixElements
<1>3. Len(d.path) \in 1 .. Len(e.path) - 1
  BY <1>1, <1>2
<1>4. SubSeq(e.path, 1, Len(d.path)) = d.path
  <2> DEFINE u == SubSeq(e.path, 1, Len(d.path))
  <2>1. u \in Seq(Seq(STRING)) /\ Len(u) = Len(d.path) /\ \A i \in 1 .. Len(d.path) : u[i] = e.path[i]
    BY <1>1, <1>3
  <2> HIDE DEF u
  <2>2. \A i \in 1 .. Len(u) : u[i] = d.path[i]
    BY <1>2, <2>1
  <2>3. u = d.path
    BY <1>1, <2>1, <2>2, SeqEqual
  <2> QED BY <2>3 DEF u
<1>5. Hides(levels, d.path, d.isDir)
  BY <1>1, Resolves
<1>6. d.isDir = TRUE
  BY <1>1
<1>7. Above(levels, e.path) # {}
  BY <1>1, <1>3, <1>4, <1>5, <1>6, HidesBelow
<1> QED
  BY <1>1, <1>7, Resolves DEF Hides

\* The subtree property, of any rule set.
LEMMA HiddenSubtreeHolds == HiddenSubtree
<1> SUFFICES ASSUME NEW d \in Entries, NEW e \in Entries, d.isDir, IsStrictPrefix(d.path, e.path),
                    Answers(d).decision = "HIDDEN"
             PROVE  Answers(e).decision = "HIDDEN"
  BY DEF HiddenSubtree
<1> QED
  BY HiddenBelow DEF Answers

\* What is below a hidden directory is hidden, of any rules.
THEOREM NothingShowsBelowAHidden == Spec => []HiddenSubtree
  BY HiddenSubtreeHolds, PTL

-----------------------------------------------------------------------------
(* Broken policy files. *)

\* ResolveIgnore is the last verdict of a run through the levels.
LEMMA RunOf ==
  ASSUME NEW levels, Compiles(levels), NEW path, NEW isDir
  PROVE  \E f \in [0 .. Len(levels) -> VerdictRecs] :
           LevelRun(f, levels, path, isDir) /\ ResolveIgnore(levels, path, isDir) = f[Len(levels)]
<1>1. levels \in Seq(LevelRecs)
  BY DEF Compiles
<1> QED
  BY <1>1, LevelSteps, Zenon

\* What holds of every verdict holds of the last.
LEMMA VerdictFounded ==
  ASSUME NEW levels, Compiles(levels), NEW path, NEW isDir
  PROVE  /\ ResolveIgnore(levels, path, isDir) \in VerdictRecs
         /\ Founded(ResolveIgnore(levels, path, isDir), levels, Len(levels))
<1>1. Len(levels) \in 0 .. Len(levels)
  <2>1. Len(levels) \in Nat
    BY DEF Compiles
  <2> QED BY <2>1
<1>2. PICK f \in [0 .. Len(levels) -> VerdictRecs] :
        LevelRun(f, levels, path, isDir) /\ ResolveIgnore(levels, path, isDir) = f[Len(levels)]
  BY RunOf, Zenon
<1>3. \A k \in 0 .. Len(levels) : Founded(f[k], levels, k)
  BY <1>2, VerdictsFounded
<1> QED
  BY <1>1, <1>2, <1>3

\* A mask entry of one of the levels that applies to the path.
MaskHit(levels, path, x) ==
  \E i \in 1 .. Len(levels) : Applicable(levels[i], path) /\
    \E n \in DOMAIN levels[i].masks :
      /\ levels[i].masks[n].glob.ok
      /\ Matches(levels[i].masks[n].glob, RelativeTo(levels[i], path), FALSE)
      /\ levels[i].masks[n] = x

\* The mask entries that hit a path come from an applicable level and match it.
LEMMA HitsAreMasks ==
  ASSUME NEW levels, Compiles(levels), NEW path
  PROVE  /\ MaskHits(levels, path) \in Seq(MaskRecs)
         /\ \A x : Has(MaskHits(levels, path), x) <=> MaskHit(levels, path, x)
<1> DEFINE H(l) == {n \in DOMAIN l.masks : l.masks[n].glob.ok /\ Matches(l.masks[n].glob, RelativeTo(l, path), FALSE)}
           ss == [i \in 1 .. Len(levels) |->
                    IF Applicable(levels[i], path) THEN Pick(levels[i].masks, H(levels[i])) ELSE <<>>]
<1>1. MaskHits(levels, path) = FlattenSeq(ss)
  BY DEF MaskHits
<1>2. Len(levels) \in Nat /\ \A i \in 1 .. Len(levels) : levels[i] \in LevelRecs
  <2>1. levels \in Seq(LevelRecs)
    BY DEF Compiles
  <2> QED BY <2>1, Element, Zenon
<1>3. \A i \in 1 .. Len(levels) : levels[i].masks \in Seq(MaskRecs)
  BY <1>2 DEF LevelRecs
<1>4. ASSUME NEW t \in Seq(MaskRecs), NEW N, N \subseteq DOMAIN t
      PROVE  Pick(t, N) \in Seq(MaskRecs) /\ \A x : Has(Pick(t, N), x) <=> \E n \in N : t[n] = x
  <2>1. DOMAIN t = 1 .. Len(t) /\ N \cap (1 .. Len(t)) = N
    BY <1>4
  <2>2. Pick(t, N) \in Seq(MaskRecs) /\ \E h : Selects(Pick(t, N), t, N, h)
    BY <2>1, PickPositions
  <2>3. PICK h : Selects(Pick(t, N), t, N, h)
    BY <2>2
  <2>4. ASSUME NEW x, NEW i \in 1 .. Len(Pick(t, N)), Pick(t, N)[i] = x PROVE \E n \in N : t[n] = x
    <3>1. h[i] \in N /\ Pick(t, N)[i] = t[h[i]]
      BY <2>3 DEF Selects
    <3> QED BY <3>1, <2>4
  <2>5. ASSUME NEW n \in N PROVE \E i \in 1 .. Len(Pick(t, N)) : Pick(t, N)[i] = t[n]
    <3>1. PICK i \in 1 .. Len(Pick(t, N)) : h[i] = n
      BY <2>3 DEF Selects
    <3>2. Pick(t, N)[i] = t[h[i]]
      BY <2>3 DEF Selects
    <3> QED BY <3>1, <3>2
  <2> QED BY <2>2, <2>4, <2>5 DEF Has
<1>5. \A i \in 1 .. Len(levels) : H(levels[i]) \subseteq DOMAIN levels[i].masks
  OBVIOUS
<1>6. \A i \in 1 .. Len(levels) :
        /\ ss[i] \in Seq(MaskRecs)
        /\ \A x : Has(ss[i], x) <=> Applicable(levels[i], path) /\ \E n \in H(levels[i]) : levels[i].masks[n] = x
  <2>1. ASSUME NEW i \in 1 .. Len(levels)
        PROVE  /\ ss[i] \in Seq(MaskRecs)
               /\ \A x : Has(ss[i], x) <=> Applicable(levels[i], path) /\ \E n \in H(levels[i]) : levels[i].masks[n] = x
    <3>1. ss[i] = IF Applicable(levels[i], path) THEN Pick(levels[i].masks, H(levels[i])) ELSE <<>>
      OBVIOUS
    <3>2. CASE Applicable(levels[i], path)
      <4>1. ss[i] = Pick(levels[i].masks, H(levels[i]))
        BY <3>1, <3>2
      <4> HIDE DEF ss, H
      <4> QED BY <4>1, <3>2, <1>3, <1>4, <1>5
    <3>3. CASE ~Applicable(levels[i], path)
      <4>1. ss[i] = <<>> /\ <<>> \in Seq(MaskRecs) /\ \A x : ~Has(<<>>, x)
        BY <3>1, <3>3 DEF Has
      <4> HIDE DEF ss
      <4> QED BY <4>1, <3>3
    <3> QED BY <3>2, <3>3
  <2> QED BY <2>1
<1>7. ss \in Seq(Seq(MaskRecs)) /\ Len(ss) = Len(levels)
  <2>1. ss = [i \in 1 .. Len(levels) |-> ss[i]] /\ Len(levels) \in Nat
    BY <1>2
  <2>2. \A i \in 1 .. Len(levels) : ss[i] \in Seq(MaskRecs)
    BY <1>6
  <2> HIDE DEF ss
  <2> QED BY <2>1, <2>2
<1> HIDE DEF ss
<1>8. FlattenSeq(ss) \in Seq(MaskRecs) /\ \A x : Has(FlattenSeq(ss), x) <=> Among(ss, Len(levels), x)
  BY <1>7, Flattened
<1>9. \A x : Among(ss, Len(levels), x) <=> \E i \in 1 .. Len(levels) : Has(ss[i], x)
  BY DEF Among, Has
<1>10. \A x : Has(FlattenSeq(ss), x) <=>
         \E i \in 1 .. Len(levels) : Applicable(levels[i], path) /\ \E n \in H(levels[i]) : levels[i].masks[n] = x
  BY <1>6, <1>8, <1>9
<1> QED
  BY <1>1, <1>8, <1>10 DEF MaskHit

\* A poisoned answer has a poisoned level, which is among the errors, or a mask
\* entry with an error.
LEMMA PoisonReportedHolds == Inv => PoisonReported
<1> SUFFICES ASSUME Inv, NEW e \in Entries, Answers(e).poisoned PROVE HasErrors(rs)
  BY DEF PoisonReported
<1>1. e.path \in Seq(Seq(STRING)) /\ e.isDir \in BOOLEAN
  BY EntryPaths
<1>2. Compiles(rs.levels)
  BY DEF Inv
<1>3. ASSUME NEW i \in 1 .. Len(rs.levels), rs.levels[i].poisoned PROVE HasErrors(rs)
  <2>1. rs.levels[i].dir \in rs.errs
    BY <1>3 DEF Inv
  <2> QED BY <2>1 DEF HasErrors, DiscoverErrorFindings
<1>4. ASSUME NEW path, NEW isDir, ResolveIgnore(rs.levels, path, isDir).poisoned PROVE HasErrors(rs)
  <2>1. Founded(ResolveIgnore(rs.levels, path, isDir), rs.levels, Len(rs.levels))
    BY <1>2, VerdictFounded
  <2>2. PICK i \in 1 .. Len(rs.levels) : rs.levels[i].poisoned
    BY <1>4, <2>1 DEF Founded
  <2> QED BY <2>2, <1>3
<1>5. ASSUME Bad(rs.levels, e.path) PROVE HasErrors(rs)
  <2> DEFINE hits == MaskHits(rs.levels, e.path)
  <2>1. hits \in Seq(MaskRecs)
    BY <1>2, HitsAreMasks
  <2>2. PICK i \in DOMAIN hits : hits[i].err
    BY <1>5 DEF Bad
  <2>3. Has(hits, hits[i])
    BY <2>1 DEF Has
  <2>4. PICK k \in 1 .. Len(rs.levels) : \E n \in DOMAIN rs.levels[k].masks : rs.levels[k].masks[n] = hits[i]
    <3>1. \A x : Has(hits, x) => \E k \in 1 .. Len(rs.levels) : \E n \in DOMAIN rs.levels[k].masks : rs.levels[k].masks[n] = x
      <4>1. \A x : Has(hits, x) => MaskHit(rs.levels, e.path, x)
        BY <1>2, HitsAreMasks, Zenon
      <4> QED BY <4>1 DEF MaskHit
    <3> HIDE DEF hits
    <3> QED BY <2>3, <3>1
  <2>5. PICK n \in DOMAIN rs.levels[k].masks : rs.levels[k].masks[n].err
    BY <2>2, <2>4
  <2>6. DOMAIN rs.levels = 1 .. Len(rs.levels) /\ DOMAIN rs.levels[k].masks = 1 .. Len(rs.levels[k].masks)
    <3>1. rs.levels \in Seq(LevelRecs)
      BY <1>2 DEF Compiles
    <3>2. rs.levels[k] \in LevelRecs
      BY <3>1
    <3>3. rs.levels[k].masks \in Seq(MaskRecs)
      BY <3>2 DEF LevelRecs
    <3> QED BY <3>1, <3>3
  <2>7. rs.levels[k] \in MaskErrors(rs)
    BY <2>5, <2>6 DEF MaskErrors, ToSet
  <2> QED BY <2>7 DEF HasErrors
<1> QED
  <2>1. \/ ResolveIgnore(rs.levels, e.path, e.isDir).poisoned
        \/ Bad(rs.levels, e.path)
        \/ \E k \in Above(rs.levels, e.path) : ResolveIgnore(rs.levels, SubSeq(e.path, 1, k), TRUE).poisoned
    BY <1>1, Resolves DEF Answers
  <2> QED BY <2>1, <1>4, <1>5

\* What a broken configuration hides, the linter reports.
THEOREM BrokenRulesAreReported == Spec => []PoisonReported
  BY RuleSetInvariant, PoisonReportedHolds, PTL

\* A pattern that does not compile is a line that does not compile.
LEMMA PatternLine ==
  ASSUME NEW c \in PolicyFiles, NEW g \in ToSet(c.hide) \cup ToSet(c.allow), ~g.ok
  PROVE  \E l \in ToSet(Lines(c)) : ~l.glob.ok
<1> DEFINE neg == [i \in 1 .. Len(c.allow) |-> [c.allow[i] EXCEPT !.neg = TRUE]]
           globs == c.hide \o neg
           lines == [i \in 1 .. Len(globs) |-> [line |-> i, glob |-> globs[i]]]
<1>1. c.hide \in Seq(Globs) /\ c.allow \in Seq(Globs)
  BY DEF PolicyFiles
<1>2. Len(c.hide) \in Nat /\ Len(c.allow) \in Nat /\ \A i \in 1 .. Len(c.allow) : c.allow[i] \in Globs
  BY <1>1, Element, Zenon
<1>3. neg \in Seq(Globs) /\ Len(neg) = Len(c.allow) /\ \A i \in 1 .. Len(c.allow) : neg[i].ok = c.allow[i].ok
  <2>1. ASSUME NEW i \in 1 .. Len(c.allow)
        PROVE  [c.allow[i] EXCEPT !.neg = TRUE] \in Globs /\ [c.allow[i] EXCEPT !.neg = TRUE].ok = c.allow[i].ok
    <3>1. c.allow[i] \in Globs
      BY <1>2
    <3> QED BY <3>1 DEF Globs
  <2> QED BY <2>1, <1>2
<1> HIDE DEF neg
<1>4. /\ Len(globs) = Len(c.hide) + Len(neg)
      /\ \A i \in 1 .. Len(c.hide) : globs[i] = c.hide[i]
      /\ \A i \in 1 .. Len(neg) : globs[Len(c.hide) + i] = neg[i]
  <2> DEFINE hide == c.hide
  <2>1. hide \in Seq(Globs)
    BY <1>1
  <2> HIDE DEF hide
  <2>2. /\ Len(hide \o neg) = Len(hide) + Len(neg)
        /\ \A i \in 1 .. Len(hide) : (hide \o neg)[i] = hide[i]
        /\ \A i \in 1 .. Len(neg) : (hide \o neg)[Len(hide) + i] = neg[i]
    <3>1. neg \in Seq(Globs)
      BY <1>3
    <3>2. Len(hide \o neg) = Len(hide) + Len(neg)
      BY <2>1, <3>1
    <3>3. \A i \in 1 .. Len(hide) : (hide \o neg)[i] = hide[i]
      BY <2>1, <3>1
    <3>4. \A i \in 1 .. Len(neg) : (hide \o neg)[Len(hide) + i] = neg[i]
      BY <2>1, <3>1
    <3> QED BY <3>2, <3>3, <3>4
  <2> QED BY <2>2 DEF hide
<1>5. Lines(c) = lines
  BY DEF Lines, neg
<1> HIDE DEF globs
<1>6. \E i \in 1 .. Len(globs) : ~globs[i].ok
  <2>1. CASE g \in ToSet(c.hide)
    <3>1. PICK i \in 1 .. Len(c.hide) : c.hide[i] = g
      BY <1>1, <2>1 DEF ToSet
    <3>2. i \in 1 .. Len(globs)
      <4>1. Len(neg) \in Nat /\ Len(c.hide) \in Nat /\ Len(globs) = Len(c.hide) + Len(neg)
        BY <1>2, <1>3, <1>4
      <4> QED BY <4>1
    <3>3. globs[i] = g
      BY <3>1, <1>4
    <3> QED BY <3>2, <3>3
  <2>2. CASE g \in ToSet(c.allow)
    <3>1. PICK i \in 1 .. Len(c.allow) : c.allow[i] = g
      BY <1>1, <2>2 DEF ToSet
    <3>2. Len(c.hide) + i \in 1 .. Len(globs)
      <4>1. Len(neg) \in Nat /\ Len(c.hide) \in Nat /\ Len(globs) = Len(c.hide) + Len(neg) /\ i \in 1 .. Len(neg)
        BY <1>2, <1>3, <1>4
      <4> QED BY <4>1
    <3>3. globs[Len(c.hide) + i] = neg[i] /\ ~neg[i].ok
      BY <3>1, <1>3, <1>4
    <3> QED BY <3>2, <3>3
  <2> QED BY <2>1, <2>2
<1>7. PICK i \in 1 .. Len(globs) : ~globs[i].ok
  BY <1>6
<1>8. lines[i].glob = globs[i] /\ lines[i] \in ToSet(lines)
  BY DEF ToSet
<1> HIDE DEF lines
<1> QED
  BY <1>5, <1>7, <1>8

\* The directories of the tree are paths.
LEMMA TreeDirsArePaths == TreeDirs \subseteq Seq(Seq(STRING))
<1>1. DirOrder \in Seq(Seq(Seq(STRING)))
  BY RulesAssumption
<1>2. Len(DirOrder) \in Nat /\ \A i \in 1 .. Len(DirOrder) : DirOrder[i] \in Seq(Seq(STRING))
  BY <1>1, Element, Zenon
<1> QED
  BY <1>1, <1>2 DEF TreeDirs, ToSet

\* Two prefixes of a path: one is a prefix of the other.
LEMMA Comparable ==
  ASSUME NEW X, NEW a \in Seq(X), NEW b \in Seq(X), NEW t \in Seq(X),
         IsPrefix(a, t), IsPrefix(b, t), a # b, ~IsStrictPrefix(b, a)
  PROVE  IsStrictPrefix(a, b)
<1>1. Len(a) \in Nat /\ Len(b) \in Nat /\ Len(t) \in Nat
  OBVIOUS
<1>2. /\ Len(a) <= Len(t) /\ \A i \in 1 .. Len(a) : a[i] = t[i]
      /\ Len(b) <= Len(t) /\ \A i \in 1 .. Len(b) : b[i] = t[i]
  BY PrefixElements
<1>3. Len(a) # Len(b)
  <2>1. SUFFICES ASSUME Len(a) = Len(b) PROVE FALSE
    OBVIOUS
  <2>2. \A i \in 1 .. Len(a) : a[i] = b[i]
    BY <1>1, <1>2, <2>1
  <2> QED BY <2>1, <2>2, SeqEqual
<1>4. ~ (Len(b) < Len(a))
  <2>1. SUFFICES ASSUME Len(b) < Len(a) PROVE FALSE
    OBVIOUS
  <2>2. \A i \in 1 .. Len(b) : b[i] = a[i]
    BY <1>1, <1>2, <2>1
  <2>3. IsStrictPrefix(b, a)
    BY <2>1, <2>2, PrefixElements
  <2> QED BY <2>3
<1>5. Len(a) < Len(b) /\ \A i \in 1 .. Len(a) : a[i] = b[i]
  BY <1>1, <1>2, <1>3, <1>4
<1> QED
  BY <1>5, PrefixElements

\* Above is transitive.
LEMMA PrefixOfPrefix ==
  ASSUME NEW X, NEW a \in Seq(X), NEW b \in Seq(X), NEW t \in Seq(X), IsPrefix(a, b), IsPrefix(b, t)
  PROVE  IsPrefix(a, t)
<1>1. Len(a) \in Nat /\ Len(b) \in Nat /\ Len(t) \in Nat
  OBVIOUS
<1>2. /\ Len(a) <= Len(b) /\ \A i \in 1 .. Len(a) : a[i] = b[i]
      /\ Len(b) <= Len(t) /\ \A i \in 1 .. Len(b) : b[i] = t[i]
  BY PrefixElements
<1>3. Len(a) <= Len(t) /\ \A i \in 1 .. Len(a) : a[i] = t[i]
  BY <1>1, <1>2
<1> QED
  BY <1>3, PrefixElements

\* A poisoned level hides; after it only a deeper level's allow line shows again.
LEMMA PoisonHidesHolds == Inv => PoisonHides
<1> SUFFICES ASSUME Inv, rs = Discovered({}), NEW d \in DOMAIN files, NEW e \in Entries,
                    Uncompiled(files[d]), d = Global \/ IsPrefix(d, e.path),
                    Answers(e).decision # "HIDDEN"
             PROVE  d # Global /\ \E k \in Levels : \E p \in ToSet(k.patterns) :
                      IsStrictPrefix(d, k.dir) /\ e \in Below(k) /\ p.glob.neg /\ LevelMatches(k, p, e)
  BY DEF PoisonHides
<1> DEFINE levels == rs.levels
           n == Len(levels)
<1>1. e.path \in Seq(Seq(STRING)) /\ e.isDir \in BOOLEAN
  BY EntryPaths
<1>2. Compiles(levels) /\ files \in [Dirs -> PolicyFiles] /\ d \in Dirs /\ files[d] \in PolicyFiles
  BY DEF Inv
<1>3. n \in Nat /\ DOMAIN levels = 1 .. n /\ \A i \in 1 .. n : levels[i] \in LevelRecs
  <2>1. levels \in Seq(LevelRecs)
    BY <1>2 DEF Compiles
  <2>2. n \in Nat /\ \A i \in 1 .. n : levels[i] \in LevelRecs
    BY <2>1, Element, Zenon
  <2> QED BY <2>1, <2>2
<1>4. files[d] # NoFile
  <2>1. NoFile.ok /\ ToSet(NoFile.hide) = {} /\ ToSet(NoFile.allow) = {}
    BY RulesAssumption DEF ToSet
  <2> QED BY <2>1 DEF Uncompiled
<1>5. PICK i \in 1 .. n : levels[i].dir = d
  BY <1>2, <1>4, DiscoveredLevels
<1>6. levels[i] = LoadPolicyLevel(d, files[d])
  BY <1>2, <1>5, DiscoveredLevels
<1>7. levels[i].poisoned
  <2>1. ~files[d].ok \/ \E l \in ToSet(Lines(files[d])) : ~l.glob.ok
    BY <1>2, PatternLine DEF Uncompiled
  <2>2. LoadPolicyLevel(d, files[d]).poisoned <=> ~files[d].ok \/ \E l \in ToSet(Lines(files[d])) : ~l.glob.ok
    BY DEF LoadPolicyLevel
  <2> HIDE DEF levels
  <2> QED BY <2>1, <2>2, <1>6
<1>8. Applicable(levels[i], e.path)
  BY <1>5 DEF Applicable
<1> HIDE DEF levels, n
<1>9. PICK f \in [0 .. Len(levels) -> VerdictRecs] :
        LevelRun(f, levels, e.path, e.isDir) /\ ResolveIgnore(levels, e.path, e.isDir) = f[Len(levels)]
  BY <1>2, RunOf, Zenon
<1>10. ~f[n].hidden
  <2>1. Resolve(levels, e.path, e.isDir).decision # "HIDDEN"
    BY DEF Answers, levels
  <2>2. ~Hides(levels, e.path, e.isDir)
    BY <1>1, <2>1, Resolves
  <2> QED BY <2>2, <1>9 DEF Hides, n
<1>11. i \in 1 .. Len(levels) /\ i - 1 \in 0 .. Len(levels) /\ f[i - 1] \in VerdictRecs /\ f[i] \in VerdictRecs
  BY <1>3, <1>9 DEF n
<1>12. LevelEffect(levels[i], f[i - 1], f[i], e.path, e.isDir)
  <2>1. f[i] = AtLevel(levels[i], f[i - 1], e.path, e.isDir)
    BY <1>8, <1>9, <1>11 DEF LevelRun
  <2> QED BY <2>1, <1>3, <1>11, LevelEffects
<1>13. f[i].hidden
  BY <1>7, <1>12 DEF LevelEffect
<1>14. ~f[i].floor /\ \E k \in i + 1 .. Len(levels) :
         /\ levels[k].dir # Global /\ ~levels[k].poisoned /\ Applicable(levels[k], e.path)
         /\ Hit(levels[k], TRUE, RelativeTo(levels[k], e.path), e.isDir)
  <2>1. Len(levels) \in 1 .. Len(levels)
    BY <1>11
  <2> QED BY <2>1, <1>2, <1>9, <1>10, <1>11, <1>13, ShowsAgain DEF n
<1>15. d # Global
  <2>1. SUFFICES ASSUME d = Global PROVE FALSE
    OBVIOUS
  <2>2. i = 1
    BY <1>2, <1>5, <1>11, <2>1, GlobalFirst
  <2>3. f[i - 1] = NoVerdict
    BY <2>2, <1>9 DEF LevelRun
  <2>4. f[i].floor = f[i].hidden
    BY <2>1, <2>3, <1>5, <1>12 DEF LevelEffect, NoVerdict
  <2> QED BY <2>4, <1>13, <1>14
<1>16. PICK k \in i + 1 .. Len(levels) :
         /\ levels[k].dir # Global /\ Applicable(levels[k], e.path)
         /\ Hit(levels[k], TRUE, RelativeTo(levels[k], e.path), e.isDir)
  BY <1>14
<1>17. k \in 1 .. n /\ k \in 1 .. Len(levels) /\ i < k
  BY <1>3 DEF n
<1>18. d \in Seq(Seq(STRING)) /\ levels[k].dir \in Seq(Seq(STRING)) /\ IsPrefix(d, e.path) /\ IsPrefix(levels[k].dir, e.path)
  <2>1. levels[k].dir \in Dirs
    BY <1>3, <1>17 DEF LevelRecs
  <2> QED BY <2>1, <1>2, <1>15, <1>16, TreeDirsArePaths DEF Dirs, Applicable
<1>19. IsStrictPrefix(d, levels[k].dir)
  <2>1. Before(levels[i].dir, levels[k].dir)
    BY <1>2, <1>11, <1>17 DEF Compiles, Ordered
  <2>2. d # levels[k].dir /\ ~IsStrictPrefix(levels[k].dir, d)
    BY <2>1, <1>5, <1>15 DEF Before
  <2> QED BY <2>2, <1>1, <1>18, Comparable
<1>20. PICK m \in 1 .. Len(levels[k].patterns) :
         levels[k].patterns[m].glob.neg = TRUE /\ Matches(levels[k].patterns[m].glob, RelativeTo(levels[k], e.path), e.isDir)
  BY <1>16 DEF Hit
<1>21. levels[k] \in Levels /\ levels[k].patterns[m] \in ToSet(levels[k].patterns)
  <2>1. levels[k] \in LevelRecs
    BY <1>3, <1>17
  <2>2. levels[k].patterns \in Seq(LineRecs)
    BY <2>1 DEF LevelRecs
  <2> QED BY <2>2, <1>3, <1>17 DEF Levels, ToSet, levels
<1>22. e \in Below(levels[k]) /\ LevelMatches(levels[k], levels[k].patterns[m], e)
  BY <1>16, <1>18, <1>20 DEF Below, LevelMatches
<1> QED
  BY <1>15, <1>19, <1>20, <1>21, <1>22

\* Below a policy file that did not compile a path shows only by a deeper
\* level's allow rule, and never if the file is the global one.
THEOREM BrokenRulesHide == Spec => []PoisonHides
  BY RuleSetInvariant, PoisonHidesHolds, PTL

-----------------------------------------------------------------------------
(* The floor of the global rules. *)

\* The names that a union of patterns has.
Named(hits, name) == \E i \in 1 .. Len(hits) : \E j \in 1 .. Len(hits[i].pats) : hits[i].pats[j].name = name

\* The union keeps every name: only a later pattern of the same name is dropped.
LEMMA UnionNames ==
  ASSUME NEW hits \in Seq(MaskRecs), NEW name
  PROVE  (\E p \in UnionPatterns(hits) : p.name = name) <=> Named(hits, name)
<1> DEFINE ss == [i \in 1 .. Len(hits) |-> hits[i].pats]
           all == FlattenSeq(ss)
           first == {i \in DOMAIN all : \A j \in 1 .. i - 1 : all[j].name # all[i].name}
           T == {i \in 1 .. Len(all) : all[i].name = name}
<1>1. Len(hits) \in Nat /\ \A i \in 1 .. Len(hits) : hits[i] \in MaskRecs
  BY Element, Zenon
<1>2. \A i \in 1 .. Len(hits) : hits[i].pats \in Seq(PatternRecs)
  BY <1>1 DEF MaskRecs
<1>3. ss \in Seq(Seq(PatternRecs)) /\ Len(ss) = Len(hits) /\ \A i \in 1 .. Len(hits) : ss[i] = hits[i].pats
  BY <1>1, <1>2
<1>4. UnionPatterns(hits) = {all[i] : i \in first}
  BY DEF UnionPatterns
<1> HIDE DEF ss
<1>5. all \in Seq(PatternRecs) /\ \A x : Has(all, x) <=> Among(ss, Len(hits), x)
  BY <1>3, Flattened
<1>6. Named(hits, name) <=> \E x : Has(all, x) /\ x.name = name
  <2>1. ASSUME Named(hits, name) PROVE \E x : Has(all, x) /\ x.name = name
    <3>0. PICK i \in 1 .. Len(hits) : \E j \in 1 .. Len(hits[i].pats) : hits[i].pats[j].name = name
      BY <2>1 DEF Named
    <3>1. PICK j \in 1 .. Len(hits[i].pats) : hits[i].pats[j].name = name
      BY <3>0
    <3>2. j \in 1 .. Len(ss[i]) /\ ss[i][j] = hits[i].pats[j]
      BY <1>3
    <3>3. Among(ss, Len(hits), ss[i][j])
      BY <3>2 DEF Among
    <3>4. Has(all, ss[i][j])
      BY <3>3, <1>5
    <3> QED BY <3>1, <3>2, <3>4
  <2>2. ASSUME NEW x, Has(all, x), x.name = name PROVE Named(hits, name)
    <3>1. PICK i \in 1 .. Len(hits) : \E j \in 1 .. Len(ss[i]) : ss[i][j] = x
      BY <2>2, <1>5 DEF Among
    <3>2. ss[i] = hits[i].pats
      BY <1>3
    <3> QED BY <3>1, <3>2, <2>2 DEF Named
  <2> QED BY <2>1, <2>2
<1>7. Len(all) \in Nat /\ DOMAIN all = 1 .. Len(all)
  BY <1>5
<1> HIDE DEF all
<1>8. (\E x : Has(all, x) /\ x.name = name) <=> T # {}
  BY DEF Has
<1>9. T # {} <=> \E i \in first : all[i].name = name
  <2>1. ASSUME T # {} PROVE \E i \in first : all[i].name = name
    <3>1. T \subseteq Nat
      OBVIOUS
    <3>2. PICK m \in T : \A k \in T : m <= k
      <4> HIDE DEF T
      <4> QED BY <2>1, <3>1, Least
    <3>3. m \in 1 .. Len(all) /\ all[m].name = name
      OBVIOUS
    <3>4. ASSUME NEW j \in 1 .. m - 1 PROVE all[j].name # all[m].name
      <4>1. j \in 1 .. Len(all) /\ ~ (m <= j)
        BY <3>3, <1>7
      <4>2. j \notin T
        BY <4>1, <3>2
      <4> QED BY <4>1, <4>2, <3>3
    <3> QED BY <1>7, <3>3, <3>4
  <2>2. ASSUME NEW i \in first, all[i].name = name PROVE T # {}
    BY <2>2, <1>7
  <2> QED BY <2>1, <2>2
<1> HIDE DEF first
<1>10. (\E p \in UnionPatterns(hits) : p.name = name) <=> \E i \in first : all[i].name = name
  BY <1>4
<1> QED
  BY <1>6, <1>8, <1>9, <1>10

\* The global level alone is a rule set.
LEMMA GlobalAlone ==
  ASSUME NEW levels, Compiles(levels), 1 \in 1 .. Len(levels), levels[1].dir = Global
  PROVE  Compiles(<<levels[1]>>)
<1>1. levels[1] \in LevelRecs
  <2>1. levels \in Seq(LevelRecs)
    BY DEF Compiles
  <2> QED BY <2>1, Element, Zenon
<1> DEFINE l == levels[1]
<1>2. <<l>> \in Seq(LevelRecs) /\ Len(<<l>>) = 1 /\ \A i, j \in 1 .. 1 : ~ (i < j)
  <2> HIDE DEF l
  <2> QED BY <1>1 DEF l
<1> QED
  BY <1>2 DEF Compiles, Ordered

\* What the global rules alone hide, all levels together hide.
LEMMA FloorKept ==
  ASSUME NEW levels, Compiles(levels), 1 \in 1 .. Len(levels), levels[1].dir = Global,
         NEW path, NEW isDir, ResolveIgnore(<<levels[1]>>, path, isDir).hidden
  PROVE  ResolveIgnore(levels, path, isDir).hidden
<1> DEFINE l == levels[1]
           v == AtLevel(l, NoVerdict, path, isDir)
<1>1. Compiles(<<l>>) /\ Len(<<l>>) = 1 /\ <<l>>[1] = l /\ l.dir = Global
  BY GlobalAlone
<1>2. l \in LevelRecs
  <2>1. levels \in Seq(LevelRecs)
    BY DEF Compiles
  <2> QED BY <2>1, Element, Zenon
<1>3. Applicable(l, path)
  BY <1>1 DEF Applicable
<1> HIDE DEF l
<1>4. PICK g \in [0 .. Len(<<l>>) -> VerdictRecs] :
        LevelRun(g, <<l>>, path, isDir) /\ ResolveIgnore(<<l>>, path, isDir) = g[Len(<<l>>)]
  BY <1>1, RunOf, Zenon
<1>5. ResolveIgnore(<<l>>, path, isDir) = v
  <2>1. g[0] = NoVerdict /\ g[1] = v
    BY <1>1, <1>3, <1>4 DEF LevelRun
  <2> QED BY <2>1, <1>1, <1>4
<1>6. PICK f \in [0 .. Len(levels) -> VerdictRecs] :
        LevelRun(f, levels, path, isDir) /\ ResolveIgnore(levels, path, isDir) = f[Len(levels)]
  BY RunOf, Zenon
<1>7. f[1] = v
  BY <1>3, <1>6 DEF LevelRun, l
<1>8. NoVerdict \in VerdictRecs /\ ~NoVerdict.floor
  BY DEF NoVerdict, VerdictRecs
<1>9. LevelEffect(l, NoVerdict, v, path, isDir)
  <2> HIDE DEF v
  <2> QED BY <1>2, <1>8, LevelEffects DEF v
<1>10. v.floor = v.hidden /\ v.hidden
  BY <1>1, <1>5, <1>8, <1>9 DEF LevelEffect, l
<1> QED
  <2>1. Len(levels) \in 1 .. Len(levels) /\ 1 \in 1 .. Len(levels)
    OBVIOUS
  <2> QED BY <2>1, <1>6, <1>7, <1>10, ShowsAgain

\* What the global rules alone hide or mask, as a question of Resolve.
LEMMA FloorHolds ==
  ASSUME NEW levels, Compiles(levels), 1 \in 1 .. Len(levels), levels[1].dir = Global,
         NEW path \in Seq(Seq(STRING)), NEW isDir \in BOOLEAN
  PROVE  LET alone == Resolve(<<levels[1]>>, path, isDir)
             a == Resolve(levels, path, isDir)
         IN /\ alone.decision = "HIDDEN" => a.decision = "HIDDEN"
            /\ alone.decision = "MASKED" =>
                 a.decision = "HIDDEN" \/ {p.name : p \in alone.pats} \subseteq {p.name : p \in a.pats}
<1> DEFINE first == <<levels[1]>>
           alone == Resolve(first, path, isDir)
           a == Resolve(levels, path, isDir)
           H == MaskHits(levels, path)
           H1 == MaskHits(first, path)
<1>1. Compiles(first) /\ Len(first) = 1 /\ first[1] = levels[1]
  BY GlobalAlone
<1>2. Hides(first, path, isDir) => Hides(levels, path, isDir)
  <2>1. ASSUME NEW k \in Above(first, path) PROVE k \in Above(levels, path)
    BY FloorKept DEF Above
  <2>2. ResolveIgnore(first, path, isDir).hidden => ResolveIgnore(levels, path, isDir).hidden
    BY FloorKept
  <2> HIDE DEF first
  <2> QED BY <2>1, <2>2 DEF Hides
<1> HIDE DEF first
<1>3. H \in Seq(MaskRecs) /\ H1 \in Seq(MaskRecs) /\ \A x : Has(H1, x) => Has(H, x)
  <2>1. H \in Seq(MaskRecs) /\ \A x : Has(H, x) <=> MaskHit(levels, path, x)
    BY HitsAreMasks, Zenon
  <2>2. H1 \in Seq(MaskRecs) /\ \A x : Has(H1, x) <=> MaskHit(first, path, x)
    BY <1>1, HitsAreMasks, Zenon
  <2>3. \A x : MaskHit(first, path, x) => MaskHit(levels, path, x)
    <3>1. ASSUME NEW x, NEW i \in 1 .. Len(first) PROVE i = 1
      BY <1>1
    <3> QED BY <1>1, <3>1 DEF MaskHit
  <2> HIDE DEF H, H1
  <2> QED BY <2>1, <2>2, <2>3
<1>4. Bad(first, path) => Bad(levels, path)
  <2>1. DOMAIN H = 1 .. Len(H) /\ DOMAIN H1 = 1 .. Len(H1)
    BY <1>3
  <2>2. Bad(first, path) <=> \E i \in DOMAIN H1 : H1[i].err
    BY DEF Bad
  <2>3. Bad(levels, path) <=> \E i \in DOMAIN H : H[i].err
    BY DEF Bad
  <2> HIDE DEF H, H1
  <2>4. ASSUME NEW i \in 1 .. Len(H1), H1[i].err PROVE \E j \in 1 .. Len(H) : H[j].err
    <3>1. Has(H, H1[i])
      BY <1>3 DEF Has
    <3>2. PICK j \in 1 .. Len(H) : H[j] = H1[i]
      BY <3>1 DEF Has
    <3> QED BY <3>2, <2>4
  <2> QED BY <2>1, <2>2, <2>3, <2>4
<1>5. \A name : Named(H1, name) => Named(H, name)
  <2> HIDE DEF H, H1
  <2>1. ASSUME NEW name, Named(H1, name) PROVE Named(H, name)
    <3>1. PICK i \in 1 .. Len(H1) : \E j \in 1 .. Len(H1[i].pats) : H1[i].pats[j].name = name
      BY <2>1 DEF Named
    <3>2. Has(H, H1[i])
      BY <1>3 DEF Has
    <3>3. PICK k \in 1 .. Len(H) : H[k] = H1[i]
      BY <3>2 DEF Has
    <3> QED BY <3>1, <3>3 DEF Named
  <2> QED BY <2>1
<1>6. /\ alone.decision = "HIDDEN" <=> Hides(first, path, isDir) \/ (~isDir /\ Bad(first, path))
      /\ alone.decision = "MASKED" <=> alone.decision # "HIDDEN" /\ ~isDir /\ UnionPatterns(H1) # {}
      /\ alone.decision = "MASKED" => alone.pats = UnionPatterns(H1)
  BY Resolves
<1>7. /\ a.decision = "HIDDEN" <=> Hides(levels, path, isDir) \/ (~isDir /\ Bad(levels, path))
      /\ a.decision = "MASKED" <=> a.decision # "HIDDEN" /\ ~isDir /\ UnionPatterns(H) # {}
      /\ a.decision = "MASKED" => a.pats = UnionPatterns(H)
  BY Resolves
<1>8. {p.name : p \in UnionPatterns(H1)} \subseteq {p.name : p \in UnionPatterns(H)}
  <2> HIDE DEF H, H1
  <2>1. ASSUME NEW q \in UnionPatterns(H1) PROVE \E p \in UnionPatterns(H) : p.name = q.name
    <3>1. Named(H1, q.name)
      BY <1>3, UnionNames
    <3>2. Named(H, q.name)
      BY <3>1, <1>5
    <3> QED BY <3>2, <1>3, UnionNames
  <2> QED BY <2>1
<1> HIDE DEF alone, a, H, H1
<1>9. UnionPatterns(H1) # {} => UnionPatterns(H) # {}
  BY <1>8
<1>10. alone.decision = "HIDDEN" => a.decision = "HIDDEN"
  BY <1>2, <1>4, <1>6, <1>7
<1>11. ASSUME alone.decision = "MASKED", a.decision # "HIDDEN"
       PROVE  {p.name : p \in alone.pats} \subseteq {p.name : p \in a.pats}
  <2>1. alone.pats = UnionPatterns(H1) /\ a.pats = UnionPatterns(H)
    BY <1>6, <1>7, <1>9, <1>11
  <2> QED BY <2>1, <1>8
<1> QED
  BY <1>10, <1>11 DEF alone, a, first

\* The floor property, of what Discover compiled.
LEMMA GlobalFloorHolds == Inv => GlobalFloor
<1> SUFFICES ASSUME Inv, NEW l \in Levels, NEW e \in Entries, l.dir = Global
             PROVE  LET alone == Resolve(<<l>>, e.path, e.isDir)
                    IN /\ alone.decision = "HIDDEN" => Answers(e).decision = "HIDDEN"
                       /\ alone.decision = "MASKED" =>
                            \/ Answers(e).decision = "HIDDEN"
                            \/ {p.name : p \in alone.pats} \subseteq {p.name : p \in Answers(e).pats}
  BY DEF GlobalFloor
<1>1. e.path \in Seq(Seq(STRING)) /\ e.isDir \in BOOLEAN
  BY EntryPaths
<1>2. Compiles(rs.levels)
  BY DEF Inv
<1>3. PICK i \in 1 .. Len(rs.levels) : rs.levels[i] = l
  <2>1. rs.levels \in Seq(LevelRecs)
    BY <1>2 DEF Compiles
  <2> QED BY <2>1 DEF Levels, ToSet
<1>4. i = 1
  BY <1>2, <1>3, GlobalFirst
<1> QED
  BY <1>1, <1>2, <1>3, <1>4, FloorHolds DEF Answers

\* No policy file of the tree makes anything more visible than the global
\* rules alone leave it.
THEOREM GlobalRulesAreAFloor == Spec => []GlobalFloor
  BY RuleSetInvariant, GlobalFloorHolds, PTL

-----------------------------------------------------------------------------
(* Fewer allow rules hide more. *)

\* u hides at least what s does.
AtLeast(u, s) == (s.hidden => u.hidden) /\ (s.floor => u.floor)

\* A line of a level with the same directory keeps a verdict that hides at
\* least as much, and dropping an allow line hides no less.
LEMMA LineMonotone ==
  ASSUME NEW l \in LevelRecs, NEW m \in LevelRecs, m.dir = l.dir, NEW p \in LineRecs,
         NEW s \in VerdictRecs, NEW u \in VerdictRecs, AtLeast(u, s), NEW rel, NEW isDir
  PROVE  /\ AtLeast(AtLine(m, p, u, rel, isDir), AtLine(l, p, s, rel, isDir))
         /\ p.glob.neg => AtLeast(u, AtLine(l, p, s, rel, isDir))
<1> DEFINE s1 == AtLine(l, p, s, rel, isDir)
           u1 == AtLine(m, p, u, rel, isDir)
<1>1. /\ s.hidden \in BOOLEAN /\ s.floor \in BOOLEAN
      /\ u.hidden \in BOOLEAN /\ u.floor \in BOOLEAN
  BY DEF VerdictRecs
<1>2. ASSUME NEW k \in LevelRecs, NEW v \in VerdictRecs
      PROVE  LET v1 == AtLine(k, p, v, rel, isDir)
             IN /\ v1.floor = v.floor
                /\ v1.hidden = IF ~Matches(p.glob, rel, isDir) THEN v.hidden
                               ELSE IF ~p.glob.neg THEN TRUE
                               ELSE k.dir # Global /\ v.floor /\ v.hidden
  <2>1. CASE ~Matches(p.glob, rel, isDir)
    BY <2>1 DEF AtLine
  <2>2. CASE Matches(p.glob, rel, isDir) /\ ~p.glob.neg
    <3>1. AtLine(k, p, v, rel, isDir) = [v EXCEPT !.hidden = TRUE]
      BY <2>2 DEF AtLine
    <3>2. [v EXCEPT !.hidden = TRUE].hidden = TRUE /\ [v EXCEPT !.hidden = TRUE].floor = v.floor
      BY DEF VerdictRecs
    <3> QED BY <2>2, <3>1, <3>2
  <2>3. CASE Matches(p.glob, rel, isDir) /\ p.glob.neg
    <3>1. AtLine(k, p, v, rel, isDir) = Negate(k, v, p.line)
      BY <2>3 DEF AtLine
    <3>2. Negate(k, v, p.line).floor = v.floor /\ Negate(k, v, p.line).hidden = (k.dir # Global /\ v.floor /\ v.hidden)
      BY DEF Negate, VerdictRecs
    <3> QED BY <2>3, <3>1, <3>2
  <2> QED BY <2>1, <2>2, <2>3
<1>3. /\ s1.floor = s.floor
      /\ s1.hidden = IF ~Matches(p.glob, rel, isDir) THEN s.hidden
                     ELSE IF ~p.glob.neg THEN TRUE
                     ELSE l.dir # Global /\ s.floor /\ s.hidden
  BY <1>2
<1>4. /\ u1.floor = u.floor
      /\ u1.hidden = IF ~Matches(p.glob, rel, isDir) THEN u.hidden
                     ELSE IF ~p.glob.neg THEN TRUE
                     ELSE l.dir # Global /\ u.floor /\ u.hidden
  BY <1>2
<1> HIDE DEF s1, u1
<1>5. AtLeast(u1, s1) /\ (p.glob.neg => AtLeast(u, s1))
  BY <1>1, <1>3, <1>4 DEF AtLeast
<1> QED
  BY <1>5 DEF s1, u1

WithLines(l, patterns) == [l EXCEPT !.patterns = patterns]

\* A level whose lines are replaced keeps everything else.
LEMMA WithLinesType ==
  ASSUME NEW l \in LevelRecs, NEW q \in Seq(LineRecs)
  PROVE  /\ WithLines(l, q) \in LevelRecs /\ WithLines(l, q).patterns = q
         /\ WithLines(l, q).dir = l.dir /\ WithLines(l, q).poisoned = l.poisoned /\ WithLines(l, q).masks = l.masks
  BY DEF WithLines, LevelRecs

\* The lines of a level, one after the other.
LEMMA OneMoreLine ==
  ASSUME NEW l \in LevelRecs, NEW q \in Seq(LineRecs), NEW p \in LineRecs, NEW s \in VerdictRecs, NEW rel, NEW isDir
  PROVE  AtLines(WithLines(l, Append(q, p)), s, rel, isDir) = AtLine(l, p, AtLines(WithLines(l, q), s, rel, isDir), rel, isDir)
<1> DEFINE q1 == Append(q, p)
           l0 == WithLines(l, q)
           l1 == WithLines(l, q1)
           n == Len(q)
<1>1. n \in Nat /\ q1 \in Seq(LineRecs) /\ Len(q1) = n + 1 /\ q1[n + 1] = p /\ \A i \in 1 .. n : q1[i] = q[i]
  OBVIOUS
<1> HIDE DEF q1, n
<1>2. /\ l0 \in LevelRecs /\ l0.patterns = q /\ l0.dir = l.dir
      /\ l1 \in LevelRecs /\ l1.patterns = q1 /\ l1.dir = l.dir
  BY <1>1, WithLinesType
<1> HIDE DEF l0, l1
<1>3. PICK f : Lined(f, l0, s, rel, isDir)
  BY <1>2, LinesRun
<1>4. PICK g : Lined(g, l1, s, rel, isDir)
  BY <1>2, LinesRun
<1>5. \A x, v : AtLine(l0, x, v, rel, isDir) = AtLine(l, x, v, rel, isDir) /\ AtLine(l1, x, v, rel, isDir) = AtLine(l, x, v, rel, isDir)
  BY <1>2 DEF AtLine, Negate
<1>6. f[0] = s /\ \A k \in 1 .. n : f[k] = AtLine(l, q[k], f[k - 1], rel, isDir)
  BY <1>2, <1>3, <1>5 DEF Lined, LineRun, n
<1>7. g[0] = s /\ \A k \in 1 .. n + 1 : g[k] = AtLine(l, q1[k], g[k - 1], rel, isDir)
  BY <1>1, <1>2, <1>4, <1>5 DEF Lined, LineRun
<1> DEFINE G == {k \in 0 .. n : f[k] = g[k]}
<1>8. 0 .. n \subseteq G
  <2>1. 0 \in G
    BY <1>1, <1>6, <1>7
  <2>2. ASSUME NEW k \in 0 .. n - 1, k \in G PROVE k + 1 \in G
    <3>1. k + 1 \in 1 .. n /\ k + 1 \in 0 .. n /\ k + 1 \in 1 .. n + 1 /\ (k + 1) - 1 = k
      BY <1>1
    <3>2. f[k] = g[k] /\ q1[k + 1] = q[k + 1]
      BY <2>2, <3>1, <1>1
    <3>3. f[k + 1] = AtLine(l, q[k + 1], f[k], rel, isDir) /\ g[k + 1] = AtLine(l, q1[k + 1], g[k], rel, isDir)
      BY <3>1, <1>6, <1>7
    <3> QED BY <3>1, <3>2, <3>3
  <2> HIDE DEF G
  <2> QED BY <1>1, <2>1, <2>2, UpTo
<1>9. f[n] = g[n]
  <2>1. n \in 0 .. n
    BY <1>1
  <2> QED BY <2>1, <1>8
<1>10. n + 1 \in 1 .. n + 1 /\ (n + 1) - 1 = n
  BY <1>1
<1>11. g[n + 1] = AtLine(l, p, f[n], rel, isDir)
  BY <1>1, <1>7, <1>9, <1>10
<1> QED
  BY <1>1, <1>2, <1>3, <1>4, <1>11 DEF Lined, l0, l1, q1, n

\* The lines of l that are not in N are allow rules.
OnlyAllows(l, N) == \A i \in 1 .. Len(l.patterns) : i \notin N => l.patterns[i].glob.neg

\* A level without some of its allow lines hides at least what it did.
LEMMA FewerLines ==
  ASSUME NEW l \in LevelRecs, NEW N, OnlyAllows(l, N),
         NEW s \in VerdictRecs, NEW u \in VerdictRecs, AtLeast(u, s), NEW rel, NEW isDir
  PROVE  AtLeast(AtLines(WithLines(l, Pick(l.patterns, N)), u, rel, isDir), AtLines(l, s, rel, isDir))
<1> DEFINE n == Len(l.patterns)
           lines == l.patterns
<1>1. n \in Nat /\ lines \in Seq(LineRecs) /\ \A k \in 1 .. n : lines[k] \in LineRecs
  <2>1. l.patterns \in Seq(LineRecs)
    BY DEF LevelRecs
  <2>2. n \in Nat /\ \A k \in 1 .. n : lines[k] \in LineRecs
    BY <2>1, Element, Zenon
  <2> QED BY <2>1, <2>2
<1>2. PICK f : Lined(f, l, s, rel, isDir)
  BY LinesRun
<1>3. /\ f \in [0 .. n -> VerdictRecs] /\ AtLines(l, s, rel, isDir) = f[n]
      /\ f[0] = s /\ \A k \in 1 .. n : f[k] = AtLine(l, lines[k], f[k - 1], rel, isDir)
  BY <1>2 DEF Lined, LineRun
<1>4. \A k \in 1 .. n : k \notin N => lines[k].glob.neg
  BY DEF OnlyAllows
<1> HIDE DEF lines
<1>5. PICK q \in [0 .. Len(lines) -> Seq(LineRecs)] : PickRun(q, lines, N) /\ Pick(lines, N) = q[Len(lines)]
  BY <1>1, PickSteps, Zenon
<1>6. /\ q \in [0 .. n -> Seq(LineRecs)] /\ Pick(lines, N) = q[n] /\ q[0] = <<>>
      /\ \A k \in 1 .. n : q[k] = IF k \in N THEN Append(q[k - 1], lines[k]) ELSE q[k - 1]
  BY <1>5 DEF PickRun, lines
<1> HIDE DEF n
<1> DEFINE v(k) == AtLines(WithLines(l, q[k]), u, rel, isDir)
           G == {k \in 0 .. n : v(k) \in VerdictRecs /\ AtLeast(v(k), f[k])}
<1>7. \A k \in 0 .. n : WithLines(l, q[k]) \in LevelRecs /\ WithLines(l, q[k]).dir = l.dir /\ v(k) \in VerdictRecs
  <2>1. ASSUME NEW k \in 0 .. n
        PROVE  WithLines(l, q[k]) \in LevelRecs /\ WithLines(l, q[k]).dir = l.dir /\ v(k) \in VerdictRecs
    <3>1. q[k] \in Seq(LineRecs)
      BY <1>6
    <3>2. WithLines(l, q[k]) \in LevelRecs /\ WithLines(l, q[k]).dir = l.dir
      BY <3>1, WithLinesType
    <3> QED BY <3>2, LineEffects DEF LineEffect
  <2> QED BY <2>1
<1>8. 0 \in G
  <2>1. 0 \in 0 .. n /\ WithLines(l, q[0]).patterns = <<>> /\ Len(<<>>) = 0
    BY <1>1, <1>6, WithLinesType
  <2>2. WithLines(l, q[0]) \in LevelRecs
    BY <2>1, <1>7
  <2> DEFINE l0 == WithLines(l, q[0])
  <2> HIDE DEF l0
  <2>3. PICK g : Lined(g, l0, u, rel, isDir)
    <3>1. l0 \in LevelRecs
      BY <2>2 DEF l0
    <3> QED BY <3>1, LinesRun
  <2>4. AtLines(l0, u, rel, isDir) = u
    BY <2>1, <2>3 DEF Lined, LineRun, l0
  <2> QED BY <2>1, <2>4, <1>3 DEF l0
<1>9. ASSUME NEW k \in 0 .. n - 1, k \in G PROVE k + 1 \in G
  <2>1. k \in 0 .. n /\ k + 1 \in 1 .. n /\ k + 1 \in 0 .. n /\ (k + 1) - 1 = k
    BY <1>1
  <2>2. lines[k + 1] \in LineRecs /\ f[k] \in VerdictRecs /\ v(k) \in VerdictRecs /\ AtLeast(v(k), f[k]) /\ q[k] \in Seq(LineRecs)
    BY <2>1, <1>1, <1>3, <1>6, <1>9
  <2>3. f[k + 1] = AtLine(l, lines[k + 1], f[k], rel, isDir)
    BY <2>1, <1>3
  <2>4. /\ AtLeast(AtLine(l, lines[k + 1], v(k), rel, isDir), f[k + 1])
        /\ lines[k + 1].glob.neg => AtLeast(v(k), f[k + 1])
    <3> HIDE DEF v
    <3> QED BY <2>2, <2>3, LineMonotone
  <2>5. CASE k + 1 \in N
    <3>1. q[k + 1] = Append(q[k], lines[k + 1])
      BY <2>1, <2>5, <1>6
    <3>2. v(k + 1) = AtLine(l, lines[k + 1], v(k), rel, isDir)
      BY <3>1, <2>2, OneMoreLine
    <3>3. AtLeast(v(k + 1), f[k + 1])
      <4> HIDE DEF v
      <4> QED BY <3>2, <2>4
    <3> QED BY <3>3, <2>1, <1>7
  <2>6. CASE k + 1 \notin N
    <3>1. q[k + 1] = q[k]
      BY <2>1, <2>6, <1>6
    <3>2. AtLeast(v(k + 1), f[k + 1])
      BY <3>1, <2>1, <2>4, <2>6, <1>4
    <3> QED BY <3>2, <2>1, <1>7
  <2> QED BY <2>5, <2>6
<1>10. 0 .. n \subseteq G
  <2> HIDE DEF G
  <2> QED BY <1>1, <1>8, <1>9, UpTo
<1>11. n \in 0 .. n
  BY <1>1
<1>12. AtLeast(v(n), f[n])
  BY <1>10, <1>11
<1> QED
  BY <1>3, <1>6, <1>12 DEF n, lines

\* The same lines keep a verdict that hides at least as much.
LEMMA SameLines ==
  ASSUME NEW l \in LevelRecs, NEW s \in VerdictRecs, NEW u \in VerdictRecs, AtLeast(u, s), NEW rel, NEW isDir
  PROVE  AtLeast(AtLines(l, u, rel, isDir), AtLines(l, s, rel, isDir))
<1> DEFINE n == Len(l.patterns)
<1>1. n \in Nat /\ \A k \in 1 .. n : l.patterns[k] \in LineRecs
  <2>1. l.patterns \in Seq(LineRecs)
    BY DEF LevelRecs
  <2> QED BY <2>1, Element, Zenon
<1>2. PICK f : Lined(f, l, s, rel, isDir)
  BY LinesRun
<1>3. PICK g : Lined(g, l, u, rel, isDir)
  BY LinesRun
<1>4. /\ f \in [0 .. n -> VerdictRecs] /\ AtLines(l, s, rel, isDir) = f[n]
      /\ g \in [0 .. n -> VerdictRecs] /\ AtLines(l, u, rel, isDir) = g[n]
      /\ f[0] = s /\ \A k \in 1 .. n : f[k] = AtLine(l, l.patterns[k], f[k - 1], rel, isDir)
      /\ g[0] = u /\ \A k \in 1 .. n : g[k] = AtLine(l, l.patterns[k], g[k - 1], rel, isDir)
  BY <1>2, <1>3 DEF Lined, LineRun
<1> DEFINE G == {k \in 0 .. n : AtLeast(g[k], f[k])}
<1> HIDE DEF n
<1>5. 0 .. n \subseteq G
  <2>1. 0 \in G
    BY <1>1, <1>4
  <2>2. ASSUME NEW k \in 0 .. n - 1, k \in G PROVE k + 1 \in G
    <3>1. k \in 0 .. n /\ k + 1 \in 1 .. n /\ k + 1 \in 0 .. n /\ (k + 1) - 1 = k
      BY <1>1
    <3>2. l.patterns[k + 1] \in LineRecs /\ f[k] \in VerdictRecs /\ g[k] \in VerdictRecs /\ AtLeast(g[k], f[k])
      BY <3>1, <2>2, <1>1, <1>4
    <3>3. /\ f[k + 1] = AtLine(l, l.patterns[k + 1], f[k], rel, isDir)
          /\ g[k + 1] = AtLine(l, l.patterns[k + 1], g[k], rel, isDir)
      BY <3>1, <1>4
    <3>4. AtLeast(g[k + 1], f[k + 1])
      BY <3>2, <3>3, LineMonotone
    <3> QED BY <3>1, <3>4
  <2> HIDE DEF G
  <2> QED BY <1>1, <2>1, <2>2, UpTo
<1>6. AtLeast(g[n], f[n])
  <2>1. n \in 0 .. n
    BY <1>1
  <2> QED BY <2>1, <1>5
<1> QED
  BY <1>4, <1>6 DEF n

Tighter(m, l) == m = l \/ \E N : OnlyAllows(l, N) /\ m = WithLines(l, Pick(l.patterns, N))

\* A tighter level is a level of the same directory, poisoned or not alike.
LEMMA TighterType ==
  ASSUME NEW l \in LevelRecs, NEW m, Tighter(m, l)
  PROVE  m \in LevelRecs /\ m.dir = l.dir /\ m.poisoned = l.poisoned
<1>1. CASE m = l
  BY <1>1
<1>2. ASSUME NEW N, m = WithLines(l, Pick(l.patterns, N)) PROVE m \in LevelRecs /\ m.dir = l.dir /\ m.poisoned = l.poisoned
  <2>1. l.patterns \in Seq(LineRecs)
    BY DEF LevelRecs
  <2>2. Pick(l.patterns, N) \in Seq(LineRecs)
    BY <2>1, PickPositions
  <2> QED BY <1>2, <2>2, WithLinesType
<1> QED
  BY <1>1, <1>2 DEF Tighter

\* A tighter level hides at least what the level hides.
LEMMA TighterLevel ==
  ASSUME NEW l \in LevelRecs, NEW m, Tighter(m, l),
         NEW s \in VerdictRecs, NEW u \in VerdictRecs, AtLeast(u, s), NEW path, NEW isDir
  PROVE  AtLeast(AtLevel(m, u, path, isDir), AtLevel(l, s, path, isDir))
<1> DEFINE rel == RelativeTo(l, path)
           sa == AtLines(l, s, rel, isDir)
           ua == AtLines(m, u, rel, isDir)
<1>1. m \in LevelRecs /\ m.dir = l.dir /\ m.poisoned = l.poisoned
  BY TighterType
<1>2. RelativeTo(m, path) = rel
  BY <1>1 DEF RelativeTo
<1>3. sa \in VerdictRecs /\ ua \in VerdictRecs
  <2> HIDE DEF rel
  <2>1. LineEffect(l, s, sa, rel, isDir) /\ LineEffect(m, u, ua, rel, isDir)
    BY <1>1, LineEffects
  <2> QED BY <2>1 DEF LineEffect
<1>4. AtLeast(ua, sa)
  <2> HIDE DEF rel
  <2>1. CASE m = l
    BY <2>1, SameLines
  <2>2. ASSUME NEW N, OnlyAllows(l, N), m = WithLines(l, Pick(l.patterns, N)) PROVE AtLeast(ua, sa)
    BY <2>2, FewerLines
  <2> QED BY <2>1, <2>2 DEF Tighter
<1>5. AtLevel(l, s, path, isDir) =
        IF l.poisoned THEN [s EXCEPT !.hidden = TRUE, !.poisoned = TRUE, !.floor = @ \/ l.dir = Global]
        ELSE IF l.dir = Global THEN [sa EXCEPT !.floor = sa.hidden] ELSE sa
  BY DEF AtLevel, Floored
<1>6. AtLevel(m, u, path, isDir) =
        IF l.poisoned THEN [u EXCEPT !.hidden = TRUE, !.poisoned = TRUE, !.floor = @ \/ l.dir = Global]
        ELSE IF l.dir = Global THEN [ua EXCEPT !.floor = ua.hidden] ELSE ua
  BY <1>1, <1>2 DEF AtLevel, Floored
<1> DEFINE t == AtLevel(l, s, path, isDir)
           w == AtLevel(m, u, path, isDir)
<1> HIDE DEF rel, sa, ua, t, w
<1>7. CASE l.poisoned
  <2>1. /\ t = [s EXCEPT !.hidden = TRUE, !.poisoned = TRUE, !.floor = s.floor \/ l.dir = Global]
        /\ w = [u EXCEPT !.hidden = TRUE, !.poisoned = TRUE, !.floor = u.floor \/ l.dir = Global]
    BY <1>5, <1>6, <1>7 DEF t, w
  <2>2. t.floor = (s.floor \/ l.dir = Global) /\ w.floor = (u.floor \/ l.dir = Global) /\ w.hidden = TRUE
    BY <2>1 DEF VerdictRecs
  <2>3. AtLeast(w, t)
    BY <2>2 DEF AtLeast
  <2> QED BY <2>3 DEF t, w
<1>8. CASE ~l.poisoned /\ l.dir = Global
  <2>1. t = [sa EXCEPT !.floor = sa.hidden] /\ w = [ua EXCEPT !.floor = ua.hidden]
    BY <1>5, <1>6, <1>8 DEF t, w
  <2>2. t.floor = sa.hidden /\ t.hidden = sa.hidden /\ w.floor = ua.hidden /\ w.hidden = ua.hidden
    BY <2>1, <1>3 DEF VerdictRecs
  <2>3. AtLeast(w, t)
    BY <2>2, <1>4 DEF AtLeast
  <2> QED BY <2>3 DEF t, w
<1>9. CASE ~l.poisoned /\ l.dir # Global
  BY <1>4, <1>5, <1>6, <1>9
<1> QED
  BY <1>7, <1>8, <1>9

\* A run over levels and its result.
Leveled(f, levels, path, isDir) ==
  /\ f \in [0 .. Len(levels) -> VerdictRecs]
  /\ LevelRun(f, levels, path, isDir)
  /\ ResolveIgnore(levels, path, isDir) = f[Len(levels)]

\* The run through the levels, with its steps spelt out.
LEMMA LevelsRun ==
  ASSUME NEW levels, Compiles(levels), NEW path, NEW isDir
  PROVE  \E f : Leveled(f, levels, path, isDir)
<1>1. PICK f \in [0 .. Len(levels) -> VerdictRecs] :
        LevelRun(f, levels, path, isDir) /\ ResolveIgnore(levels, path, isDir) = f[Len(levels)]
  BY RunOf, Zenon
<1>2. Leveled(f, levels, path, isDir)
  BY <1>1 DEF Leveled
<1> QED
  BY <1>2

\* From position j on, the levels of cut are tighter than those of levels.
LEMMA TighterRuns ==
  ASSUME NEW levels, Compiles(levels), NEW cut, Compiles(cut), NEW n, n = Len(levels), Len(cut) = n,
         NEW path, NEW isDir, NEW f, Leveled(f, levels, path, isDir), NEW g, Leveled(g, cut, path, isDir),
         NEW j \in 0 .. n, NEW m \in j .. n, AtLeast(g[j], f[j]),
         \A i \in j + 1 .. m : Tighter(cut[i], levels[i])
  PROVE  AtLeast(g[m], f[m])
<1> DEFINE G == {d \in 0 .. m - j : AtLeast(g[j + d], f[j + d])}
<1>1. n \in Nat /\ j \in Nat /\ m - j \in Nat /\ \A k \in 1 .. n : levels[k] \in LevelRecs
  <2>1. levels \in Seq(LevelRecs)
    BY DEF Compiles
  <2>2. n \in Nat /\ \A k \in 1 .. n : levels[k] \in LevelRecs
    BY <2>1, Element, Zenon
  <2> QED BY <2>2
<1>2. /\ f \in [0 .. n -> VerdictRecs] /\ g \in [0 .. n -> VerdictRecs]
      /\ \A k \in 1 .. n : f[k] = IF Applicable(levels[k], path) THEN AtLevel(levels[k], f[k - 1], path, isDir) ELSE f[k - 1]
      /\ \A k \in 1 .. n : g[k] = IF Applicable(cut[k], path) THEN AtLevel(cut[k], g[k - 1], path, isDir) ELSE g[k - 1]
  BY DEF Leveled, LevelRun
<1>3. 0 \in G
  <2>1. 0 \in 0 .. m - j /\ j + 0 = j
    BY <1>1
  <2> QED BY <2>1
<1>4. ASSUME NEW d \in 0 .. m - j - 1, d \in G PROVE d + 1 \in G
  <2> DEFINE i == j + d
  <2>1. i \in 0 .. n /\ i + 1 \in 1 .. n /\ i + 1 \in j + 1 .. m /\ (i + 1) - 1 = i /\ d + 1 \in 0 .. m - j /\ j + (d + 1) = i + 1
    BY <1>1
  <2>2. AtLeast(g[i], f[i])
    BY <1>4
  <2>3. SUFFICES AtLeast(g[i + 1], f[i + 1])
    BY <2>1
  <2> HIDE DEF i
  <2>4. levels[i + 1] \in LevelRecs /\ f[i] \in VerdictRecs /\ g[i] \in VerdictRecs /\ Tighter(cut[i + 1], levels[i + 1])
    BY <2>1, <1>1, <1>2
  <2>5. cut[i + 1].dir = levels[i + 1].dir
    BY <2>4, TighterType
  <2>6. Applicable(cut[i + 1], path) <=> Applicable(levels[i + 1], path)
    BY <2>5 DEF Applicable
  <2>7. /\ f[i + 1] = IF Applicable(levels[i + 1], path) THEN AtLevel(levels[i + 1], f[i], path, isDir) ELSE f[i]
        /\ g[i + 1] = IF Applicable(cut[i + 1], path) THEN AtLevel(cut[i + 1], g[i], path, isDir) ELSE g[i]
    BY <2>1, <1>2
  <2>8. CASE Applicable(levels[i + 1], path)
    <3>1. AtLeast(AtLevel(cut[i + 1], g[i], path, isDir), AtLevel(levels[i + 1], f[i], path, isDir))
      BY <2>2, <2>4, TighterLevel
    <3> QED BY <3>1, <2>6, <2>7, <2>8
  <2>9. CASE ~Applicable(levels[i + 1], path)
    BY <2>2, <2>6, <2>7, <2>9
  <2> QED BY <2>8, <2>9
<1>5. 0 .. m - j \subseteq G
  <2> HIDE DEF G
  <2> QED BY <1>1, <1>3, <1>4, UpTo
<1>6. m - j \in 0 .. m - j /\ j + (m - j) = m
  BY <1>1
<1> QED
  BY <1>5, <1>6

\* Tighter levels hide what the levels hide.
LEMMA TighterHides ==
  ASSUME NEW levels, Compiles(levels), NEW cut, Compiles(cut), Len(cut) = Len(levels),
         \A i \in 1 .. Len(levels) : Tighter(cut[i], levels[i]), NEW path, NEW isDir,
         ResolveIgnore(levels, path, isDir).hidden
  PROVE  ResolveIgnore(cut, path, isDir).hidden
<1>1. PICK f : Leveled(f, levels, path, isDir)
  BY LevelsRun
<1>2. PICK g : Leveled(g, cut, path, isDir)
  BY LevelsRun
<1>3. Len(levels) \in Nat
  BY DEF Compiles
<1>4. f[0] = NoVerdict /\ g[0] = NoVerdict
  BY <1>1, <1>2 DEF Leveled, LevelRun
<1>5. AtLeast(g[0], f[0])
  BY <1>4 DEF AtLeast
<1>6. 0 \in 0 .. Len(levels) /\ Len(levels) \in 0 .. Len(levels) /\ \A i \in 0 + 1 .. Len(levels) : i \in 1 .. Len(levels)
  BY <1>3
<1>7. AtLeast(g[Len(levels)], f[Len(levels)])
  BY <1>1, <1>2, <1>5, <1>6, TighterRuns
<1> QED
  BY <1>1, <1>2, <1>7 DEF Leveled, AtLeast

-----------------------------------------------------------------------------
(* What the linter calls without effect. *)

LEMMA WithLevels ==
  ASSUME Compiles(rs.levels), NEW c \in Levels, NEW q \in Seq(LineRecs)
  PROVE  /\ Compiles(With(c, q)) /\ Len(With(c, q)) = Len(rs.levels)
         /\ \A i \in 1 .. Len(rs.levels) :
              With(c, q)[i] = IF rs.levels[i] = c THEN WithLines(c, q) ELSE rs.levels[i]
         /\ \A path : MaskHits(With(c, q), path) = MaskHits(rs.levels, path)
<1> DEFINE levels == rs.levels
           n == Len(levels)
           cut == With(c, q)
<1>1. n \in Nat /\ DOMAIN levels = 1 .. n /\ \A k \in 1 .. n : levels[k] \in LevelRecs
  <2>1. levels \in Seq(LevelRecs)
    BY DEF Compiles
  <2>2. n \in Nat /\ \A k \in 1 .. n : levels[k] \in LevelRecs
    BY <2>1, Element, Zenon
  <2> QED BY <2>1, <2>2
<1>2. c \in LevelRecs
  <2>1. PICK k \in 1 .. n : levels[k] = c
    <3>1. levels \in Seq(LevelRecs)
      BY DEF Compiles
    <3> QED BY <3>1 DEF Levels, ToSet
  <2> QED BY <2>1, <1>1
<1> DEFINE m == WithLines(c, q)
<1>3. m \in LevelRecs /\ m.dir = c.dir /\ m.masks = c.masks
  BY <1>2, WithLinesType
<1>4. cut = [i \in 1 .. n |-> IF levels[i] = c THEN m ELSE levels[i]]
  BY DEF With, WithLines
<1> HIDE DEF levels, m
<1>5. \A i \in 1 .. n : (IF levels[i] = c THEN m ELSE levels[i]) \in LevelRecs
  BY <1>1, <1>3
<1>6. /\ cut \in Seq(LevelRecs) /\ Len(cut) = n
      /\ \A i \in 1 .. n : cut[i] = IF levels[i] = c THEN m ELSE levels[i]
  <2> HIDE DEF n, cut
  <2> QED BY <1>1, <1>4, <1>5
<1> HIDE DEF cut
<1>7. \A i \in 1 .. n : cut[i].dir = levels[i].dir /\ cut[i].masks = levels[i].masks
  BY <1>3, <1>6
<1>8. Compiles(cut)
  <2>1. \A i, j \in 1 .. n : i < j => Before(levels[i].dir, levels[j].dir)
    BY DEF Compiles, Ordered, levels
  <2> QED BY <2>1, <1>6, <1>7 DEF Compiles, Ordered
<1>9. ASSUME NEW path PROVE MaskHits(cut, path) = MaskHits(levels, path)
  <2> DEFINE Hits(l) == {k \in DOMAIN l.masks : l.masks[k].glob.ok /\ Matches(l.masks[k].glob, RelativeTo(l, path), FALSE)}
             at(l) == IF Applicable(l, path) THEN Pick(l.masks, Hits(l)) ELSE <<>>
  <2>1. ASSUME NEW i \in 1 .. n PROVE at(cut[i]) = at(levels[i])
    <3>1. cut[i].dir = levels[i].dir /\ cut[i].masks = levels[i].masks
      BY <1>7
    <3>2. (Applicable(cut[i], path) <=> Applicable(levels[i], path)) /\ RelativeTo(cut[i], path) = RelativeTo(levels[i], path)
      BY <3>1 DEF Applicable, RelativeTo
    <3>3. Hits(cut[i]) = Hits(levels[i])
      BY <3>1, <3>2
    <3> HIDE DEF Hits
    <3> QED BY <3>1, <3>2, <3>3
  <2>2. MaskHits(cut, path) = FlattenSeq([i \in 1 .. Len(cut) |-> at(cut[i])])
    BY DEF MaskHits
  <2>3. MaskHits(levels, path) = FlattenSeq([i \in 1 .. Len(levels) |-> at(levels[i])])
    BY DEF MaskHits
  <2> HIDE DEF at
  <2>4. [i \in 1 .. Len(cut) |-> at(cut[i])] = [i \in 1 .. Len(levels) |-> at(levels[i])]
    BY <2>1, <1>6
  <2> QED BY <2>2, <2>3, <2>4
<1> QED
  BY <1>6, <1>8, <1>9 DEF cut, levels, m

\* The blocked negations of an answer come from the path's own verdict, unless a
\* directory above it hides.
LEMMA BlockedFrom ==
  ASSUME NEW levels, NEW path \in Seq(Seq(STRING)), NEW isDir \in BOOLEAN
  PROVE  Resolve(levels, path, isDir).blocked = ResolveIgnore(levels, path, isDir).blocked \/ Above(levels, path) # {}
BY Resolves

\* A negation that the linter calls dead: without it the entry resolves the same.
LEMMA DeadNegation ==
  ASSUME Inv, NEW f \in HiddenDirNegationFindings(rs) \cup GlobalFloorNegationFindings(rs)
  PROVE  LET cut == With(f[1], Pick(f[1].patterns, {i \in DOMAIN f[1].patterns : f[1].patterns[i] # f[2]}))
         IN Resolve(cut, f[3].path, f[3].isDir).decision = Answers(f[3]).decision
<1> DEFINE c == f[1]
           p == f[2]
           e == f[3]
           levels == rs.levels
           N == {i \in DOMAIN c.patterns : c.patterns[i] # p}
           q == Pick(c.patterns, N)
           cut == With(c, q)
<1>1. Compiles(levels)
  BY DEF Inv
<1>2. c \in Levels /\ p \in Negations(c) /\ e \in Below(c)
  <2>1. f \in UNION {{l} \X Negations(l) \X Below(l) : l \in ToSet(rs.levels)}
    BY DEF HiddenDirNegationFindings, GlobalFloorNegationFindings, MatchingNegations
  <2>2. PICK l \in ToSet(rs.levels) : f \in {l} \X Negations(l) \X Below(l)
    BY <2>1
  <2> QED BY <2>2 DEF Levels
<1>3. e \in Entries /\ e.path \in Seq(Seq(STRING)) /\ Len(e.path) \in Nat \ {0} /\ e.isDir \in BOOLEAN
  <2>1. e \in Entries
    BY <1>2 DEF Below
  <2> QED BY <2>1, EntryPaths
<1>4. p.glob.neg
  BY <1>2 DEF Negations
<1>5. Hides(levels, e.path, e.isDir)
  <2>1. CASE f \in HiddenDirNegationFindings(rs)
    <3>1. Len(e.path) > 1 /\ Resolve(levels, Front(e.path), TRUE).decision = "HIDDEN"
      BY <2>1 DEF HiddenDirNegationFindings
    <3>2. Front(e.path) = SubSeq(e.path, 1, Len(e.path) - 1) /\ Len(e.path) - 1 \in 1 .. Len(e.path) - 1
      BY <3>1, <1>3 DEF Front
    <3>3. SubSeq(e.path, 1, Len(e.path) - 1) \in Seq(Seq(STRING))
      BY <3>2, <1>3
    <3>4. Hides(levels, SubSeq(e.path, 1, Len(e.path) - 1), TRUE)
      BY <3>1, <3>2, <3>3, Resolves
    <3> QED BY <3>2, <3>4, <1>3, HidesBelow DEF Hides
  <2>2. CASE f \in GlobalFloorNegationFindings(rs)
    <3>1. Resolve(levels, e.path, e.isDir).blocked # {}
      BY <2>2 DEF GlobalFloorNegationFindings
    <3>2. ASSUME NEW path, NEW isDir, ResolveIgnore(levels, path, isDir).blocked # {}
          PROVE  ResolveIgnore(levels, path, isDir).hidden
      BY <3>2, <1>1, VerdictFounded DEF Founded
    <3>3. \/ Resolve(levels, e.path, e.isDir).blocked = ResolveIgnore(levels, e.path, e.isDir).blocked
          \/ Above(levels, e.path) # {}
      BY <1>3, BlockedFrom
    <3> QED BY <3>1, <3>2, <3>3 DEF Hides
  <2> QED BY <2>1, <2>2
<1>6. c \in LevelRecs /\ c.patterns \in Seq(LineRecs) /\ q \in Seq(LineRecs)
  <2>1. levels \in Seq(LevelRecs)
    BY <1>1 DEF Compiles
  <2>2. c \in LevelRecs
    BY <2>1, <1>2 DEF Levels, ToSet
  <2>3. c.patterns \in Seq(LineRecs)
    BY <2>2 DEF LevelRecs
  <2> HIDE DEF N
  <2> QED BY <2>2, <2>3, PickPositions
<1>7. OnlyAllows(c, N)
  BY <1>4, <1>6 DEF OnlyAllows
<1> HIDE DEF N
<1>8. Tighter(WithLines(c, q), c)
  BY <1>7 DEF Tighter
<1> HIDE DEF q
<1>9. /\ Compiles(cut) /\ Len(cut) = Len(levels)
      /\ \A i \in 1 .. Len(levels) : cut[i] = IF levels[i] = c THEN WithLines(c, q) ELSE levels[i]
  BY <1>1, <1>2, <1>6, WithLevels
<1> HIDE DEF cut, c
<1>10. \A i \in 1 .. Len(levels) : Tighter(cut[i], levels[i])
  BY <1>8, <1>9 DEF Tighter
<1>11. ASSUME NEW path, NEW isDir, ResolveIgnore(levels, path, isDir).hidden
       PROVE  ResolveIgnore(cut, path, isDir).hidden
  BY <1>1, <1>9, <1>10, <1>11, TighterHides
<1>12. Hides(cut, e.path, e.isDir)
  BY <1>5, <1>11 DEF Hides, Above
<1>13. Resolve(levels, e.path, e.isDir).decision = "HIDDEN"
  BY <1>3, <1>5, Resolves
<1>14. Resolve(cut, e.path, e.isDir).decision = "HIDDEN"
  BY <1>3, <1>12, Resolves
<1> QED
  BY <1>13, <1>14 DEF cut, q, N, Answers, c

\* A hide line that matches hides, when no allow line of its level matches.
LEMMA LinesHide ==
  ASSUME NEW l \in LevelRecs, NEW s \in VerdictRecs, NEW rel, NEW isDir,
         Hit(l, FALSE, rel, isDir), ~Hit(l, TRUE, rel, isDir)
  PROVE  AtLines(l, s, rel, isDir).hidden
<1> DEFINE n == Len(l.patterns)
           Hide(i) == ~l.patterns[i].glob.neg /\ Matches(l.patterns[i].glob, rel, isDir)
<1>1. n \in Nat /\ \A k \in 1 .. n : l.patterns[k] \in LineRecs
  <2>1. l.patterns \in Seq(LineRecs)
    BY DEF LevelRecs
  <2> QED BY <2>1, Element, Zenon
<1>2. PICK f : Lined(f, l, s, rel, isDir)
  BY LinesRun
<1>3. /\ f \in [0 .. n -> VerdictRecs] /\ AtLines(l, s, rel, isDir) = f[n]
      /\ f[0] = s /\ \A k \in 1 .. n : f[k] = AtLine(l, l.patterns[k], f[k - 1], rel, isDir)
  BY <1>2 DEF Lined, LineRun
<1>4. PICK h \in 1 .. n : Hide(h)
  BY DEF Hit
<1>5. \A i \in 1 .. n : Matches(l.patterns[i].glob, rel, isDir) => Hide(i)
  <2>1. ASSUME NEW i \in 1 .. n, Matches(l.patterns[i].glob, rel, isDir) PROVE l.patterns[i].glob.neg # TRUE
    BY <2>1 DEF Hit
  <2>2. ASSUME NEW i \in 1 .. n PROVE l.patterns[i].glob.neg \in BOOLEAN
    <3>1. l.patterns[i] \in LineRecs
      BY <1>1
    <3> QED BY <3>1 DEF LineRecs, Globs
  <2> QED BY <2>1, <2>2
<1> DEFINE G == {k \in 0 .. n : (\E i \in 1 .. k : Hide(i)) => f[k].hidden}
<1> HIDE DEF n
<1>6. 0 .. n \subseteq G
  <2>1. 0 \in G
    <3>1. 0 \in 0 .. n /\ 1 .. 0 = {}
      BY <1>1
    <3> QED BY <3>1
  <2>2. ASSUME NEW k \in 0 .. n - 1, k \in G PROVE k + 1 \in G
    <3>1. k \in 0 .. n /\ k + 1 \in 1 .. n /\ k + 1 \in 0 .. n /\ (k + 1) - 1 = k /\ 1 .. k + 1 = (1 .. k) \cup {k + 1}
      BY <1>1
    <3> DEFINE p == l.patterns[k + 1]
    <3>2. f[k] \in VerdictRecs /\ f[k + 1] = AtLine(l, p, f[k], rel, isDir)
      BY <3>1, <1>3
    <3>3. CASE Hide(k + 1)
      <4>1. f[k + 1] = [f[k] EXCEPT !.hidden = TRUE]
        BY <3>2, <3>3 DEF AtLine
      <4>2. f[k + 1].hidden
        BY <3>2, <4>1 DEF VerdictRecs
      <4> QED BY <3>1, <4>2
    <3>4. CASE ~Hide(k + 1)
      <4>1. f[k + 1] = f[k]
        BY <3>1, <3>2, <3>4, <1>5 DEF AtLine
      <4>2. (\E i \in 1 .. k + 1 : Hide(i)) => \E i \in 1 .. k : Hide(i)
        BY <3>1, <3>4
      <4> HIDE DEF Hide
      <4> QED BY <3>1, <4>1, <4>2, <2>2
    <3> QED BY <3>3, <3>4
  <2> HIDE DEF G
  <2> QED BY <1>1, <2>1, <2>2, UpTo
<1>7. n \in 0 .. n
  BY <1>1
<1> QED
  BY <1>3, <1>4, <1>6, <1>7

\* A level's patterns and masks are sequences, its directory one of the walk's.
LEMMA LevelIs ==
  ASSUME Compiles(rs.levels), NEW l \in Levels
  PROVE  /\ l \in LevelRecs /\ l.patterns \in Seq(LineRecs)
         /\ l.dir # Global => l.dir \in Seq(Seq(STRING))
         /\ \E i \in 1 .. Len(rs.levels) : rs.levels[i] = l
<1>1. rs.levels \in Seq(LevelRecs)
  BY DEF Compiles
<1>2. PICK i \in 1 .. Len(rs.levels) : rs.levels[i] = l
  BY <1>1 DEF Levels, ToSet
<1>3. l \in LevelRecs
  BY <1>1, <1>2
<1>4. l.patterns \in Seq(LineRecs) /\ l.dir \in Dirs
  BY <1>3 DEF LevelRecs
<1> QED
  BY <1>2, <1>3, <1>4, TreeDirsArePaths DEF Dirs

\* Without a redundant level a path is hidden where it was.
LEMMA RedundantVerdict ==
  ASSUME Inv, NEW c \in Subdirs(rs), NEW p \in ParentLevels(rs, c), Covered(c, p),
         Negations(c) = {}, Negations(p) = {}, NEW e \in Entries
  PROVE  ResolveIgnore(With(c, <<>>), e.path, e.isDir).hidden <=> ResolveIgnore(rs.levels, e.path, e.isDir).hidden
<1> DEFINE levels == rs.levels
           n == Len(levels)
           cut == With(c, <<>>)
           path == e.path
           isDir == e.isDir
           rel == RelativeTo(c, path)
<1>1. path \in Seq(Seq(STRING)) /\ isDir \in BOOLEAN
  BY EntryPaths
<1>2. Compiles(levels)
  BY DEF Inv
<1>3. /\ c \in Levels /\ ~c.poisoned /\ c.dir \notin {<<>>, Global}
      /\ p \in Levels /\ ~p.poisoned /\ p.dir \notin {<<>>, Global} /\ IsStrictPrefix(p.dir, c.dir)
      /\ \A l \in Subdirs(rs) : IsStrictPrefix(l.dir, c.dir) => Len(l.dir) <= Len(p.dir)
  BY DEF ParentLevels, Subdirs, Levels
<1>4. /\ c \in LevelRecs /\ c.patterns \in Seq(LineRecs) /\ c.dir \in Seq(Seq(STRING))
      /\ p \in LevelRecs /\ p.patterns \in Seq(LineRecs) /\ p.dir \in Seq(Seq(STRING))
  BY <1>2, <1>3, LevelIs
<1>5. PICK i \in 1 .. n : levels[i] = c
  BY <1>2, <1>3, LevelIs
<1>6. PICK j \in 1 .. n : levels[j] = p
  BY <1>2, <1>3, LevelIs
<1>7. n \in Nat /\ \A k \in 1 .. n : levels[k] \in LevelRecs /\ levels[k] \in Levels
  <2>1. levels \in Seq(LevelRecs)
    BY <1>2 DEF Compiles
  <2>2. n \in Nat /\ \A k \in 1 .. n : levels[k] \in LevelRecs
    BY <2>1, Element, Zenon
  <2>3. \A k \in 1 .. n : levels[k] \in Levels
    BY <2>1 DEF Levels, ToSet
  <2> QED BY <2>2, <2>3
<1>8. \A a, b \in 1 .. n : a < b => Before(levels[a].dir, levels[b].dir)
  BY <1>2 DEF Compiles, Ordered
<1>9. j < i
  <2>1. p.dir # c.dir
    BY <1>3 DEF IsStrictPrefix
  <2>2. ~ (i < j)
    BY <1>3, <1>5, <1>6, <1>8 DEF Before
  <2>3. i # j
    BY <2>1, <1>5, <1>6
  <2> QED BY <2>2, <2>3, <1>7
<1>10. \A k \in 1 .. n : k # i => levels[k] # c
  <2>1. ASSUME NEW k \in 1 .. n, k # i PROVE levels[k].dir # levels[i].dir
    <3>1. k < i \/ i < k
      BY <2>1, <1>7
    <3> QED BY <3>1, <1>8 DEF Before
  <2> QED BY <2>1, <1>5
<1> DEFINE m == WithLines(c, <<>>)
<1>11. m \in LevelRecs /\ m.dir = c.dir /\ m.poisoned = c.poisoned /\ m.patterns = <<>>
  <2>1. <<>> \in Seq(LineRecs)
    OBVIOUS
  <2> QED BY <2>1, <1>4, WithLinesType
<1>12. /\ Compiles(cut) /\ Len(cut) = n /\ cut[i] = m
       /\ \A k \in 1 .. n : k # i => cut[k] = levels[k]
  <2>1. <<>> \in Seq(LineRecs)
    OBVIOUS
  <2>2. /\ Compiles(cut) /\ Len(cut) = n
        /\ \A k \in 1 .. n : cut[k] = IF levels[k] = c THEN m ELSE levels[k]
    <3> HIDE DEF m
    <3> QED BY <2>1, <1>2, <1>3, WithLevels DEF m
  <2> HIDE DEF cut, levels, n, m
  <2> QED BY <2>2, <1>5, <1>10
<1> HIDE DEF cut, m, n, levels, rel, path, isDir
<1>13. PICK f : Leveled(f, levels, path, isDir)
  BY <1>2, LevelsRun
<1>14. PICK g : Leveled(g, cut, path, isDir)
  BY <1>12, LevelsRun
<1>15. /\ f \in [0 .. n -> VerdictRecs] /\ f[0] = NoVerdict /\ ResolveIgnore(levels, path, isDir) = f[n]
       /\ g \in [0 .. n -> VerdictRecs] /\ g[0] = NoVerdict /\ ResolveIgnore(cut, path, isDir) = g[n]
       /\ \A k \in 1 .. n : f[k] = IF Applicable(levels[k], path) THEN AtLevel(levels[k], f[k - 1], path, isDir) ELSE f[k - 1]
       /\ \A k \in 1 .. n : g[k] = IF Applicable(cut[k], path) THEN AtLevel(cut[k], g[k - 1], path, isDir) ELSE g[k - 1]
  BY <1>12, <1>13, <1>14 DEF Leveled, LevelRun, n
<1>16. /\ 0 \in 0 .. n /\ i - 1 \in 0 .. n /\ i \in 0 .. n /\ n \in i .. n /\ i \in Nat /\ j \in Nat
       /\ \A k \in 0 + 1 .. i - 1 : k \in 1 .. n /\ k # i
       /\ \A k \in i + 1 .. n : k \in 1 .. n /\ k # i
  BY <1>7
<1>17. \A k \in 1 .. n : k # i => Tighter(cut[k], levels[k]) /\ Tighter(levels[k], cut[k])
  BY <1>12 DEF Tighter
<1>18. AtLeast(g[i - 1], f[i - 1]) /\ AtLeast(f[i - 1], g[i - 1])
  <2>1. AtLeast(g[0], f[0]) /\ AtLeast(f[0], g[0])
    BY <1>15 DEF AtLeast
  <2> DEFINE b == i - 1
  <2>2. 0 \in 0 .. n /\ b \in 0 .. n /\ n = Len(levels) /\ n = Len(cut)
    BY <1>12, <1>16 DEF n
  <2>3. \A k \in 0 + 1 .. b : Tighter(cut[k], levels[k]) /\ Tighter(levels[k], cut[k])
    BY <1>16, <1>17
  <2> HIDE DEF b
  <2>4. AtLeast(g[b], f[b])
    BY <2>1, <2>2, <2>3, <1>2, <1>12, <1>13, <1>14, TighterRuns
  <2>5. AtLeast(f[b], g[b])
    BY <2>1, <2>2, <2>3, <1>2, <1>12, <1>13, <1>14, TighterRuns
  <2> QED BY <2>4, <2>5 DEF b
<1>19. AtLeast(g[i], f[i]) /\ AtLeast(f[i], g[i])
  <2>1. f[i - 1] \in VerdictRecs /\ g[i - 1] \in VerdictRecs
    BY <1>15, <1>16
  <2>2. Applicable(c, path) <=> Applicable(m, path)
    BY <1>11 DEF Applicable
  <2>3. CASE ~Applicable(c, path)
    BY <2>2, <2>3, <1>5, <1>12, <1>15, <1>18
  <2>4. CASE Applicable(c, path)
    <3>1. f[i] = AtLines(c, f[i - 1], rel, isDir)
      BY <2>4, <1>3, <1>5, <1>15 DEF AtLevel, Floored, rel
    <3>2. g[i] = AtLines(m, g[i - 1], rel, isDir)
      <4>1. RelativeTo(m, path) = rel
        BY <1>11 DEF RelativeTo, rel
      <4> QED BY <2>2, <2>4, <4>1, <1>3, <1>11, <1>12, <1>15 DEF AtLevel, Floored
    <3>3. LineEffect(c, f[i - 1], f[i], rel, isDir) /\ LineEffect(m, g[i - 1], g[i], rel, isDir)
      BY <3>1, <3>2, <2>1, <1>4, <1>11, LineEffects
    <3>4. \A b : ~Hit(m, b, rel, isDir)
      BY <1>11 DEF Hit
    <3>5. ~Hit(c, TRUE, rel, isDir)
      BY <1>3, <1>4 DEF Hit, Negations, ToSet
    <3>6. Hit(c, FALSE, rel, isDir) => f[i - 1].hidden
      <4>1. SUFFICES ASSUME Hit(c, FALSE, rel, isDir), ~f[i - 1].hidden PROVE FALSE
        OBVIOUS
      <4>2. IsPrefix(c.dir, path) /\ e \in Below(c)
        BY <2>4, <1>3 DEF Applicable, Below, path
      <4>3. \E x \in ToSet(p.patterns) : LevelMatches(p, x, e)
        <5>1. PICK a \in 1 .. Len(c.patterns) : Matches(c.patterns[a].glob, rel, isDir)
          BY <4>1 DEF Hit
        <5>2. c.patterns[a] \in ToSet(c.patterns) /\ LevelMatches(c, c.patterns[a], e)
          BY <5>1, <1>4 DEF ToSet, LevelMatches, rel, path, isDir
        <5> QED BY <5>2, <4>2 DEF Covered
      <4> DEFINE relp == RelativeTo(p, path)
      <4>4. Hit(p, FALSE, relp, isDir) /\ ~Hit(p, TRUE, relp, isDir)
        <5>1. \A a \in 1 .. Len(p.patterns) : p.patterns[a].glob.neg = FALSE
          <6>1. \A a \in 1 .. Len(p.patterns) : p.patterns[a] \in LineRecs /\ p.patterns[a] \in ToSet(p.patterns)
            BY <1>4 DEF ToSet
          <6> QED BY <6>1, <1>3 DEF Negations, LineRecs, Globs
        <5>2. PICK a \in 1 .. Len(p.patterns) : LevelMatches(p, p.patterns[a], e)
          <6>1. PICK x \in ToSet(p.patterns) : LevelMatches(p, x, e)
            BY <4>3
          <6>2. PICK a \in 1 .. Len(p.patterns) : p.patterns[a] = x
            BY <1>4 DEF ToSet
          <6> QED BY <6>1, <6>2
        <5>3. Matches(p.patterns[a].glob, relp, isDir)
          BY <5>2 DEF LevelMatches, path, isDir
        <5> QED BY <5>1, <5>2, <5>3 DEF Hit
      <4>5. IsPrefix(p.dir, path) /\ Applicable(p, path)
        <5>1. IsPrefix(p.dir, c.dir)
          BY <1>3 DEF IsStrictPrefix
        <5>2. IsPrefix(p.dir, path)
          BY <5>1, <4>2, <1>1, <1>4, PrefixOfPrefix
        <5> QED BY <5>2 DEF Applicable
      <4>6. f[j].hidden
        <5>1. j - 1 \in 0 .. n /\ f[j - 1] \in VerdictRecs
          BY <1>7, <1>15
        <5>2. f[j] = AtLines(p, f[j - 1], relp, isDir)
          BY <4>5, <1>3, <1>6, <1>15 DEF AtLevel, Floored
        <5> HIDE DEF relp
        <5> QED BY <5>1, <5>2, <4>4, <1>4, LinesHide
      <4> DEFINE b == i - 1
      <4>7. b \in 1 .. Len(levels) /\ j \in 1 .. b
        BY <1>7, <1>9, <1>16 DEF n
      <4>8. ~f[b].hidden
        BY <4>1
      <4> HIDE DEF b
      <4>9. f \in [0 .. Len(levels) -> VerdictRecs] /\ LevelRun(f, levels, path, isDir)
        BY <1>13 DEF Leveled
      <4>10. PICK k \in j + 1 .. b :
               /\ levels[k].dir # Global /\ ~levels[k].poisoned /\ Applicable(levels[k], path)
               /\ Hit(levels[k], TRUE, RelativeTo(levels[k], path), isDir)
        BY <4>6, <4>7, <4>8, <4>9, <1>2, ShowsAgain
      <4>11. k \in 1 .. n /\ j < k /\ k < i
        BY <1>7, <1>16 DEF b
      <4> DEFINE l == levels[k]
      <4>12. l \in Levels /\ l \in LevelRecs /\ l.dir \in Seq(Seq(STRING)) /\ IsPrefix(l.dir, path)
        <5>1. l \in Levels
          BY <4>11, <1>7
        <5>2. l.dir \in Seq(Seq(STRING)) /\ l \in LevelRecs
          BY <5>1, <4>10, <1>2, LevelIs DEF levels
        <5> QED BY <5>1, <5>2, <4>10 DEF Applicable
      <4> HIDE DEF l
      <4>13. IsStrictPrefix(l.dir, c.dir)
        <5>1. l.dir # c.dir /\ ~IsStrictPrefix(c.dir, l.dir)
          BY <4>10, <4>11, <1>5, <1>8 DEF Before, l
        <5> QED BY <5>1, <4>2, <4>12, <1>1, <1>4, Comparable
      <4>14. IsStrictPrefix(p.dir, l.dir)
        <5>1. p.dir # l.dir /\ ~IsStrictPrefix(l.dir, p.dir)
          BY <4>11, <1>3, <1>6, <1>8 DEF Before, l
        <5> QED BY <5>1, <4>5, <4>12, <1>1, <1>4, Comparable
      <4>15. Len(p.dir) < Len(l.dir)
        BY <4>12, <4>14, <1>4, PrefixElements
      <4>16. l \in Subdirs(rs)
        <5>1. l.patterns # <<>>
          BY <4>10 DEF Hit, l
        <5>2. l.dir # <<>>
          BY <4>15, <1>4
        <5> QED BY <5>1, <5>2, <4>10, <4>12 DEF Subdirs, Levels, l
      <4>17. Len(l.dir) <= Len(p.dir)
        BY <4>13, <4>16, <1>3
      <4>18. Len(l.dir) \in Nat /\ Len(p.dir) \in Nat
        BY <4>12, <1>4
      <4> QED BY <4>15, <4>17, <4>18
    <3>7. /\ f[i].floor = f[i - 1].floor /\ (f[i].hidden <=> f[i - 1].hidden)
          /\ g[i].floor = g[i - 1].floor /\ (g[i].hidden <=> g[i - 1].hidden)
      BY <3>3, <3>4, <3>5, <3>6 DEF LineEffect
    <3> QED BY <3>7, <1>18 DEF AtLeast
  <2> QED BY <2>3, <2>4
<1>20. AtLeast(g[n], f[n]) /\ AtLeast(f[n], g[n])
  <2>1. n = Len(levels) /\ n = Len(cut)
    BY <1>12 DEF n
  <2>2. AtLeast(g[n], f[n])
    BY <2>1, <1>2, <1>12, <1>13, <1>14, <1>16, <1>17, <1>19, TighterRuns
  <2>3. AtLeast(f[n], g[n])
    BY <2>1, <1>2, <1>12, <1>13, <1>14, <1>16, <1>17, <1>19, TighterRuns
  <2> QED BY <2>2, <2>3
<1> QED
  BY <1>15, <1>20 DEF AtLeast, cut, levels, path, isDir

\* Without a redundant level every entry resolves as before.
LEMMA RedundantLevel ==
  ASSUME Inv, NEW c \in Subdirs(rs), NEW p \in ParentLevels(rs, c), Covered(c, p),
         Negations(c) = {}, Negations(p) = {}, NEW e \in Entries
  PROVE  Resolve(With(c, <<>>), e.path, e.isDir).decision = Answers(e).decision
<1> DEFINE cut == With(c, <<>>)
           levels == rs.levels
<1>1. e.path \in Seq(Seq(STRING)) /\ Len(e.path) \in Nat /\ e.isDir \in BOOLEAN
  BY EntryPaths
<1>2. ResolveIgnore(cut, e.path, e.isDir).hidden <=> ResolveIgnore(levels, e.path, e.isDir).hidden
  BY RedundantVerdict
<1>3. ASSUME NEW k \in 1 .. Len(e.path) - 1
      PROVE  ResolveIgnore(cut, SubSeq(e.path, 1, k), TRUE).hidden <=> ResolveIgnore(levels, SubSeq(e.path, 1, k), TRUE).hidden
  <2> DEFINE d == [path |-> SubSeq(e.path, 1, k), isDir |-> TRUE]
  <2>1. d \in Entries /\ d.path = SubSeq(e.path, 1, k) /\ d.isDir = TRUE
    BY EntriesAssumption
  <2> HIDE DEF d
  <2>2. ResolveIgnore(cut, d.path, d.isDir).hidden <=> ResolveIgnore(levels, d.path, d.isDir).hidden
    BY <2>1, RedundantVerdict
  <2> QED BY <2>1, <2>2
<1>4. MaskHits(cut, e.path) = MaskHits(levels, e.path)
  <2>1. Compiles(rs.levels) /\ c \in Levels
    BY DEF Inv, Subdirs, Levels
  <2>2. <<>> \in Seq(LineRecs)
    OBVIOUS
  <2> DEFINE q == <<>>
  <2> HIDE DEF q
  <2>3. q \in Seq(LineRecs)
    BY <2>2 DEF q
  <2>4. \A path : MaskHits(With(c, q), path) = MaskHits(rs.levels, path)
    BY <2>1, <2>3, WithLevels
  <2> QED BY <2>4 DEF q
<1> HIDE DEF cut, levels
<1>5. Above(cut, e.path) = Above(levels, e.path)
  BY <1>3 DEF Above
<1>6. Hides(cut, e.path, e.isDir) <=> Hides(levels, e.path, e.isDir)
  BY <1>2, <1>5 DEF Hides
<1>7. Bad(cut, e.path) <=> Bad(levels, e.path)
  BY <1>4 DEF Bad
<1> DEFINE a == Resolve(levels, e.path, e.isDir)
           b == Resolve(cut, e.path, e.isDir)
           u == UnionPatterns(MaskHits(levels, e.path))
<1>8. /\ a.decision = "HIDDEN" <=> Hides(levels, e.path, e.isDir) \/ (~e.isDir /\ Bad(levels, e.path))
      /\ a.decision = "MASKED" <=> a.decision # "HIDDEN" /\ ~e.isDir /\ u # {}
      /\ a.decision \in {"HIDDEN", "MASKED", "ALLOWED"}
  BY <1>1, Resolves
<1>9. /\ b.decision = "HIDDEN" <=> Hides(levels, e.path, e.isDir) \/ (~e.isDir /\ Bad(levels, e.path))
      /\ b.decision = "MASKED" <=> b.decision # "HIDDEN" /\ ~e.isDir /\ u # {}
      /\ b.decision \in {"HIDDEN", "MASKED", "ALLOWED"}
  <2>1. /\ b.decision = "HIDDEN" <=> Hides(cut, e.path, e.isDir) \/ (~e.isDir /\ Bad(cut, e.path))
        /\ b.decision = "MASKED" <=> b.decision # "HIDDEN" /\ ~e.isDir /\ UnionPatterns(MaskHits(cut, e.path)) # {}
        /\ b.decision \in {"HIDDEN", "MASKED", "ALLOWED"}
    BY <1>1, Resolves
  <2> HIDE DEF b
  <2> QED BY <2>1, <1>4, <1>6, <1>7
<1> HIDE DEF a, b, u
<1>10. b.decision = a.decision
  BY <1>8, <1>9
<1> QED
  BY <1>10 DEF a, b, cut, levels, Answers

\* The linter's two kinds of finding, one after the other.
LEMMA LintSoundHolds == Inv => LintSound
<1> SUFFICES ASSUME Inv PROVE LintSound
  OBVIOUS
<1>1. ASSUME NEW f \in HiddenDirNegationFindings(rs) \cup GlobalFloorNegationFindings(rs)
      PROVE  LET cut == With(f[1], Pick(f[1].patterns, {i \in DOMAIN f[1].patterns : f[1].patterns[i] # f[2]}))
             IN Resolve(cut, f[3].path, f[3].isDir).decision = Answers(f[3]).decision
  BY DeadNegation
<1>2. ASSUME NEW f \in SubdirRedundancyFindings(rs), Negations(f[1]) \cup Negations(f[2]) = {}, NEW e \in Entries
      PROVE  Resolve(With(f[1], <<>>), e.path, e.isDir).decision = Answers(e).decision
  <2>1. f \in Subdirs(rs) \X Subdirs(rs) /\ f[2] \in ParentLevels(rs, f[1]) /\ Covered(f[1], f[2])
    BY DEF SubdirRedundancyFindings
  <2>2. f[1] \in Subdirs(rs) /\ Negations(f[1]) = {} /\ Negations(f[2]) = {}
    BY <2>1, <1>2
  <2> QED BY <2>1, <2>2, RedundantLevel
<1> QED
  BY <1>1, <1>2 DEF LintSound

\* A rule that the linter calls without effect has none.
THEOREM LinterFindingsAreSound == Spec => []LintSound
  BY RuleSetInvariant, LintSoundHolds, PTL

=============================================================================
