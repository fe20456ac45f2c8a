---------------------------- MODULE RedactProofs ----------------------------
(***************************************************************************)
(* Streamed redaction, for every file, chunk size, carried tail and buffer *)
(* and whatever the reader returns at a time: it loses, repeats and moves  *)
(* nothing, never holds more than its bound, and masks what masking the    *)
(* file at once would mask.  The first two follow from an invariant about  *)
(* places: what was written is the beginning of the source with bytes      *)
(* masked, and the backlog is what comes next in it.  The last one needs   *)
(* what Redact masks, which is worked out from the bottom: what a pattern  *)
(* matches, what the scan finds, what sorting and merging the spans        *)
(* covers, and what becomes of a match when the bytes are cut.             *)
(***************************************************************************)
EXTENDS Redact, WellFoundedInduction, TLAPS

Modes  == {"start", "wholeFile", "line", "chunked"}
States == {"reading", "done", "failed"}
Shown  == Bytes \cup {Masked}

\* o is the beginning of S, some of its bytes masked.
Beginning(o, S) == Len(o) <= Len(S) /\ \A i \in 1 .. Len(o) : o[i] \in {S[i], Masked}

\* d is what S goes on with after its first n elements.
GoesOn(d, n, S) == n + Len(d) <= Len(S) /\ \A i \in 1 .. Len(d) : d[i] = S[n + i]

\* r is the first n elements of d, some of them masked.
Masks(r, d, n) == r \in Seq(Shown) /\ Len(r) = n /\ \A i \in 1 .. n : r[i] \in {d[i], Masked}

TypeOK ==
    /\ file \in Seq(Bytes) /\ req \in Requests
    /\ mode \in Modes /\ state \in States
    /\ pos \in Nat /\ buf \in Seq(Bytes) /\ out \in Seq(Shown)

\* The backlog of a reading stream is between what was written and what was
\* read; nothing is read before Classify, nor a piece at a time by the
\* whole-file mode.
Backlog ==
    /\ pos <= Len(Src)
    /\ state = "reading" => pos = Len(out) + Len(buf) /\ GoesOn(buf, Len(out), Src)
    /\ (mode \in {"start", "wholeFile"} /\ state = "reading") => pos = 0

Inv ==
    /\ TypeOK
    /\ Backlog
    /\ Beginning(out, Src)
    /\ state = "done" => Len(out) = Len(Src)
    /\ BacklogBounded

-----------------------------------------------------------------------------
(* Numbers, recursive functions and sequences *)

\* A set of numbers that is not empty has a least one.
LEMMA Least ==
  ASSUME NEW T, T \subseteq Nat, T # {}
  PROVE  \E n \in T : \A m \in T : n <= m
<1> DEFINE R == {ss \in Nat \X Nat : ss[1] < ss[2]}
<1>1. IsWellFoundedOn(OpToRel(<, Nat), Nat)
  BY NatLessThanWellFounded
<1>2. IsWellFoundedOn(R, Nat)
  BY <1>1 DEF OpToRel
<1>3. \A m, n \in Nat : m < n => <<m, n>> \in R
  OBVIOUS
<1> HIDE DEF R
<1>4. PICK n \in T : \A m \in T : ~ (<<m, n>> \in R)
  BY <1>2, WFMin
<1>5. ASSUME NEW m \in T PROVE n <= m
  <2>1. m \in Nat /\ n \in Nat
    OBVIOUS
  <2>2. ~ (m < n)
    BY <2>1, <1>3, <1>4
  <2> QED BY <2>1, <2>2
<1> QED
  BY <1>5

\* Induction up to n: a set that has 0 and, with any k < n, also k + 1.
LEMMA UpTo ==
  ASSUME NEW n \in Nat, NEW G, 0 \in G, \A k \in 0 .. n - 1 : k \in G => k + 1 \in G
  PROVE  0 .. n \subseteq G
<1> DEFINE T == (0 .. n) \ G
<1>1. SUFFICES ASSUME T # {} PROVE FALSE
  OBVIOUS
<1>2. T \subseteq Nat
  OBVIOUS
<1>3. PICK m \in T : \A k \in T : m <= k
  <2> HIDE DEF T
  <2> QED BY <1>1, <1>2, Least
<1>4. m # 0 /\ m - 1 \in 0 .. n - 1 /\ m - 1 \notin T
  BY <1>3
<1> QED
  BY <1>3, <1>4

\* A function defined by recursion on 0 .. n, its step given as a function.
Obeys(f, n, b, st) == f[0] = b /\ \A k \in 1 .. n : f[k] = st[<<f[k - 1], k>>]

\* There is a function on 0 .. n that starts at b and goes on by st: the
\* recursive functions of this module are such functions.
LEMMA Recursion ==
  ASSUME NEW n \in Nat, NEW V, NEW b \in V, NEW st \in [V \X (1 .. n) -> V]
  PROVE  \E f \in [0 .. n -> V] : Obeys(f, n, b, st)
<1> DEFINE G == {m \in 0 .. n : \E f \in [0 .. m -> V] :
                   f[0] = b /\ \A k \in 1 .. m : f[k] = st[<<f[k - 1], k>>]}
<1>1. 0 \in G
  <2> DEFINE f == [k \in 0 .. 0 |-> b]
  <2>1. f \in [0 .. 0 -> V] /\ f[0] = b /\ \A k \in 1 .. 0 : f[k] = st[<<f[k - 1], k>>]
    OBVIOUS
  <2> HIDE DEF f
  <2> QED BY <2>1
<1>2. ASSUME NEW m \in 0 .. n - 1, m \in G PROVE m + 1 \in G
  <2>1. PICK f \in [0 .. m -> V] : f[0] = b /\ \A k \in 1 .. m : f[k] = st[<<f[k - 1], k>>]
    BY <1>2
  <2> DEFINE g == [k \in 0 .. m + 1 |-> IF k = m + 1 THEN st[<<f[m], m + 1>>] ELSE f[k]]
  <2>2. f[m] \in V /\ m + 1 \in 1 .. n /\ st[<<f[m], m + 1>>] \in V
    OBVIOUS
  <2>3. g \in [0 .. m + 1 -> V]
    BY <2>2
  <2>4. g[0] = b
    BY <2>1
  <2>5. ASSUME NEW k \in 1 .. m + 1 PROVE g[k] = st[<<g[k - 1], k>>]
    <3>1. CASE k = m + 1
      <4>1. k - 1 = m /\ m \in 0 .. m + 1 /\ m # m + 1 /\ k \in 0 .. m + 1
        BY <3>1
      <4>2. g[k] = st[<<f[m], m + 1>>] /\ g[m] = f[m]
        BY <4>1, <3>1
      <4> QED BY <4>1, <4>2, <3>1
    <3>2. CASE k # m + 1
      <4>1. k \in 1 .. m /\ k \in 0 .. m + 1 /\ k - 1 \in 0 .. m + 1 /\ k - 1 # m + 1
        BY <3>2
      <4>2. g[k] = f[k] /\ g[k - 1] = f[k - 1]
        BY <4>1, <3>2
      <4> QED BY <4>1, <4>2, <2>1
    <3> QED BY <3>1, <3>2
  <2> HIDE DEF g
  <2> QED BY <2>3, <2>4, <2>5
<1>3. 0 .. n \subseteq G
  <2> HIDE DEF G
  <2> QED BY <1>1, <1>2, UpTo
<1> QED
  BY <1>3 DEF Obeys

ObeysIn(f, n, V, st) == \A k \in 1 .. n : f[k - 1] \in V => f[k] = st[<<f[k - 1], k>>]

\* A function that goes on by st wherever it is in V is such a function.
LEMMA Computed ==
  ASSUME NEW n \in Nat, NEW V, NEW b \in V, NEW st \in [V \X (1 .. n) -> V],
         NEW U, NEW f \in [0 .. n -> U], f[0] = b,
         ObeysIn(f, n, V, st)
  PROVE  f \in [0 .. n -> V] /\ Obeys(f, n, b, st)
<1> DEFINE G == {k \in 0 .. n : f[k] \in V}
<1>1. 0 \in G
  OBVIOUS
<1>2. ASSUME NEW k \in 0 .. n - 1, k \in G PROVE k + 1 \in G
  <2>1. k + 1 \in 1 .. n /\ k + 1 \in 0 .. n /\ (k + 1) - 1 = k
    OBVIOUS
  <2>2. f[k] \in V
    BY <1>2
  <2>3. f[k + 1] = st[<<f[k], k + 1>>]
    BY <2>1, <2>2 DEF ObeysIn
  <2>4. st[<<f[k], k + 1>>] \in V
    BY <2>1, <2>2
  <2> QED BY <2>1, <2>3, <2>4
<1>3. 0 .. n \subseteq G
  <2> HIDE DEF G
  <2> QED BY <1>1, <1>2, UpTo
<1>4. f \in [0 .. n -> V]
  BY <1>3
<1>5. \A k \in 1 .. n : k - 1 \in 0 .. n /\ f[k - 1] \in V
  BY <1>3
<1> QED
  BY <1>4, <1>5 DEF Obeys, ObeysIn

\* The elements of the first k of the sequences ss.
Among(ss, k, x) == \E j \in 1 .. k : \E i \in 1 .. Len(ss[j]) : ss[j][i] = x
Has(t, x) == \E i \in 1 .. Len(t) : t[i] = x

\* What is in a concatenation is in one of its parts.
LEMMA Concatenated ==
  ASSUME NEW X, NEW t \in Seq(X), NEW u \in Seq(X)
  PROVE  t \o u \in Seq(X) /\ \A x : Has(t \o u, x) <=> Has(t, x) \/ Has(u, x)
<1>1. /\ t \o u \in Seq(X) /\ Len(t \o u) = Len(t) + Len(u) /\ Len(t) \in Nat /\ Len(u) \in Nat
      /\ \A i \in 1 .. Len(t) : (t \o u)[i] = t[i]
      /\ \A i \in 1 .. Len(u) : (t \o u)[Len(t) + i] = u[i]
  OBVIOUS
<1> DEFINE tu == t \o u
<1> HIDE DEF tu
<1>2. ASSUME NEW x, Has(tu, x) PROVE Has(t, x) \/ Has(u, x)
  <2>1. PICK i \in 1 .. Len(tu) : tu[i] = x
    BY <1>2 DEF Has
  <2>2. CASE i <= Len(t)
    <3>1. i \in 1 .. Len(t)
      BY <2>2, <1>1 DEF tu
    <3> QED BY <3>1, <2>1, <1>1 DEF Has, tu
  <2>3. CASE i > Len(t)
    <3>1. i - Len(t) \in 1 .. Len(u) /\ Len(t) + (i - Len(t)) = i
      BY <2>3, <1>1 DEF tu
    <3>2. u[i - Len(t)] = x
      BY <3>1, <2>1, <1>1 DEF tu
    <3> QED BY <3>1, <3>2 DEF Has
  <2> QED BY <2>2, <2>3, <1>1
<1>3. ASSUME NEW x, Has(t, x) PROVE Has(tu, x)
  <2>1. PICK i \in 1 .. Len(t) : t[i] = x
    BY <1>3 DEF Has
  <2>2. i \in 1 .. Len(tu)
    BY <1>1 DEF tu
  <2> QED BY <2>1, <2>2, <1>1 DEF Has, tu
<1>4. ASSUME NEW x, Has(u, x) PROVE Has(tu, x)
  <2>1. PICK i \in 1 .. Len(u) : u[i] = x
    BY <1>4 DEF Has
  <2>2. Len(t) + i \in 1 .. Len(tu) /\ tu[Len(t) + i] = x
    BY <1>1, <2>1 DEF tu
  <2> QED BY <2>2 DEF Has
<1> QED
  BY <1>1, <1>2, <1>3, <1>4 DEF tu

\* What is in a flattened sequence is in one of its sequences, and
\* nothing is lost.
LEMMA Flattened ==
  ASSUME NEW X, NEW ss \in Seq(Seq(X))
  PROVE  FlattenSeq(ss) \in Seq(X) /\ \A x : Has(FlattenSeq(ss), x) <=> Among(ss, Len(ss), x)
<1> DEFINE n == Len(ss)
           Body(f) == [i \in 1 .. n |-> IF i = 1 THEN ss[i] ELSE f[i - 1] \o ss[i]]
           st == [p \in Seq(X) \X (1 .. n) |-> p[1] \o ss[p[2]]]
           flat == CHOOSE f : f = Body(f)
<1>1. n \in Nat /\ <<>> \in Seq(X) /\ \A k \in 1 .. n : ss[k] \in Seq(X)
  OBVIOUS
<1>2. st \in [Seq(X) \X (1 .. n) -> Seq(X)]
  BY <1>1
<1>3. \A q \in Seq(X), k \in 1 .. n : st[<<q, k>>] = q \o ss[k]
  OBVIOUS
<1>4. PICK f \in [0 .. n -> Seq(X)] : Obeys(f, n, <<>>, st)
  <2> HIDE DEF st, n
  <2> QED BY <1>1, <1>2, Recursion, Zenon
<1>5. \A k \in 1 .. n : f[k] = f[k - 1] \o ss[k]
  <2>1. \A k \in 1 .. n : f[k - 1] \in Seq(X)
    <3> HIDE DEF st, n
    <3>1. \A k \in 1 .. n : k - 1 \in 0 .. n
      BY <1>1
    <3> QED BY <3>1
  <2> HIDE DEF st, n
  <2> QED BY <1>3, <1>4, <2>1 DEF Obeys
<1> DEFINE g == [k \in 1 .. n |-> f[k]]
<1>6. g = Body(g)
  <2>1. ASSUME NEW k \in 1 .. n PROVE g[k] = Body(g)[k]
    <3>1. CASE k = 1
      <4>1. f[0] = <<>> /\ k - 1 = 0
        BY <1>4, <3>1 DEF Obeys
      <4>2. <<>> \o ss[k] = ss[k]
        BY <1>1
      <4>3. f[k] = ss[k]
        BY <4>1, <4>2, <1>5
      <4> QED BY <3>1, <4>3
    <3>2. CASE k # 1
      <4>1. k - 1 \in 1 .. n
        BY <3>2, <1>1
      <4>2. g[k - 1] = f[k - 1]
        BY <4>1
      <4> QED BY <3>2, <4>2, <1>5
    <3> QED BY <3>1, <3>2
  <2> QED BY <2>1
<1>7. flat = Body(flat)
  <2> HIDE DEF Body
  <2> QED BY <1>6
<1>8. \A k \in 1 .. n : flat[k] = IF k = 1 THEN ss[k] ELSE flat[k - 1] \o ss[k]
  <2> HIDE DEF flat
  <2> QED BY <1>7
<1> HIDE DEF flat
<1> DEFINE OK(k) == flat[k] \in Seq(X) /\ \A x : Has(flat[k], x) <=> Among(ss, k, x)
           G == {k \in 0 .. n : k = 0 \/ OK(k)}
<1>9. ASSUME NEW k \in 0 .. n - 1, k \in G PROVE k + 1 \in G
  <2>1. k + 1 \in 1 .. n /\ k + 1 \in 0 .. n /\ (k + 1) - 1 = k /\ k + 1 # 0
    BY <1>1
  <2>2. CASE k = 0
    <3>0. 1 \in 1 .. n
      BY <2>1, <2>2
    <3>1. flat[1] = ss[1] /\ ss[1] \in Seq(X)
      <4> HIDE DEF n
      <4> QED BY <3>0, <1>8, <1>1
    <3>2. \A x : Has(ss[1], x) <=> Among(ss, 1, x)
      BY DEF Has, Among
    <3> QED BY <2>1, <2>2, <3>1, <3>2
  <2>3. CASE k # 0
    <3>1. flat[k + 1] = flat[k] \o ss[k + 1] /\ flat[k] \in Seq(X) /\ ss[k + 1] \in Seq(X)
      <4>1. flat[k] \in Seq(X)
        BY <2>3, <1>9
      <4>2. ss[k + 1] \in Seq(X)
        BY <2>1, <1>1
      <4>3. k + 1 # 1
        BY <2>1, <2>3
      <4>4. flat[k + 1] = flat[k] \o ss[k + 1]
        <5> HIDE DEF n
        <5> QED BY <4>3, <2>1, <1>8
      <4> QED BY <4>1, <4>2, <4>4
    <3>2. flat[k + 1] \in Seq(X) /\ \A x : Has(flat[k + 1], x) <=> Has(flat[k], x) \/ Has(ss[k + 1], x)
      <4>1. flat[k] \o ss[k + 1] \in Seq(X)
        BY <3>1
      <4>2. \A x : Has(flat[k] \o ss[k + 1], x) <=> Has(flat[k], x) \/ Has(ss[k + 1], x)
        BY <3>1, Concatenated
      <4> QED BY <3>1, <4>1, <4>2
    <3>3. 1 .. k + 1 = (1 .. k) \cup {k + 1}
      BY <2>1
    <3>4. \A x : Among(ss, k + 1, x) <=> Among(ss, k, x) \/ Has(ss[k + 1], x)
      BY <3>3 DEF Among, Has
    <3>5. \A x : Has(flat[k], x) <=> Among(ss, k, x)
      BY <2>3, <1>9
    <3> QED BY <2>1, <3>2, <3>4, <3>5
  <2> QED BY <2>2, <2>3
<1>10. 0 .. n \subseteq G
  <2>1. 0 \in G
    BY <1>1
  <2> HIDE DEF G
  <2> QED BY <1>1, <2>1, <1>9, UpTo
<1>11. CASE n = 0
  <2>1. ss = <<>> /\ FlattenSeq(ss) = ss
    BY <1>11 DEF FlattenSeq
  <2>2. <<>> \in Seq(X) /\ \A x : ~ Has(<<>>, x)
    BY DEF Has
  <2>3. \A x : ~ Among(ss, n, x)
    BY <1>11 DEF Among
  <2> QED BY <2>1, <2>2, <2>3
<1>12. CASE n # 0
  <2>1. n \in 0 .. n /\ n \in G
    <3> HIDE DEF G, n
    <3> QED BY <1>1, <1>10
  <2>2. FlattenSeq(ss) = flat[n]
    BY <1>12 DEF FlattenSeq, flat
  <2> QED BY <2>1, <2>2, <1>12
<1> QED
  BY <1>11, <1>12

\* What a sequence put after another one becomes.
LEMMA Appended ==
    ASSUME NEW X, NEW t \in Seq(X), NEW u \in Seq(X)
    PROVE  /\ t \o u \in Seq(X) /\ Len(t \o u) = Len(t) + Len(u)
           /\ \A i \in 1 .. Len(t) + Len(u) :
                 (t \o u)[i] = IF i <= Len(t) THEN t[i] ELSE u[i - Len(t)]
OBVIOUS

-----------------------------------------------------------------------------
(* mergeSpans: what it covers *)

Spans == [off : Nat, len : Nat]
Covers(a, j) == a.off <= j /\ j < End(a)

\* A span of t has byte j.
Within(t, j) == \E i \in 1 .. Len(t) : Covers(t[i], j)

\* Within is about what t has, in whatever order.
LEMMA WithinIs == ASSUME NEW t PROVE \A j : Within(t, j) <=> \E a : Has(t, a) /\ Covers(a, j)
BY DEF Within, Has

Ascending(t) == \A i, j \in 1 .. Len(t) : i < j => t[i].off <= t[j].off
AscSeqs == {t \in Seq(Spans) : Ascending(t)}

\* Where Insert puts a span into an ascending list.
LEMMA InsertPlace ==
  ASSUME NEW t \in AscSeqs, NEW a \in Spans
  PROVE  \E k \in 0 .. Len(t) : \A i \in 1 .. Len(t) : i <= k <=> t[i].off <= a.off
<1>1. t \in Seq(Spans) /\ Len(t) \in Nat /\ Ascending(t)
  BY DEF AscSeqs
<1>2. a.off \in Nat /\ \A i \in 1 .. Len(t) : t[i].off \in Nat
  <2>1. \A i \in 1 .. Len(t) : t[i] \in Spans
    BY <1>1
  <2> QED BY <2>1 DEF Spans
<1> DEFINE T == {k \in 0 .. Len(t) : \A i \in 1 .. Len(t) : t[i].off <= a.off => i <= k}
<1>3. T \subseteq Nat /\ Len(t) \in T
  BY <1>1
<1>4. PICK m \in T : \A k \in T : m <= k
  <2>1. T \subseteq Nat /\ T # {}
    <3> HIDE DEF T
    <3> QED BY <1>3
  <2> HIDE DEF T
  <2> QED BY <2>1, Least
<1>5. m \in 0 .. Len(t)
  OBVIOUS
<1>6. ASSUME NEW i \in 1 .. Len(t), i <= m PROVE t[i].off <= a.off
  <2>1. m - 1 \in 0 .. Len(t) /\ m - 1 \notin T
    <3>1. m - 1 \in 0 .. Len(t) /\ ~(m <= m - 1)
      BY <1>1, <1>5, <1>6
    <3> HIDE DEF T
    <3> QED BY <3>1, <1>4
  <2>2. PICK j \in 1 .. Len(t) : t[j].off <= a.off /\ ~(j <= m - 1)
    BY <2>1
  <2>3. i <= j
    BY <1>1, <1>5, <1>6, <2>2
  <2>4. t[i].off <= t[j].off
    <3>1. CASE i = j
      BY <3>1, <1>2
    <3>2. CASE i < j
      BY <3>2, <1>1 DEF Ascending
    <3> QED BY <3>1, <3>2, <2>3
  <2> QED BY <2>2, <2>4, <1>2
<1>7. \A i \in 1 .. Len(t) : t[i].off <= a.off => i <= m
  OBVIOUS
<1> QED
  BY <1>5, <1>6, <1>7

\* Insert keeps the order, loses nothing and adds a.
LEMMA InsertKeeps ==
  ASSUME NEW t \in AscSeqs, NEW a \in Spans
  PROVE  /\ Insert(t, a) \in AscSeqs
         /\ \A x : Has(Insert(t, a), x) <=> Has(t, x) \/ x = a
<1> DEFINE P(k) == \A i \in 1 .. Len(t) : i <= k <=> t[i].off <= a.off
           k == CHOOSE k \in 0 .. Len(t) : P(k)
           l == SubSeq(t, 1, k)
           r == SubSeq(t, k + 1, Len(t))
           u == l \o <<a>> \o r
<1>1. t \in Seq(Spans) /\ Len(t) \in Nat /\ Ascending(t)
  BY DEF AscSeqs
<1>2. k \in 0 .. Len(t) /\ P(k)
  BY InsertPlace, Zenon
<1>3. Insert(t, a) = u
  BY Zenon DEF Insert
<1> HIDE DEF k, P
<1>4. /\ l \in Seq(Spans) /\ Len(l) = k /\ \A i \in 1 .. k : l[i] = t[i]
      /\ r \in Seq(Spans) /\ Len(r) = Len(t) - k /\ \A i \in 1 .. Len(t) - k : r[i] = t[k + i]
  BY <1>1, <1>2
<1> HIDE DEF l, r
<1>5. u \in Seq(Spans) /\ Len(u) = Len(t) + 1
  BY <1>1, <1>2, <1>4
<1>6. \A i \in 1 .. Len(u) : u[i] = IF i <= k THEN t[i] ELSE IF i = k + 1 THEN a ELSE t[i - 1]
  <2> SUFFICES ASSUME NEW i \in 1 .. Len(u)
               PROVE  u[i] = IF i <= k THEN t[i] ELSE IF i = k + 1 THEN a ELSE t[i - 1]
    OBVIOUS
  <2>1. u[i] = IF i <= k THEN l[i] ELSE IF i = k + 1 THEN a ELSE r[i - (k + 1)]
    BY <1>1, <1>2, <1>4, <1>5
  <2>2. i > k + 1 => i - (k + 1) \in 1 .. Len(t) - k /\ k + (i - (k + 1)) = i - 1
    BY <1>1, <1>2, <1>5
  <2>3. i <= k => i \in 1 .. k
    BY <1>2
  <2>4. i > k + 1 => r[i - (k + 1)] = t[i - 1]
    BY <2>2, <1>4
  <2>5. i \in Int /\ k \in Int
    BY <1>2
  <2> HIDE DEF u
  <2> QED BY <2>1, <2>3, <2>4, <2>5, <1>4
<1> HIDE DEF u
<1>7. a.off \in Nat /\ \A i \in 1 .. Len(t) : t[i].off \in Nat
  <2>1. \A i \in 1 .. Len(t) : t[i] \in Spans
    BY <1>1
  <2> QED BY <2>1 DEF Spans
<1>8. Ascending(u)
  <2> SUFFICES ASSUME NEW i \in 1 .. Len(u), NEW j \in 1 .. Len(u), i < j PROVE u[i].off <= u[j].off
    BY DEF Ascending
  <2>1. k \in Nat /\ k <= Len(t) /\ Len(u) = Len(t) + 1 /\ i \in Nat /\ j \in Nat
    BY <1>1, <1>2, <1>5
  <2>2. CASE j <= k
    <3>1. i \in 1 .. Len(t) /\ j \in 1 .. Len(t) /\ i <= k
      BY <2>1, <2>2
    <3> QED BY <3>1, <2>2, <1>1, <1>6 DEF Ascending
  <2>3. CASE j = k + 1
    <3>1. i \in 1 .. Len(t) /\ i <= k /\ u[i] = t[i] /\ u[j] = a
      BY <2>1, <2>3, <1>6
    <3> QED BY <3>1, <1>2 DEF P
  <2>4. CASE j > k + 1
    <3>1. j - 1 \in 1 .. Len(t) /\ u[j] = t[j - 1] /\ ~(j - 1 <= k)
      BY <2>1, <2>4, <1>6
    <3>2. CASE i <= k
      <4>1. i \in 1 .. Len(t) /\ i < j - 1 /\ u[i] = t[i]
        BY <2>1, <2>4, <3>2, <1>6
      <4> QED BY <4>1, <3>1, <1>1 DEF Ascending
    <3>3. CASE i = k + 1
      <4>1. u[i] = a /\ ~(t[j - 1].off <= a.off)
        BY <3>1, <3>3, <2>1, <1>2, <1>6 DEF P
      <4> QED BY <4>1, <3>1, <1>7
    <3>4. CASE i > k + 1
      <4>1. i - 1 \in 1 .. Len(t) /\ i - 1 < j - 1 /\ u[i] = t[i - 1]
        BY <2>1, <3>4, <1>6
      <4> QED BY <4>1, <3>1, <1>1 DEF Ascending
    <3> QED BY <3>2, <3>3, <3>4, <2>1
  <2> QED BY <2>1, <2>2, <2>3, <2>4
<1>9. ASSUME NEW x, Has(u, x) PROVE Has(t, x) \/ x = a
  <2>1. PICK i \in 1 .. Len(u) : u[i] = x
    BY <1>9 DEF Has
  <2>2. \/ i \in 1 .. Len(t) /\ u[i] = t[i]
        \/ u[i] = a
        \/ i - 1 \in 1 .. Len(t) /\ u[i] = t[i - 1]
    BY <1>1, <1>2, <1>5, <1>6
  <2> QED BY <2>1, <2>2 DEF Has
<1>10. ASSUME NEW x, Has(t, x) PROVE Has(u, x)
  <2>1. PICK i \in 1 .. Len(t) : t[i] = x
    BY <1>10 DEF Has
  <2>2. \/ i \in 1 .. Len(u) /\ u[i] = t[i]
        \/ i + 1 \in 1 .. Len(u) /\ u[i + 1] = t[i]
    <3>1. CASE i <= k
      BY <3>1, <1>1, <1>2, <1>5, <1>6
    <3>2. CASE ~(i <= k)
      <4>1. i + 1 \in 1 .. Len(u) /\ ~(i + 1 <= k) /\ i + 1 # k + 1 /\ (i + 1) - 1 = i
        BY <3>2, <1>1, <1>2, <1>5
      <4> QED BY <4>1, <1>6
    <3> QED BY <3>1, <3>2
  <2> QED BY <2>1, <2>2 DEF Has
<1>11. Has(u, a)
  <2>1. k + 1 \in 1 .. Len(u) /\ u[k + 1] = a
    BY <1>1, <1>2, <1>5, <1>6
  <2> QED BY <2>1 DEF Has
<1> QED
  BY <1>3, <1>5, <1>8, <1>9, <1>10, <1>11 DEF AscSeqs

\* Sorted puts the spans in order, one after the other.
LEMMA SortedSteps ==
  ASSUME NEW t \in Seq(Spans)
  PROVE  \E f \in [0 .. Len(t) -> AscSeqs] :
           /\ f[0] = <<>> /\ \A k \in 1 .. Len(t) : f[k] = Insert(f[k - 1], t[k])
           /\ Sorted(t) = f[Len(t)]
<1> DEFINE n == Len(t)
           Body(f) == [k \in 0 .. n |-> IF k = 0 THEN <<>> ELSE Insert(f[k - 1], t[k])]
           st == [p \in AscSeqs \X (1 .. n) |-> Insert(p[1], t[p[2]])]
           sorted == CHOOSE f : f = Body(f)
<1>1. n \in Nat /\ \A k \in 1 .. n : t[k] \in Spans
  OBVIOUS
<1>2. <<>> \in AscSeqs
  BY DEF AscSeqs, Ascending
<1>3. \A v \in AscSeqs, k \in 1 .. n : Insert(v, t[k]) \in AscSeqs
  BY <1>1, InsertKeeps
<1>4. st \in [AscSeqs \X (1 .. n) -> AscSeqs]
  BY <1>3
<1>5. \A v \in AscSeqs, k \in 1 .. n : st[<<v, k>>] = Insert(v, t[k])
  OBVIOUS
<1> HIDE DEF st, n
<1>6. PICK f \in [0 .. n -> AscSeqs] : Obeys(f, n, <<>>, st)
  BY <1>1, <1>2, <1>4, Recursion, Zenon
<1>7. f[0] = <<>> /\ \A k \in 1 .. n : f[k] = Insert(f[k - 1], t[k])
  <2>1. \A k \in 1 .. n : k - 1 \in 0 .. n
    BY <1>1
  <2>2. \A k \in 1 .. n : f[k - 1] \in AscSeqs
    BY <2>1
  <2> QED BY <1>5, <1>6, <2>2 DEF Obeys
<1>8. f = Body(f)
  <2>1. ASSUME NEW k \in 0 .. n PROVE f[k] = Body(f)[k]
    <3>1. k = 0 \/ k \in 1 .. n
      BY <1>1
    <3> QED BY <3>1, <1>7
  <2> QED BY <2>1
<1>9. sorted = Body(sorted)
  <2> HIDE DEF Body
  <2> QED BY <1>8
<1>10. Sorted(t) = sorted[n]
  BY DEF Sorted, n
<1> HIDE DEF sorted
<1>11. sorted[0] = <<>> /\ \A k \in 1 .. n : sorted[k] = Insert(sorted[k - 1], t[k])
  <2>1. 0 \in 0 .. n /\ \A k \in 1 .. n : k \in 0 .. n /\ k # 0
    BY <1>1
  <2> QED BY <2>1, <1>9
<1> DEFINE U == {sorted[k] : k \in 0 .. n}
<1>12. sorted \in [0 .. n -> U]
  BY <1>9
<1> HIDE DEF U
<1>13. ObeysIn(sorted, n, AscSeqs, st)
  BY <1>5, <1>11 DEF ObeysIn
<1>14. sorted \in [0 .. n -> AscSeqs]
  <2>1. sorted[0] = <<>>
    BY <1>11
  <2> QED BY <1>1, <1>2, <1>4, <2>1, <1>12, <1>13, Computed, Zenon
<1> QED
  BY <1>10, <1>11, <1>14 DEF n

\* Sorting loses nothing and adds nothing.
LEMMA SortedKeeps ==
  ASSUME NEW t \in Seq(Spans)
  PROVE  /\ Sorted(t) \in AscSeqs
         /\ \A x : Has(Sorted(t), x) <=> Has(t, x)
<1> DEFINE n == Len(t)
<1>1. n \in Nat /\ \A k \in 1 .. n : t[k] \in Spans
  OBVIOUS
<1>2. PICK f \in [0 .. n -> AscSeqs] :
         /\ f[0] = <<>> /\ \A k \in 1 .. n : f[k] = Insert(f[k - 1], t[k])
         /\ Sorted(t) = f[n]
  BY SortedSteps, Zenon
<1> HIDE DEF n
<1> DEFINE OK(k) == \A x : Has(f[k], x) <=> \E i \in 1 .. k : t[i] = x
           G == {k \in 0 .. n : OK(k)}
<1>3. 0 \in G
  <2>1. OK(0)
    BY <1>2 DEF Has
  <2> QED BY <2>1, <1>1
<1>4. ASSUME NEW k \in 0 .. n - 1, k \in G PROVE k + 1 \in G
  <2>1. k + 1 \in 1 .. n /\ k + 1 \in 0 .. n /\ (k + 1) - 1 = k /\ k \in 0 .. n
    BY <1>1
  <2>2. f[k + 1] = Insert(f[k], t[k + 1]) /\ f[k] \in AscSeqs /\ t[k + 1] \in Spans
    BY <2>1, <1>1, <1>2
  <2>3. \A x : Has(f[k + 1], x) <=> Has(f[k], x) \/ x = t[k + 1]
    BY <2>2, InsertKeeps
  <2>4. 1 .. k + 1 = (1 .. k) \cup {k + 1}
    BY <2>1
  <2>5. OK(k)
    BY <1>4
  <2>6. OK(k + 1)
    BY <2>3, <2>4, <2>5
  <2> QED BY <2>1, <2>6
<1>5. 0 .. n \subseteq G
  <2> HIDE DEF G
  <2> QED BY <1>1, <1>3, <1>4, UpTo
<1>6. n \in 0 .. n
  BY <1>1
<1>7. OK(n)
  BY <1>5, <1>6
<1> QED
  BY <1>2, <1>6, <1>7 DEF Has, n

\* What the last span of a list has, and the ones before it.
LEMMA LastOrFront ==
  ASSUME NEW t \in Seq(Spans), t # <<>>
  PROVE  /\ Last(t) \in Spans /\ Front(t) \in Seq(Spans)
         /\ \A j : Within(t, j) <=> Within(Front(t), j) \/ Covers(Last(t), j)
<1> DEFINE n == Len(t)
<1>1. n \in Nat /\ n # 0 /\ n \in 1 .. n /\ Last(t) = t[n] /\ t[n] \in Spans
  BY DEF Last
<1>2. Front(t) \in Seq(Spans) /\ Len(Front(t)) = n - 1 /\ \A i \in 1 .. n - 1 : Front(t)[i] = t[i]
  <2> DEFINE u == SubSeq(t, 1, n - 1)
  <2>1. u \in Seq(Spans) /\ Len(u) = n - 1 /\ \A i \in 1 .. n - 1 : u[i] = t[i]
    <3> DEFINE k == n - 1
    <3>1. k \in 0 .. Len(t)
      BY <1>1
    <3> HIDE DEF k
    <3>2. SubSeq(t, 1, k) \in Seq(Spans) /\ Len(SubSeq(t, 1, k)) = k /\ \A i \in 1 .. k : SubSeq(t, 1, k)[i] = t[i]
      BY <3>1
    <3> QED BY <3>2 DEF k
  <2>2. Front(t) = u
    BY DEF Front
  <2> HIDE DEF u
  <2> QED BY <2>1, <2>2
<1>3. 1 .. n = (1 .. n - 1) \cup {n}
  BY <1>1
<1> QED
  BY <1>1, <1>2, <1>3 DEF Within

\* One span put at the end: what it has is covered as well.
LEMMA WithinAppend ==
  ASSUME NEW t \in Seq(Spans), NEW a \in Spans
  PROVE  /\ Append(t, a) \in Seq(Spans) /\ Append(t, a) # <<>> /\ Last(Append(t, a)) = a
         /\ \A j : Within(Append(t, a), j) <=> Within(t, j) \/ Covers(a, j)
<1> DEFINE n == Len(t)
           u == Append(t, a)
<1>1. /\ n \in Nat /\ u \in Seq(Spans) /\ Len(u) = n + 1 /\ u[n + 1] = a
      /\ \A i \in 1 .. n : u[i] = t[i]
  OBVIOUS
<1> HIDE DEF u
<1>2. u # <<>> /\ Last(u) = a
  BY <1>1 DEF Last
<1>3. 1 .. n + 1 = (1 .. n) \cup {n + 1}
  BY <1>1
<1>4. \A j : Within(u, j) <=> Within(t, j) \/ Covers(a, j)
  BY <1>1, <1>3 DEF Within
<1> QED
  BY <1>1, <1>2, <1>4 DEF u

\* One span more: what is covered is what was covered, and the span.
LEMMA CoalesceStep ==
  ASSUME NEW acc \in Seq(Spans), NEW next \in Spans
  PROVE  /\ Coalesce(acc, next) \in Seq(Spans)
         /\ (acc # <<>> => Last(acc).off <= next.off) =>
              /\ Coalesce(acc, next) # <<>> /\ Last(Coalesce(acc, next)).off <= next.off
              /\ \A j \in Nat : Within(Coalesce(acc, next), j) <=> Within(acc, j) \/ Covers(next, j)
<1>1. next.off \in Nat /\ next.len \in Nat
  BY DEF Spans
<1>2. CASE acc # <<>> /\ next.off <= End(Last(acc))
  <2> DEFINE last == Last(acc)
  <2>1. last \in Spans /\ Front(acc) \in Seq(Spans) /\ \A j : Within(acc, j) <=> Within(Front(acc), j) \/ Covers(last, j)
    BY <1>2, LastOrFront
  <2> HIDE DEF last
  <2>2. last.off \in Nat /\ last.len \in Nat
    BY <2>1 DEF Spans
  <2>3. CASE End(next) > End(last)
    <3> DEFINE a == [off |-> last.off, len |-> End(next) - last.off]
    <3>1. Coalesce(acc, next) = Append(Front(acc), a)
      BY <1>2, <2>3 DEF Coalesce, last
    <3>2. a \in Spans /\ a.off = last.off /\ End(a) = End(next)
      BY <1>1, <2>2, <2>3 DEF Spans, End
    <3> HIDE DEF a
    <3>3. /\ Append(Front(acc), a) \in Seq(Spans) /\ Append(Front(acc), a) # <<>> /\ Last(Append(Front(acc), a)) = a
          /\ \A j : Within(Append(Front(acc), a), j) <=> Within(Front(acc), j) \/ Covers(a, j)
      BY <2>1, <3>2, WithinAppend
    <3>4. ASSUME last.off <= next.off, NEW j \in Nat
          PROVE  Covers(a, j) <=> Covers(last, j) \/ Covers(next, j)
      <4>1. next.off <= End(last)
        BY <1>2 DEF last
      <4>2. /\ End(last) \in Nat /\ End(next) \in Nat
        BY <1>1, <2>2 DEF End
      <4> QED BY <3>4, <4>1, <4>2, <1>1, <2>2, <2>3, <3>2 DEF Covers
    <3> QED BY <1>2, <2>1, <3>1, <3>2, <3>3, <3>4 DEF last
  <2>4. CASE ~(End(next) > End(last))
    <3>1. Coalesce(acc, next) = acc
      BY <1>2, <2>4 DEF Coalesce, last
    <3>2. ASSUME last.off <= next.off, NEW j \in Nat
          PROVE  Covers(next, j) => Covers(last, j)
      BY <3>2, <1>1, <2>2, <2>4 DEF Covers, End
    <3> QED BY <1>2, <2>1, <3>1, <3>2 DEF last
  <2> QED BY <2>3, <2>4
<1>3. CASE ~(acc # <<>> /\ next.off <= End(Last(acc)))
  <2>1. Coalesce(acc, next) = Append(acc, next)
    BY <1>3 DEF Coalesce
  <2> QED BY <2>1, <1>1, WithinAppend
<1> QED
  BY <1>2, <1>3

\* Coalesced takes the spans one after the other.
LEMMA CoalescedSteps ==
  ASSUME NEW t \in Seq(Spans)
  PROVE  \E f \in [0 .. Len(t) -> Seq(Spans)] :
           /\ f[0] = <<>> /\ \A k \in 1 .. Len(t) : f[k] = Coalesce(f[k - 1], t[k])
           /\ Coalesced(t) = f[Len(t)]
<1> DEFINE n == Len(t)
           V == Seq(Spans)
           Body(f) == [k \in 0 .. n |-> IF k = 0 THEN <<>> ELSE Coalesce(f[k - 1], t[k])]
           st == [p \in V \X (1 .. n) |-> Coalesce(p[1], t[p[2]])]
           merged == CHOOSE f : f = Body(f)
<1>1. n \in Nat /\ \A k \in 1 .. n : t[k] \in Spans
  OBVIOUS
<1>2. <<>> \in V
  OBVIOUS
<1>3. \A v \in V, k \in 1 .. n : Coalesce(v, t[k]) \in V
  BY <1>1, CoalesceStep
<1> HIDE DEF V
<1>4. st \in [V \X (1 .. n) -> V]
  BY <1>3
<1>5. \A v \in V, k \in 1 .. n : st[<<v, k>>] = Coalesce(v, t[k])
  OBVIOUS
<1> HIDE DEF st, n
<1>6. PICK f \in [0 .. n -> V] : Obeys(f, n, <<>>, st)
  BY <1>1, <1>2, <1>4, Recursion, Zenon
<1>7. f[0] = <<>> /\ \A k \in 1 .. n : f[k] = Coalesce(f[k - 1], t[k])
  <2>1. \A k \in 1 .. n : k - 1 \in 0 .. n
    BY <1>1
  <2>2. \A k \in 1 .. n : f[k - 1] \in V
    BY <2>1
  <2> QED BY <1>5, <1>6, <2>2 DEF Obeys
<1>8. f = Body(f)
  <2>1. ASSUME NEW k \in 0 .. n PROVE f[k] = Body(f)[k]
    <3>1. k = 0 \/ k \in 1 .. n
      BY <1>1
    <3> QED BY <3>1, <1>7
  <2> QED BY <2>1
<1>9. merged = Body(merged)
  <2> HIDE DEF Body
  <2> QED BY <1>8
<1>10. Coalesced(t) = merged[n]
  BY DEF Coalesced, n
<1> HIDE DEF merged
<1>11. merged[0] = <<>> /\ \A k \in 1 .. n : merged[k] = Coalesce(merged[k - 1], t[k])
  <2>1. 0 \in 0 .. n /\ \A k \in 1 .. n : k \in 0 .. n /\ k # 0
    BY <1>1
  <2> QED BY <2>1, <1>9
<1> DEFINE U == {merged[k] : k \in 0 .. n}
<1>12. merged \in [0 .. n -> U]
  BY <1>9
<1> HIDE DEF U
<1>13. ObeysIn(merged, n, V, st)
  BY <1>5, <1>11 DEF ObeysIn
<1>14. merged \in [0 .. n -> V]
  <2>1. merged[0] = <<>>
    BY <1>11
  <2> QED BY <1>1, <1>2, <1>4, <2>1, <1>12, <1>13, Computed, Zenon
<1> QED
  BY <1>10, <1>11, <1>14 DEF n, V

\* Coalescing an ascending list changes nothing of what it covers.
LEMMA CoalescedCovers ==
  ASSUME NEW t \in AscSeqs
  PROVE  /\ Coalesced(t) \in Seq(Spans)
         /\ \A j \in Nat : Within(Coalesced(t), j) <=> Within(t, j)
<1> DEFINE n == Len(t)
<1>1. t \in Seq(Spans) /\ n \in Nat /\ Ascending(t) /\ \A k \in 1 .. n : t[k] \in Spans
  BY DEF AscSeqs
<1>2. PICK f \in [0 .. n -> Seq(Spans)] :
         /\ f[0] = <<>> /\ \A k \in 1 .. n : f[k] = Coalesce(f[k - 1], t[k])
         /\ Coalesced(t) = f[n]
  BY <1>1, CoalescedSteps, Zenon
<1> HIDE DEF n
<1> DEFINE OK(k) == /\ f[k] # <<>> => k # 0 /\ Last(f[k]).off <= t[k].off
                    /\ \A j \in Nat : Within(f[k], j) <=> \E i \in 1 .. k : Covers(t[i], j)
           G == {k \in 0 .. n : OK(k)}
<1>3. 0 \in G
  <2>1. OK(0)
    BY <1>2 DEF Within
  <2> QED BY <2>1, <1>1
<1>4. ASSUME NEW k \in 0 .. n - 1, k \in G PROVE k + 1 \in G
  <2>1. k + 1 \in 1 .. n /\ k + 1 \in 0 .. n /\ (k + 1) - 1 = k /\ k \in 0 .. n /\ k + 1 # 0
    BY <1>1
  <2>2. f[k + 1] = Coalesce(f[k], t[k + 1]) /\ f[k] \in Seq(Spans) /\ t[k + 1] \in Spans
    BY <2>1, <1>1, <1>2
  <2>3. OK(k)
    BY <1>4
  <2>4. f[k] # <<>> => Last(f[k]).off <= t[k + 1].off
    <3> SUFFICES ASSUME f[k] # <<>> PROVE Last(f[k]).off <= t[k + 1].off
      OBVIOUS
    <3>1. k \in 1 .. n /\ k < k + 1
      BY <2>1, <2>3
    <3>2. t[k].off <= t[k + 1].off
      BY <2>1, <3>1, <1>1 DEF Ascending, n
    <3>3. t[k].off \in Nat /\ t[k + 1].off \in Nat
      BY <3>1, <2>1, <1>1 DEF Spans
    <3>4. Last(f[k]).off \in Nat
      <4>1. Last(f[k]) \in Spans
        BY <2>2, LastOrFront
      <4> QED BY <4>1 DEF Spans
    <3> QED BY <2>3, <3>2, <3>3, <3>4
  <2>5. /\ f[k + 1] # <<>> /\ Last(f[k + 1]).off <= t[k + 1].off
        /\ \A j \in Nat : Within(f[k + 1], j) <=> Within(f[k], j) \/ Covers(t[k + 1], j)
    <3> DEFINE acc == f[k]
               next == t[k + 1]
    <3>1. acc \in Seq(Spans) /\ next \in Spans /\ (acc # <<>> => Last(acc).off <= next.off) /\ f[k + 1] = Coalesce(acc, next)
      BY <2>2, <2>4
    <3> HIDE DEF acc, next
    <3>2. /\ Coalesce(acc, next) # <<>> /\ Last(Coalesce(acc, next)).off <= next.off
          /\ \A j \in Nat : Within(Coalesce(acc, next), j) <=> Within(acc, j) \/ Covers(next, j)
      BY <3>1, CoalesceStep, Zenon
    <3> QED BY <3>1, <3>2, Zenon DEF acc, next
  <2>6. 1 .. k + 1 = (1 .. k) \cup {k + 1}
    BY <2>1
  <2>7. \A j \in Nat : Within(f[k + 1], j) <=> \E i \in 1 .. k + 1 : Covers(t[i], j)
    BY <2>3, <2>5, <2>6
  <2>8. OK(k + 1)
    BY <2>1, <2>5, <2>7
  <2> QED BY <2>1, <2>8
<1>5. 0 .. n \subseteq G
  <2> HIDE DEF G
  <2> QED BY <1>1, <1>3, <1>4, UpTo
<1>6. n \in 0 .. n
  BY <1>1
<1>7. OK(n)
  BY <1>5, <1>6
<1> QED
  BY <1>2, <1>6, <1>7 DEF Within, n

\* mergeSpans covers what the spans cover.
LEMMA MergeCovers ==
  ASSUME NEW t \in Seq(Spans)
  PROVE  /\ MergeSpans(t) \in Seq(Spans)
         /\ \A j \in Nat : Within(MergeSpans(t), j) <=> Within(t, j)
<1>1. Sorted(t) \in AscSeqs /\ \A x : Has(Sorted(t), x) <=> Has(t, x)
  BY SortedKeeps
<1>2. \A j : Within(Sorted(t), j) <=> Within(t, j)
  BY <1>1, WithinIs
<1>3. Coalesced(Sorted(t)) \in Seq(Spans) /\ \A j \in Nat : Within(Coalesced(Sorted(t)), j) <=> Within(Sorted(t), j)
  BY <1>1, CoalescedCovers
<1> QED
  BY <1>2, <1>3 DEF MergeSpans

-----------------------------------------------------------------------------
(* MatchAt: what a pattern matches *)

\* The patterns whose matches are a "k" and what follows it, on its line or,
\* for "next", on the next one.
Inline == {"key", "env", "line", "next"}

\* The m bytes at i are a match of p.
IsMatch(p, s, i, m) ==
    /\ i \in 1 .. Len(s) /\ m \in Nat /\ m >= 2 /\ i + m - 1 <= Len(s)
    /\ s[i] = "k"
    /\ p = "next" => m = 3 /\ s[i + 1] = "n" /\ s[i + 2] = "v"
    /\ p # "next" => \A j \in i + 1 .. i + m - 1 : s[j] = "v"
    /\ p = "key" => m = 3
    /\ p \notin {"key", "next"} => (i = 1 \/ s[i - 1] = "n") /\ (i + m - 1 = Len(s) \/ s[i + m] = "n")

\* The m bytes at i go from one "k" to the next.
IsBlock(s, i, m) ==
    /\ i \in 1 .. Len(s) /\ m \in Nat /\ m >= 2 /\ i + m - 1 <= Len(s)
    /\ s[i] = "k" /\ s[i + m - 1] = "k" /\ \A j \in i + 1 .. i + m - 2 : s[j] # "k"

\* How long an inline match is, there is only one length for it.
LEMMA MatchIs ==
  ASSUME NEW p \in Inline, NEW s \in Seq(Bytes), NEW i \in 1 .. Len(s)
  PROVE  /\ MatchAt(p, s, i) \in Nat
         /\ \A m \in Nat : m # 0 => (MatchAt(p, s, i) = m <=> IsMatch(p, s, i, m))
<1> DEFINE Vs == {r \in 1 .. Len(s) - i : \A j \in i + 1 .. i + r : s[j] = "v"}
           lineStart == i = 1 \/ s[i - 1] = "n"
           LineEnd(r) == i + r = Len(s) \/ s[i + r + 1] = "n"
           r0 == CHOOSE r \in Vs : LineEnd(r)
<1>1. Len(s) \in Nat /\ i \in Nat /\ i >= 1 /\ i <= Len(s)
  OBVIOUS
<1>2. MatchAt(p, s, i) = IF s[i] # "k" THEN 0
                         ELSE IF p = "key" THEN (IF 2 \in Vs THEN 3 ELSE 0)
                         ELSE IF p = "next" THEN (IF i + 2 <= Len(s) /\ s[i + 1] = "n" /\ s[i + 2] = "v" THEN 3 ELSE 0)
                         ELSE IF lineStart /\ \E r \in Vs : LineEnd(r) THEN 1 + r0 ELSE 0
  <2>1. p # "block"
    BY DEF Inline
  <2> QED BY <2>1, Zenon DEF MatchAt
<1>3. CASE s[i] # "k"
  BY <1>2, <1>3 DEF IsMatch
<1>4. CASE s[i] = "k" /\ p = "key"
  <2>1. MatchAt(p, s, i) = IF 2 \in Vs THEN 3 ELSE 0
    BY <1>2, <1>4
  <2>2. 2 \in Vs <=> i + 2 <= Len(s) /\ \A j \in i + 1 .. i + 2 : s[j] = "v"
    BY <1>1
  <2>3. ASSUME NEW m \in Nat PROVE IsMatch(p, s, i, m) <=> m = 3 /\ 2 \in Vs
    <3>1. CASE m = 3
      <4>1. i + m - 1 = i + 2
        BY <1>1, <3>1
      <4> HIDE DEF Vs
      <4> QED BY <1>1, <1>4, <2>2, <3>1, <4>1 DEF IsMatch
    <3>2. CASE m # 3
      BY <1>4, <3>2 DEF IsMatch
    <3> QED BY <3>1, <3>2
  <2> HIDE DEF Vs
  <2> QED BY <2>1, <2>3
<1>5. CASE s[i] = "k" /\ p = "next"
  <2> DEFINE over == i + 2 <= Len(s) /\ s[i + 1] = "n" /\ s[i + 2] = "v"
  <2>1. MatchAt(p, s, i) = IF over THEN 3 ELSE 0
    BY <1>2, <1>5
  <2>2. ASSUME NEW m \in Nat PROVE IsMatch(p, s, i, m) <=> m = 3 /\ over
    <3>1. i + 3 - 1 = i + 2
      BY <1>1
    <3> QED BY <1>1, <1>5, <3>1 DEF IsMatch
  <2> HIDE DEF over
  <2> QED BY <2>1, <2>2
<1>6. CASE s[i] = "k" /\ p # "key" /\ p # "next"
  <2>1. MatchAt(p, s, i) = IF lineStart /\ \E r \in Vs : LineEnd(r) THEN 1 + r0 ELSE 0
    BY <1>2, <1>6
  <2>2. ASSUME NEW m \in Nat
        PROVE  IsMatch(p, s, i, m) <=> lineStart /\ m - 1 \in Vs /\ LineEnd(m - 1)
    <3>1. IsMatch(p, s, i, m) <=> /\ m >= 2 /\ i + m - 1 <= Len(s) /\ \A j \in i + 1 .. i + m - 1 : s[j] = "v"
                                  /\ lineStart /\ (i + m - 1 = Len(s) \/ s[i + m] = "n")
      BY <1>1, <1>6 DEF IsMatch
    <3>2. m - 1 \in Vs <=> m - 1 \in 1 .. Len(s) - i /\ \A j \in i + 1 .. i + (m - 1) : s[j] = "v"
      OBVIOUS
    <3>3. i + (m - 1) = i + m - 1 /\ i + (m - 1) + 1 = i + m
      BY <1>1
    <3>4. m - 1 \in 1 .. Len(s) - i <=> m >= 2 /\ i + m - 1 <= Len(s)
      BY <1>1
    <3> HIDE DEF Vs, lineStart
    <3> QED BY <3>1, <3>2, <3>3, <3>4
  <2>3. ASSUME NEW q \in Vs, NEW r \in Vs, LineEnd(q), LineEnd(r) PROVE ~(q < r)
    <3> SUFFICES ASSUME q < r PROVE FALSE
      OBVIOUS
    <3>1. i + q + 1 \in i + 1 .. i + r /\ i + r <= Len(s) /\ q \in Nat /\ r \in Nat
      BY <1>1
    <3>2. s[i + q + 1] = "v"
      BY <3>1
    <3> QED BY <1>1, <2>3, <3>1, <3>2
  <2>4. ASSUME NEW r \in Vs PROVE r \in Nat /\ r >= 1
    BY <1>1
  <2>5. (\E r \in Vs : LineEnd(r)) => r0 \in Vs /\ LineEnd(r0)
    <3> HIDE DEF Vs, LineEnd
    <3> QED BY Zenon
  <2> HIDE DEF Vs, LineEnd, lineStart, r0
  <2>6. CASE lineStart /\ \E r \in Vs : LineEnd(r)
    <3>1. r0 \in Vs /\ LineEnd(r0) /\ MatchAt(p, s, i) = 1 + r0
      BY <2>1, <2>5, <2>6
    <3>2. r0 \in Nat /\ (1 + r0) - 1 = r0 /\ 1 + r0 \in Nat
      BY <2>4, <3>1
    <3>3. IsMatch(p, s, i, 1 + r0)
      BY <2>2, <2>6, <3>1, <3>2
    <3>4. ASSUME NEW m \in Nat, IsMatch(p, s, i, m) PROVE m = 1 + r0
      <4>1. m - 1 \in Vs /\ LineEnd(m - 1)
        BY <2>2, <3>4
      <4>2. ~(m - 1 < r0) /\ ~(r0 < m - 1)
        BY <2>3, <3>1, <4>1
      <4> QED BY <3>2, <4>2
    <3> QED BY <3>1, <3>2, <3>3, <3>4
  <2>7. CASE ~(lineStart /\ \E r \in Vs : LineEnd(r))
    BY <2>1, <2>2, <2>7
  <2> QED BY <2>6, <2>7
<1> QED BY <1>3, <1>4, <1>5, <1>6

\* A block goes to the next "k".
LEMMA BlockIs ==
  ASSUME NEW s \in Seq(Bytes), NEW i \in 1 .. Len(s)
  PROVE  /\ MatchAt("block", s, i) \in Nat
         /\ \A m \in Nat : m # 0 => (MatchAt("block", s, i) = m <=> IsBlock(s, i, m))
<1> DEFINE Ends == {j \in i + 1 .. Len(s) : s[j] = "k"}
           e == CHOOSE j \in Ends : \A k \in Ends : j <= k
<1>1. Len(s) \in Nat /\ i \in Nat /\ i >= 1 /\ i <= Len(s)
  OBVIOUS
<1>2. MatchAt("block", s, i) = IF s[i] # "k" THEN 0 ELSE IF Ends = {} THEN 0 ELSE e - i + 1
  <2>1. ASSUME NEW p, p # "key", p # "next", p = "block"
        PROVE  MatchAt(p, s, i) = IF s[i] # "k" THEN 0 ELSE IF Ends = {} THEN 0 ELSE e - i + 1
    BY <2>1 DEF MatchAt
  <2>2. "block" # "key" /\ "block" # "next"
    OBVIOUS
  <2> QED BY <2>1, <2>2, Zenon
<1>3. CASE s[i] # "k"
  BY <1>2, <1>3 DEF IsBlock
<1>4. CASE s[i] = "k"
  <2>1. Ends \subseteq Nat /\ \A j \in Ends : j >= i + 1 /\ j <= Len(s) /\ s[j] = "k"
    BY <1>1
  <2>2. ASSUME NEW m \in Nat
        PROVE  IsBlock(s, i, m) <=> i + m - 1 \in Ends /\ \A k \in Ends : i + m - 1 <= k
    <3>1. IsBlock(s, i, m) <=> /\ i + m - 1 \in Ends /\ \A j \in i + 1 .. i + m - 2 : s[j] # "k"
      BY <1>1, <1>4 DEF IsBlock
    <3>2. ASSUME i + m - 1 \in Ends
          PROVE  (\A j \in i + 1 .. i + m - 2 : s[j] # "k") <=> \A k \in Ends : i + m - 1 <= k
      BY <1>1, <3>2
    <3> HIDE DEF Ends
    <3> QED BY <3>1, <3>2
  <2>3. Ends # {} => e \in Ends /\ \A k \in Ends : e <= k
    <3> HIDE DEF Ends
    <3>1. ASSUME Ends # {} PROVE \E j \in Ends : \A k \in Ends : j <= k
      BY <2>1, <3>1, Least
    <3> QED BY <3>1, Zenon
  <2> HIDE DEF Ends, e
  <2>4. CASE Ends = {}
    BY <1>2, <1>4, <2>2, <2>4
  <2>5. CASE Ends # {}
    <3>1. e \in Ends /\ e \in Nat /\ e >= i + 1 /\ MatchAt("block", s, i) = e - i + 1
      BY <1>2, <1>4, <2>1, <2>3, <2>5
    <3>2. e - i + 1 \in Nat /\ i + (e - i + 1) - 1 = e
      BY <1>1, <3>1
    <3>3. IsBlock(s, i, e - i + 1)
      BY <2>2, <2>3, <2>5, <3>2
    <3>4. ASSUME NEW m \in Nat, IsBlock(s, i, m) PROVE m = e - i + 1
      <4>1. i + m - 1 \in Ends /\ i + m - 1 <= e /\ e <= i + m - 1
        BY <2>2, <2>3, <3>1, <3>4
      <4> QED BY <1>1, <3>1, <4>1
    <3> QED BY <3>1, <3>2, <3>3, <3>4
  <2> QED BY <2>4, <2>5
<1> QED BY <1>3, <1>4

-----------------------------------------------------------------------------
(* FindAllIndex: what it finds *)

Patterns == Inline \cup {"block"}
Found == {a \in Spans : a.off >= 1}
Scanned == [found : Seq(Found), free : Nat]

\* A match has a length.
LEMMA MatchLength ==
  ASSUME NEW p \in Patterns, NEW s \in Seq(Bytes), NEW i \in 1 .. Len(s)
  PROVE  MatchAt(p, s, i) \in Nat
BY MatchIs, BlockIs DEF Patterns

\* The scan of a byte goes on from a list of spans to one.
LEMMA ScanType ==
  ASSUME NEW p \in Patterns, NEW s \in Seq(Bytes), NEW b \in Scanned, NEW i \in 1 .. Len(s)
  PROVE  Scan(p, s, b, i) \in Scanned
<1> DEFINE m == MatchAt(p, s, i)
           a == [off |-> i, len |-> m]
<1>1. m \in Nat
  BY MatchLength
<1> HIDE DEF m
<1>2. a \in Found
  BY <1>1 DEF Found, Spans
<1> HIDE DEF a
<1>3. b.found \in Seq(Found)
  BY DEF Scanned
<1>4. Append(b.found, a) \in Seq(Found) /\ i + m \in Nat
  BY <1>1, <1>2, <1>3
<1>5. Scan(p, s, b, i) = IF i < b.free \/ m = 0 THEN b ELSE [found |-> Append(b.found, a), free |-> i + m]
  BY Zenon DEF Scan, m, a
<1> QED BY <1>4, <1>5 DEF Scanned

\* The scan goes over the bytes one after the other.
LEMMA ScanSteps ==
  ASSUME NEW p \in Patterns, NEW s \in Seq(Bytes)
  PROVE  \E f \in [0 .. Len(s) -> Scanned] :
           /\ f[0] = [found |-> <<>>, free |-> 1]
           /\ \A k \in 1 .. Len(s) : f[k] = Scan(p, s, f[k - 1], k)
           /\ FindAll(p, s) = f[Len(s)].found
<1> DEFINE n == Len(s)
           b == [found |-> <<>>, free |-> 1]
           Body(f) == [k \in 0 .. n |-> IF k = 0 THEN b ELSE Scan(p, s, f[k - 1], k)]
           st == [q \in Scanned \X (1 .. n) |-> Scan(p, s, q[1], q[2])]
           scan == CHOOSE f : f = Body(f)
<1>1. n \in Nat
  OBVIOUS
<1>2. b \in Scanned
  BY DEF Scanned
<1>3. \A v \in Scanned, k \in 1 .. n : Scan(p, s, v, k) \in Scanned
  BY ScanType
<1>10. FindAll(p, s) = scan[n].found
  BY Zenon DEF FindAll
<1> HIDE DEF n, b
<1>4. st \in [Scanned \X (1 .. n) -> Scanned]
  BY <1>3
<1>5. \A v \in Scanned, k \in 1 .. n : st[<<v, k>>] = Scan(p, s, v, k)
  OBVIOUS
<1> HIDE DEF st
<1>6. PICK f \in [0 .. n -> Scanned] : Obeys(f, n, b, st)
  BY <1>1, <1>2, <1>4, Recursion, Zenon
<1>7. f[0] = b /\ \A k \in 1 .. n : f[k] = Scan(p, s, f[k - 1], k)
  <2>1. \A k \in 1 .. n : k - 1 \in 0 .. n
    BY <1>1
  <2>2. \A k \in 1 .. n : f[k - 1] \in Scanned
    BY <2>1
  <2> QED BY <1>5, <1>6, <2>2 DEF Obeys
<1>8. f = Body(f)
  <2>1. ASSUME NEW k \in 0 .. n PROVE f[k] = Body(f)[k]
    <3>1. k = 0 \/ k \in 1 .. n
      BY <1>1
    <3> QED BY <3>1, <1>7
  <2> QED BY <2>1
<1>9. scan = Body(scan)
  <2> HIDE DEF Body
  <2> QED BY <1>8
<1> HIDE DEF scan
<1>11. scan[0] = b /\ \A k \in 1 .. n : scan[k] = Scan(p, s, scan[k - 1], k)
  <2>1. 0 \in 0 .. n /\ \A k \in 1 .. n : k \in 0 .. n /\ k # 0
    BY <1>1
  <2> QED BY <2>1, <1>9
<1> DEFINE U == {scan[k] : k \in 0 .. n}
<1>12. scan \in [0 .. n -> U]
  BY <1>9
<1> HIDE DEF U
<1>13. ObeysIn(scan, n, Scanned, st)
  BY <1>5, <1>11 DEF ObeysIn
<1>14. scan \in [0 .. n -> Scanned]
  <2>1. scan[0] = b
    BY <1>11
  <2> QED BY <1>1, <1>2, <1>4, <2>1, <1>12, <1>13, Computed, Zenon
<1> QED
  BY <1>10, <1>11, <1>14 DEF n, b

\* What is in a list with one more at its end.
LEMMA HasAppend ==
  ASSUME NEW X, NEW t \in Seq(X), NEW a \in X
  PROVE  \A x : Has(Append(t, a), x) <=> Has(t, x) \/ x = a
<1> DEFINE n == Len(t)
           u == Append(t, a)
<1>1. n \in Nat /\ Len(u) = n + 1 /\ u[n + 1] = a /\ \A i \in 1 .. n : u[i] = t[i]
  OBVIOUS
<1> HIDE DEF u
<1>2. 1 .. n + 1 = (1 .. n) \cup {n + 1}
  BY <1>1
<1>3. \A x : Has(u, x) <=> Has(t, x) \/ x = a
  BY <1>1, <1>2 DEF Has
<1> QED BY <1>3 DEF u

\* Inline patterns are found wherever they match: no match of one goes over
\* the beginning of another.
LEMMA InlineFound ==
  ASSUME NEW p \in Inline, NEW s \in Seq(Bytes)
  PROVE  /\ FindAll(p, s) \in Seq(Found)
         /\ \A a \in Found : Has(FindAll(p, s), a) <=> IsMatch(p, s, a.off, a.len)
<1> DEFINE n == Len(s)
<1>1. n \in Nat /\ p \in Patterns
  BY DEF Patterns
<1>2. PICK f \in [0 .. n -> Scanned] :
           /\ f[0] = [found |-> <<>>, free |-> 1]
           /\ \A k \in 1 .. n : f[k] = Scan(p, s, f[k - 1], k)
           /\ FindAll(p, s) = f[n].found
  BY <1>1, ScanSteps, Zenon
<1>3. \A k \in 1 .. n : /\ MatchAt(p, s, k) \in Nat
                        /\ \A m \in Nat : m # 0 => (MatchAt(p, s, k) = m <=> IsMatch(p, s, k, m))
  BY MatchIs
<1>4. \A i, m : IsMatch(p, s, i, m) => /\ i \in 1 .. n /\ m \in Nat /\ m # 0 /\ s[i] = "k"
                                       /\ \A j \in i + 1 .. i + m - 1 : s[j] # "k"
  BY DEF IsMatch
<1> HIDE DEF n
<1> DEFINE Free(k) == \A j \in k + 1 .. f[k].free - 1 : s[j] # "k"
           All(k) == \A a \in Found : Has(f[k].found, a) <=> a.off <= k /\ IsMatch(p, s, a.off, a.len)
           G == {k \in 0 .. n : Free(k) /\ All(k)}
<1>5. 0 \in G
  <2>1. f[0].free = 1 /\ f[0].found = <<>>
    BY <1>2
  <2>2. Free(0)
    BY <2>1
  <2>3. All(0)
    <3>1. ~ \E a : Has(f[0].found, a)
      BY <2>1 DEF Has
    <3>2. \A a \in Found : ~(a.off <= 0)
      BY DEF Found, Spans
    <3> QED BY <3>1, <3>2
  <2> QED BY <2>2, <2>3, <1>1
<1>6. ASSUME NEW k \in 0 .. n - 1, k \in G PROVE k + 1 \in G
  <2>1. k + 1 \in 1 .. n /\ k + 1 \in 0 .. n /\ (k + 1) - 1 = k /\ k \in 0 .. n /\ k \in Nat
    BY <1>1
  <2>2. f[k] \in Scanned /\ f[k].found \in Seq(Found) /\ f[k].free \in Nat
    BY <2>1 DEF Scanned
  <2> DEFINE m == MatchAt(p, s, k + 1)
             a == [off |-> k + 1, len |-> m]
  <2>3. f[k + 1] = IF k + 1 < f[k].free \/ m = 0 THEN f[k]
                   ELSE [found |-> Append(f[k].found, a), free |-> k + 1 + m]
    <3>1. f[k + 1] = Scan(p, s, f[k], k + 1)
      BY <1>2, <2>1
    <3> QED BY <3>1, Zenon DEF Scan
  <2>4. m \in Nat /\ \A l \in Nat : l # 0 => (m = l <=> IsMatch(p, s, k + 1, l))
    BY <1>3, <2>1
  <2>5. Free(k) /\ All(k)
    BY <1>6
  <2> HIDE DEF m
  <2>6. a \in Found /\ a.off = k + 1 /\ a.len = m
    BY <2>1, <2>4 DEF Found, Spans
  <2>7. \A x \in Found : x.off \in Nat /\ x.len \in Nat /\ x = [off |-> x.off, len |-> x.len]
    BY DEF Found, Spans
  <2> HIDE DEF a
  <2>8. CASE m = 0
    <3>1. f[k + 1] = f[k]
      BY <2>3, <2>8
    <3>2. ASSUME NEW l PROVE ~ IsMatch(p, s, k + 1, l)
      BY <1>4, <2>4, <2>8
    <3>3. \A x \in Found : x.off <= k + 1 /\ IsMatch(p, s, x.off, x.len) => x.off <= k
      BY <2>1, <2>7, <3>2
    <3>4. \A x \in Found : x.off <= k => x.off <= k + 1
      BY <2>1, <2>7
    <3>5. All(k + 1)
      BY <2>5, <3>1, <3>3, <3>4
    <3>6. Free(k + 1)
      BY <2>1, <2>2, <2>5, <3>1
    <3> QED BY <2>1, <3>5, <3>6
  <2>9. CASE m # 0
    <3>1. IsMatch(p, s, k + 1, m)
      BY <2>4, <2>9
    <3>2. ~(k + 1 < f[k].free)
      <4> SUFFICES ASSUME k + 1 < f[k].free PROVE FALSE
        OBVIOUS
      <4>1. k + 1 \in k + 1 .. f[k].free - 1
        BY <2>1, <2>2
      <4> QED BY <1>4, <2>5, <3>1, <4>1
    <3>3. f[k + 1].found = Append(f[k].found, a) /\ f[k + 1].free = k + 1 + m
      BY <2>3, <2>9, <3>2
    <3>4. \A x : Has(f[k + 1].found, x) <=> Has(f[k].found, x) \/ x = a
      BY <2>2, <2>6, <3>3, HasAppend
    <3>5. \A l : IsMatch(p, s, k + 1, l) => l = m
      BY <1>4, <2>4, <2>9
    <3>6. ASSUME NEW x \in Found
          PROVE  (x.off <= k /\ IsMatch(p, s, x.off, x.len)) \/ x = a <=> x.off <= k + 1 /\ IsMatch(p, s, x.off, x.len)
      <4>1. CASE x.off = k + 1
        <5>1. x = a <=> x.len = m
          BY <2>6, <2>7, <4>1
        <5> QED BY <2>1, <3>1, <3>5, <4>1, <5>1
      <4>2. CASE x.off # k + 1
        <5>1. x # a /\ (x.off <= k <=> x.off <= k + 1)
          BY <2>1, <2>6, <2>7, <4>2
        <5> QED BY <5>1
      <4> QED BY <4>1, <4>2
    <3>7. All(k + 1)
      BY <2>5, <3>4, <3>6
    <3>8. Free(k + 1)
      <4>1. (k + 1) + m - 1 = k + 1 + m - 1 /\ \A j \in (k + 1) + 1 .. (k + 1) + m - 1 : s[j] # "k"
        BY <1>4, <2>1, <2>4, <3>1
      <4> QED BY <2>1, <2>4, <3>3, <4>1
    <3> QED BY <2>1, <3>7, <3>8
  <2> QED BY <2>8, <2>9
<1>7. 0 .. n \subseteq G
  <2> HIDE DEF G
  <2> QED BY <1>1, <1>5, <1>6, UpTo
<1>8. n \in 0 .. n
  BY <1>1
<1>9. All(n)
  BY <1>7, <1>8
<1>10. f[n].found \in Seq(Found)
  BY <1>8 DEF Scanned
<1>11. \A a \in Found : IsMatch(p, s, a.off, a.len) => a.off <= n
  BY <1>1, <1>4
<1> QED BY <1>2, <1>9, <1>10, <1>11

\* What is found is a span of the bytes, for a block as well.
LEMMA FoundType ==
  ASSUME NEW p \in Patterns, NEW s \in Seq(Bytes)
  PROVE  FindAll(p, s) \in Seq(Found)
<1>1. PICK f \in [0 .. Len(s) -> Scanned] : FindAll(p, s) = f[Len(s)].found
  BY ScanSteps, Zenon
<1>2. Len(s) \in 0 .. Len(s)
  OBVIOUS
<1> QED BY <1>1, <1>2 DEF Scanned

\* A block that ends within the first bytes of a file is one of these bytes,
\* and the other way round.
LEMMA BlockPrefix ==
  ASSUME NEW s \in Seq(Bytes), NEW c \in 0 .. Len(s), NEW t \in Seq(Bytes),
         Len(t) = c, \A i \in 1 .. c : t[i] = s[i], NEW i, NEW m
  PROVE  IsBlock(t, i, m) <=> IsBlock(s, i, m) /\ i + m - 1 <= c
<1>1. Len(s) \in Nat /\ c \in Nat /\ c <= Len(s)
  OBVIOUS
<1>2. CASE i \in Nat /\ m \in Nat /\ 1 <= i /\ m >= 2 /\ i + m - 1 <= c
  <2>1. i \in 1 .. c /\ i \in 1 .. Len(s) /\ i + m - 1 \in 1 .. c /\ i + m - 1 <= Len(s)
    BY <1>1, <1>2
  <2>2. \A j \in i + 1 .. i + m - 2 : j \in 1 .. c
    BY <1>1, <1>2
  <2> QED BY <1>2, <2>1, <2>2 DEF IsBlock
<1>3. CASE ~(i \in Nat /\ m \in Nat /\ 1 <= i /\ m >= 2 /\ i + m - 1 <= c)
  <2>1. ~ IsBlock(t, i, m)
    BY <1>1, <1>3 DEF IsBlock
  <2>2. ~(IsBlock(s, i, m) /\ i + m - 1 <= c)
    BY <1>1, <1>3 DEF IsBlock
  <2> QED BY <2>1, <2>2
<1> QED BY <1>2, <1>3

\* A block found in the whole file is found in its first bytes when it ends
\* within them.
LEMMA BlockFound ==
  ASSUME NEW s \in Seq(Bytes), NEW c \in 0 .. Len(s), NEW t \in Seq(Bytes),
         Len(t) = c, \A i \in 1 .. c : t[i] = s[i],
         NEW x \in Found, Has(FindAll("block", s), x), End(x) - 1 <= c
  PROVE  Has(FindAll("block", t), x)
<1> DEFINE n == Len(s)
           p == "block"
<1>1. n \in Nat /\ c \in Nat /\ c <= n /\ p \in Patterns
  BY DEF Patterns
<1>2. PICK f \in [0 .. n -> Scanned] :
           /\ f[0] = [found |-> <<>>, free |-> 1]
           /\ \A k \in 1 .. n : f[k] = Scan(p, s, f[k - 1], k)
           /\ FindAll(p, s) = f[n].found
  BY <1>1, ScanSteps, Zenon
<1>3. PICK g \in [0 .. c -> Scanned] :
           /\ g[0] = [found |-> <<>>, free |-> 1]
           /\ \A k \in 1 .. c : g[k] = Scan(p, t, g[k - 1], k)
           /\ FindAll(p, t) = g[c].found
  <2>1. \E h \in [0 .. Len(t) -> Scanned] :
           /\ h[0] = [found |-> <<>>, free |-> 1]
           /\ \A k \in 1 .. Len(t) : h[k] = Scan(p, t, h[k - 1], k)
           /\ FindAll(p, t) = h[Len(t)].found
    BY <1>1, ScanSteps, Zenon
  <2> QED BY <2>1
<1>4. \A k \in 1 .. n : /\ MatchAt(p, s, k) \in Nat
                        /\ \A m \in Nat : m # 0 => (MatchAt(p, s, k) = m <=> IsBlock(s, k, m))
  BY BlockIs
<1>5. \A k \in 1 .. c : /\ MatchAt(p, t, k) \in Nat
                        /\ \A m \in Nat : m # 0 => (MatchAt(p, t, k) = m <=> IsBlock(t, k, m))
  BY BlockIs
<1>6. \A i, m : IsBlock(t, i, m) <=> IsBlock(s, i, m) /\ i + m - 1 <= c
  BY BlockPrefix
<1>7. \A i, m : IsBlock(s, i, m) => m \in Nat /\ m >= 2
  BY DEF IsBlock
<1>8. Has(f[n].found, x) /\ x.off \in Nat /\ x.len \in Nat /\ x.off + x.len - 1 <= c
  BY <1>2 DEF Found, Spans, End
<1> HIDE DEF n, p
<1> DEFINE Same(k) == f[k].free = g[k].free \/ f[k].free > c
           At(k) == IF k <= c THEN k ELSE c
           Too(k) == Has(f[k].found, x) => Has(g[At(k)].found, x)
           G == {k \in 0 .. n : (k <= c => Same(k)) /\ Too(k)}
<1>9. 0 \in G
  <2>1. f[0].free = 1 /\ f[0].found = <<>> /\ g[0].free = 1 /\ g[0].found = <<>> /\ At(0) = 0
    BY <1>1, <1>2, <1>3
  <2> QED BY <2>1, <1>1
<1>10. ASSUME NEW k \in 0 .. n - 1, k \in G PROVE k + 1 \in G
  <2>1. k + 1 \in 1 .. n /\ k + 1 \in 0 .. n /\ (k + 1) - 1 = k /\ k \in 0 .. n /\ k \in Nat
    BY <1>1
  <2>2. f[k].found \in Seq(Found) /\ f[k].free \in Nat
    BY <2>1 DEF Scanned
  <2> DEFINE m == MatchAt(p, s, k + 1)
             a == [off |-> k + 1, len |-> m]
  <2>3. f[k + 1] = IF k + 1 < f[k].free \/ m = 0 THEN f[k]
                   ELSE [found |-> Append(f[k].found, a), free |-> k + 1 + m]
    <3>1. f[k + 1] = Scan(p, s, f[k], k + 1)
      BY <1>2, <2>1
    <3> QED BY <3>1, Zenon DEF Scan
  <2>4. m \in Nat /\ \A l \in Nat : l # 0 => (m = l <=> IsBlock(s, k + 1, l))
    BY <1>4, <2>1
  <2> HIDE DEF m
  <2>5. a \in Found /\ a.off = k + 1 /\ a.len = m
    BY <2>1, <2>4 DEF Found, Spans
  <2> HIDE DEF a
  <2>6. m # 0 => m >= 2
    BY <1>7, <2>4
  <2>7. Too(k) /\ (k <= c => Same(k))
    BY <1>10
  <2>8. f[k + 1] # f[k] => /\ ~(k + 1 < f[k].free) /\ m # 0
                           /\ f[k + 1].found = Append(f[k].found, a) /\ f[k + 1].free = k + 1 + m
    BY <2>3
  <2>9. Has(f[k + 1].found, x) => Has(f[k].found, x) \/ (x = a /\ f[k + 1] # f[k])
    <3>1. CASE f[k + 1] = f[k]
      BY <3>1
    <3>2. CASE f[k + 1] # f[k]
      <4>1. f[k + 1].found = Append(f[k].found, a)
        BY <2>8, <3>2
      <4>2. Has(Append(f[k].found, a), x) <=> Has(f[k].found, x) \/ x = a
        BY <2>2, <2>5, HasAppend
      <4> QED BY <3>2, <4>1, <4>2
    <3> QED BY <3>1, <3>2
  <2>10. CASE k + 1 <= c
    <3>0. k + 1 \in 1 .. c /\ k \in 0 .. c /\ k <= c /\ At(k) = k /\ At(k + 1) = k + 1
      BY <1>1, <2>1, <2>10
    <3>1. g[k].found \in Seq(Found) /\ g[k].free \in Nat
      BY <3>0 DEF Scanned
    <3> DEFINE l == MatchAt(p, t, k + 1)
               b == [off |-> k + 1, len |-> l]
    <3>2. g[k + 1] = IF k + 1 < g[k].free \/ l = 0 THEN g[k]
                     ELSE [found |-> Append(g[k].found, b), free |-> k + 1 + l]
      <4>1. g[k + 1] = Scan(p, t, g[k], k + 1)
        BY <1>3, <2>1, <3>0
      <4> QED BY <4>1, Zenon DEF Scan
    <3>3. l \in Nat /\ \A q \in Nat : q # 0 => (l = q <=> IsBlock(t, k + 1, q))
      BY <1>5, <3>0
    <3> HIDE DEF l
    <3>4. b \in Found
      BY <2>1, <3>3 DEF Found, Spans
    <3>5. l # 0 => l = m /\ k + 1 + m - 1 <= c
      BY <1>6, <2>4, <3>3
    <3>6. m # 0 /\ k + 1 + m - 1 <= c => l = m
      BY <1>6, <2>4, <3>3
    <3>7. l = m => b = a
      BY DEF a
    <3> HIDE DEF b
    <3>8. Has(g[k].found, x) => Has(g[k + 1].found, x)
      <4>1. \A y : Has(Append(g[k].found, b), y) <=> Has(g[k].found, y) \/ y = b
        BY <3>1, <3>4, HasAppend
      <4> QED BY <3>2, <4>1
    <3>9. Same(k) /\ (Has(f[k].found, x) => Has(g[k].found, x))
      BY <2>7, <3>0
    <3>10. Same(k + 1)
      <4>1. CASE f[k].free > c /\ k + 1 < f[k].free
        BY <2>3, <4>1
      <4>2. CASE f[k].free = g[k].free /\ (k + 1 < f[k].free \/ m = 0)
        <5>1. g[k + 1] = g[k] /\ f[k + 1] = f[k]
          BY <2>3, <3>2, <3>5, <4>2
        <5> QED BY <4>2, <5>1
      <4>3. CASE f[k].free = g[k].free /\ ~(k + 1 < f[k].free \/ m = 0)
        <5>1. f[k + 1].free = k + 1 + m
          BY <2>3, <4>3
        <5>2. CASE k + 1 + m - 1 <= c
          <6>1. l = m
            BY <3>6, <4>3, <5>2
          <6>2. g[k + 1].free = k + 1 + l
            BY <3>2, <4>3, <6>1
          <6> QED BY <5>1, <6>1, <6>2
        <5>3. CASE ~(k + 1 + m - 1 <= c)
          BY <1>1, <2>1, <2>4, <5>1, <5>3
        <5> QED BY <5>2, <5>3
      <4>4. f[k].free > c => k + 1 < f[k].free
        BY <1>1, <2>1, <2>2, <2>10
      <4> QED BY <3>9, <4>1, <4>2, <4>3, <4>4
    <3>11. ASSUME x = a, f[k + 1] # f[k] PROVE Has(g[k + 1].found, x)
      <4>1. m # 0 /\ k + 1 + m - 1 <= c /\ l = m /\ b = a /\ ~(k + 1 < f[k].free)
        BY <1>8, <2>5, <2>8, <3>6, <3>7, <3>11
      <4>2. f[k].free = g[k].free
        BY <1>1, <2>1, <2>2, <2>10, <3>9, <4>1
      <4>3. g[k + 1].found = Append(g[k].found, b)
        BY <3>2, <4>1, <4>2
      <4> QED BY <3>1, <3>4, <3>11, <4>1, <4>3, HasAppend
    <3>12. Too(k + 1)
      BY <2>9, <3>0, <3>8, <3>9, <3>11
    <3> QED BY <2>1, <3>10, <3>12
  <2>11. CASE ~(k + 1 <= c)
    <3>1. At(k + 1) = c /\ At(k) = c
      BY <1>1, <2>1, <2>11
    <3>2. x = a => f[k + 1] = f[k]
      BY <1>1, <1>8, <2>1, <2>4, <2>5, <2>6, <2>8, <2>11
    <3>3. Too(k + 1)
      BY <2>7, <2>9, <3>1, <3>2
    <3> QED BY <2>1, <2>11, <3>3
  <2> QED BY <2>10, <2>11
<1>11. 0 .. n \subseteq G
  <2> HIDE DEF G
  <2> QED BY <1>1, <1>9, <1>10, UpTo
<1>12. Too(n) /\ At(n) = c
  <2>1. n \in 0 .. n
    BY <1>1
  <2>2. n \in G
    <3> HIDE DEF G
    <3> QED BY <1>11, <2>1
  <2> QED BY <1>1, <2>2
<1> QED BY <1>3, <1>8, <1>12 DEF p

-----------------------------------------------------------------------------
(* FindSpans and Redact: what they mask *)

\* Redact keeps the length, and each byte or masks it.
LEMMA RedactKeepsPlaces ==
    ASSUME NEW s \in Seq(Bytes), NEW ps
    PROVE  Masks(RedactBytes(s, ps), s, Len(s))
<1> DEFINE Hit(i) == \E a \in ToSet(FindSpans(s, ps)) : a.off <= i /\ i < End(a)
           f == [i \in 1 .. Len(s) |-> IF Hit(i) THEN Masked ELSE s[i]]
<1>1. RedactBytes(s, ps) = f
  BY Zenon DEF RedactBytes
<1> HIDE DEF Hit
<1>2. f \in Seq(Shown) /\ Len(f) = Len(s)
  BY DEF Shown, Bytes, Masked
<1>3. \A i \in 1 .. Len(s) : f[i] \in {s[i], Masked}
  OBVIOUS
<1> HIDE DEF f
<1>4. Masks(f, s, Len(s))
  BY <1>2, <1>3 DEF Masks
<1> QED BY <1>1, <1>4, Zenon

\* Byte j is in what a match of p masks.
Secret(p, s, j) == \E x \in Found : Has(FindAll(p, s), x) /\ x.off + GroupSkip(p) <= j /\ j < End(x)

\* What the spans of a pattern cover: its matches, without what the group
\* leaves out. The prefilter takes none away.
LEMMA PatternCovers ==
  ASSUME NEW p \in Patterns, NEW s \in Seq(Bytes)
  PROVE  /\ PatternSpans(p, s) \in Seq(Spans)
         /\ \A j \in Nat : Within(PatternSpans(p, s), j) <=> Secret(p, s, j)
<1> DEFINE m == IF PreFilter(p, s) THEN FindAll(p, s) ELSE <<>>
           skip == GroupSkip(p)
           Part(a) == [off |-> a.off + skip, len |-> a.len - skip]
           u == [i \in 1 .. Len(m) |-> Part(m[i])]
<1>1. PatternSpans(p, s) = u
  BY Zenon DEF PatternSpans
<1>2. m \in Seq(Found) /\ FindAll(p, s) \in Seq(Found)
  BY FoundType
<1>3. skip \in {0, 1, 2} /\ (skip # 0 => p \in Inline) /\ (skip = 2 => p = "next")
  BY DEF GroupSkip, Inline
<1>4. \A x \in Found : Has(FindAll(p, s), x) /\ p \in Inline => IsMatch(p, s, x.off, x.len)
  BY InlineFound
<1>5. \A x : Has(m, x) <=> x \in Found /\ Has(FindAll(p, s), x)
  <2>1. CASE PreFilter(p, s)
    BY <1>2, <2>1 DEF Has
  <2>2. CASE ~ PreFilter(p, s)
    <3>1. p \in Inline /\ ~ \E i \in 1 .. Len(s) : s[i] = "k"
      BY <2>2 DEF PreFilter, Inline, Contains
    <3>2. \A x \in Found : ~ Has(FindAll(p, s), x)
      BY <1>4, <3>1 DEF IsMatch
    <3>3. ~ \E x : Has(m, x)
      BY <2>2 DEF Has
    <3> QED BY <3>2, <3>3
  <2> QED BY <2>1, <2>2
<1>6. \A x \in Found : x.off \in Nat /\ x.len \in Nat
  BY DEF Found, Spans
<1>7. ASSUME NEW x, Has(m, x) PROVE Part(x) \in Spans /\ \A j \in Nat : Covers(Part(x), j) <=> x.off + skip <= j /\ j < End(x)
  <2>1. x \in Found /\ x.off \in Nat /\ x.len \in Nat /\ x.len >= skip
    BY <1>3, <1>4, <1>5, <1>6, <1>7 DEF IsMatch
  <2>2. x.off + skip \in Nat /\ x.len - skip \in Nat /\ (x.off + skip) + (x.len - skip) = x.off + x.len
    BY <1>3, <2>1
  <2> HIDE DEF skip, m
  <2>3. Part(x).off = x.off + skip /\ Part(x).len = x.len - skip /\ Part(x) \in Spans
    BY <2>2 DEF Spans
  <2> QED BY <2>2, <2>3 DEF Covers, End
<1> HIDE DEF m, skip
<1>8. Len(m) \in Nat /\ \A i \in 1 .. Len(m) : Has(m, m[i])
  BY <1>2 DEF Has
<1> HIDE DEF Part
<1>9. u \in Seq(Spans) /\ Len(u) = Len(m) /\ \A i \in 1 .. Len(m) : u[i] = Part(m[i])
  <2>1. \A i \in 1 .. Len(m) : Part(m[i]) \in Spans
    BY <1>7, <1>8
  <2> QED BY <1>8, <2>1
<1> HIDE DEF u
<1>10. ASSUME NEW j \in Nat PROVE Within(u, j) <=> Secret(p, s, j)
  <2>1. Within(u, j) <=> \E i \in 1 .. Len(m) : Covers(Part(m[i]), j)
    BY <1>9 DEF Within
  <2>2. (\E i \in 1 .. Len(m) : Covers(Part(m[i]), j)) <=> \E x : Has(m, x) /\ Covers(Part(x), j)
    BY <1>8 DEF Has
  <2>3. (\E x : Has(m, x) /\ Covers(Part(x), j)) <=> \E x \in Found : Has(FindAll(p, s), x) /\ x.off + skip <= j /\ j < End(x)
    BY <1>5, <1>7
  <2> QED BY <2>1, <2>2, <2>3 DEF Secret, skip
<1> QED BY <1>1, <1>9, <1>10

\* What FindSpans covers: what the matches of its patterns mask, no more and
\* no less.
LEMMA FindSpansCovers ==
  ASSUME NEW s \in Seq(Bytes), NEW ps \in SUBSET Patterns
  PROVE  /\ FindSpans(s, ps) \in Seq(Spans)
         /\ \A j \in Nat : Within(FindSpans(s, ps), j) <=> \E p \in ps : Secret(p, s, j)
<1> DEFINE of(i) == IF Shapes[i] \in ps THEN PatternSpans(Shapes[i], s) ELSE <<>>
           ss == [i \in 1 .. Len(Shapes) |-> of(i)]
<1>1. /\ Len(Shapes) = 6 /\ Shapes[1] = "block" /\ Shapes[2] = "env" /\ Shapes[3] = "key"
      /\ Shapes[4] = "line" /\ Shapes[5] = "next" /\ Shapes[6] = "whole"
  BY DEF Shapes
<1>2. "whole" \notin ps
  BY DEF Patterns, Inline
<1>3. FindSpans(s, ps) = MergeSpans(FlattenSeq(ss))
  BY <1>2, Zenon DEF FindSpans
<1>4. \A p \in ps : p \in Patterns /\ PatternSpans(p, s) \in Seq(Spans)
                    /\ \A j \in Nat : Within(PatternSpans(p, s), j) <=> Secret(p, s, j)
  BY PatternCovers
<1>5. \A p \in ps : \E i \in 1 .. 6 : Shapes[i] = p
  <2>1. \A p \in ps : p \in {"block", "env", "key", "line", "next"}
    BY DEF Patterns, Inline
  <2>2. 1 \in 1 .. 6 /\ 2 \in 1 .. 6 /\ 3 \in 1 .. 6 /\ 4 \in 1 .. 6 /\ 5 \in 1 .. 6
    OBVIOUS
  <2> QED BY <1>1, <2>1, <2>2
<1>6. \A i \in 1 .. 6 : of(i) \in Seq(Spans)
  <2>1. <<>> \in Seq(Spans)
    OBVIOUS
  <2> QED BY <1>4, <2>1
<1>7. \A x : \A i \in 1 .. 6 : Has(of(i), x) <=> Shapes[i] \in ps /\ Has(PatternSpans(Shapes[i], s), x)
  <2>1. \A x : ~ Has(<<>>, x)
    BY DEF Has
  <2> QED BY <2>1
<1> HIDE DEF of
<1>8. ss \in Seq(Seq(Spans)) /\ Len(ss) = 6 /\ \A i \in 1 .. 6 : ss[i] = of(i)
  BY <1>1, <1>6
<1> HIDE DEF ss
<1> DEFINE fl == FlattenSeq(ss)
<1>9. fl \in Seq(Spans) /\ \A x : Has(fl, x) <=> Among(ss, 6, x)
  BY <1>8, Flattened
<1> HIDE DEF fl
<1>10. MergeSpans(fl) \in Seq(Spans) /\ \A j \in Nat : Within(MergeSpans(fl), j) <=> Within(fl, j)
  BY <1>9, MergeCovers
<1>11. \A x : Has(fl, x) <=> \E i \in 1 .. 6 : Shapes[i] \in ps /\ Has(PatternSpans(Shapes[i], s), x)
  <2>1. \A x : Among(ss, 6, x) <=> \E i \in 1 .. 6 : Has(of(i), x)
    BY <1>8 DEF Among, Has
  <2> QED BY <1>7, <1>9, <2>1
<1>12. \A x : Has(fl, x) <=> \E p \in ps : Has(PatternSpans(p, s), x)
  BY <1>5, <1>11
<1>13. \A j \in Nat : Within(fl, j) <=> \E p \in ps : Within(PatternSpans(p, s), j)
  BY <1>12, WithinIs
<1>14. \A j \in Nat : Within(fl, j) <=> \E p \in ps : Secret(p, s, j)
  BY <1>4, <1>13
<1> QED BY <1>3, <1>10, <1>14 DEF fl

\* What Redact returns, byte by byte.
LEMMA RedactIs ==
  ASSUME NEW s \in Seq(Bytes), NEW ps \in SUBSET Patterns
  PROVE  /\ RedactBytes(s, ps) \in Seq(Shown) /\ Len(RedactBytes(s, ps)) = Len(s)
         /\ \A j \in 1 .. Len(s) :
              RedactBytes(s, ps)[j] = IF \E p \in ps : Secret(p, s, j) THEN Masked ELSE s[j]
<1> DEFINE sp == FindSpans(s, ps)
           Hit(i) == \E a \in ToSet(sp) : a.off <= i /\ i < End(a)
           f == [i \in 1 .. Len(s) |-> IF Hit(i) THEN Masked ELSE s[i]]
<1>1. RedactBytes(s, ps) = f
  BY Zenon DEF RedactBytes
<1>2. sp \in Seq(Spans) /\ \A j \in Nat : Within(sp, j) <=> \E p \in ps : Secret(p, s, j)
  BY FindSpansCovers
<1>3. RedactBytes(s, ps) \in Seq(Shown) /\ Len(RedactBytes(s, ps)) = Len(s)
  BY RedactKeepsPlaces DEF Masks
<1> HIDE DEF sp
<1>4. \A j : Hit(j) <=> Within(sp, j)
  <2>1. DOMAIN sp = 1 .. Len(sp)
    BY <1>2
  <2> QED BY <2>1 DEF ToSet, Within, Covers
<1>5. \A j \in 1 .. Len(s) : f[j] = IF Hit(j) THEN Masked ELSE s[j]
  OBVIOUS
<1> HIDE DEF Hit, f
<1>6. \A j \in 1 .. Len(s) : j \in Nat
  OBVIOUS
<1> QED BY <1>1, <1>2, <1>3, <1>4, <1>5, <1>6

\* A whole file is masked from its first byte to its last.
LEMMA WholeIs ==
  ASSUME NEW s \in Seq(Bytes), NEW ps, "whole" \in ps
  PROVE  \A j \in 1 .. Len(s) : RedactBytes(s, ps)[j] = Masked
<1> DEFINE sp == FindSpans(s, ps)
           Hit(i) == \E a \in ToSet(sp) : a.off <= i /\ i < End(a)
           f == [i \in 1 .. Len(s) |-> IF Hit(i) THEN Masked ELSE s[i]]
           w == [off |-> 1, len |-> Len(s)]
<1>1. RedactBytes(s, ps) = f
  BY Zenon DEF RedactBytes
<1>2. sp = << w >>
  BY Zenon DEF FindSpans
<1>3. w \in ToSet(sp)
  BY <1>2 DEF ToSet
<1>4. \A j \in 1 .. Len(s) : w.off <= j /\ j < End(w)
  BY DEF End
<1> HIDE DEF sp, w
<1>5. \A j \in 1 .. Len(s) : Hit(j)
  BY <1>3, <1>4
<1> HIDE DEF Hit
<1> QED BY <1>1, <1>5

-----------------------------------------------------------------------------
(* Redact on a part of the bytes *)

\* An inline secret is in a match.
LEMMA SecretIs ==
  ASSUME NEW p \in Inline, NEW s \in Seq(Bytes), NEW j \in Nat
  PROVE  Secret(p, s, j) <=> \E i, m \in Nat : IsMatch(p, s, i, m) /\ i + GroupSkip(p) <= j /\ j < i + m
<1>1. \A x \in Found : Has(FindAll(p, s), x) <=> IsMatch(p, s, x.off, x.len)
  BY InlineFound
<1>2. \A x \in Found : x.off \in Nat /\ x.len \in Nat /\ End(x) = x.off + x.len
  BY DEF Found, Spans, End
<1>3. ASSUME NEW i \in Nat, NEW m \in Nat, IsMatch(p, s, i, m)
      PROVE  [off |-> i, len |-> m] \in Found
  BY <1>3 DEF IsMatch, Found, Spans
<1>4. ASSUME NEW i \in Nat, NEW m \in Nat, IsMatch(p, s, i, m), i + GroupSkip(p) <= j, j < i + m
      PROVE  Secret(p, s, j)
  <2> DEFINE x == [off |-> i, len |-> m]
  <2>1. x \in Found /\ x.off = i /\ x.len = m
    BY <1>3, <1>4
  <2> HIDE DEF x
  <2> QED BY <1>1, <1>2, <1>4, <2>1 DEF Secret
<1>5. ASSUME Secret(p, s, j)
      PROVE  \E i, m \in Nat : IsMatch(p, s, i, m) /\ i + GroupSkip(p) <= j /\ j < i + m
  BY <1>1, <1>2, <1>5 DEF Secret
<1> QED BY <1>4, <1>5

\* A match is one in every window that has it all.
LEMMA Window ==
  ASSUME NEW s \in Seq(Bytes), NEW lo \in Nat, NEW w \in Seq(Bytes), lo + Len(w) <= Len(s),
         \A i \in 1 .. Len(w) : w[i] = s[lo + i],
         NEW p, NEW i \in Nat, NEW m \in Nat, i >= 1,
         IsMatch(p, s, lo + i, m), i + m - 1 <= Len(w)
  PROVE  IsMatch(p, w, i, m)
<1>1. Len(w) \in Nat /\ Len(s) \in Nat
  OBVIOUS
<1>2. /\ lo + i \in 1 .. Len(s) /\ m >= 2
      /\ s[lo + i] = "k"
      /\ p = "next" => m = 3 /\ s[lo + i + 1] = "n" /\ s[lo + i + 2] = "v"
      /\ p # "next" => \A j \in lo + i + 1 .. lo + i + m - 1 : s[j] = "v"
      /\ p = "key" => m = 3
      /\ p \notin {"key", "next"} => (lo + i = 1 \/ s[lo + i - 1] = "n") /\ (lo + i + m - 1 = Len(s) \/ s[lo + i + m] = "n")
  BY DEF IsMatch
<1>3. i \in 1 .. Len(w) /\ w[i] = "k"
  BY <1>1, <1>2
<1>4. ASSUME p # "next", NEW j \in i + 1 .. i + m - 1 PROVE w[j] = "v"
  <2>1. lo + j \in lo + i + 1 .. lo + i + m - 1 /\ j \in 1 .. Len(w)
    BY <1>1
  <2> QED BY <1>2, <1>4, <2>1
<1>5. ASSUME p = "next" PROVE m = 3 /\ w[i + 1] = "n" /\ w[i + 2] = "v"
  <2>1. m = 3 /\ s[lo + i + 1] = "n" /\ s[lo + i + 2] = "v"
    BY <1>2, <1>5
  <2>2. /\ i + 1 \in 1 .. Len(w) /\ lo + (i + 1) = lo + i + 1
        /\ i + 2 \in 1 .. Len(w) /\ lo + (i + 2) = lo + i + 2
    BY <1>1, <2>1
  <2> QED BY <2>1, <2>2
<1>6. ASSUME p \notin {"key", "next"} PROVE i = 1 \/ w[i - 1] = "n"
  <2>1. i # 1 => i - 1 \in 1 .. Len(w) /\ lo + (i - 1) = lo + i - 1 /\ lo + i # 1
    BY <1>1, <1>3
  <2> QED BY <1>2, <1>6, <2>1
<1>7. ASSUME p \notin {"key", "next"} PROVE i + m - 1 = Len(w) \/ w[i + m] = "n"
  <2> SUFFICES ASSUME i + m - 1 # Len(w) PROVE w[i + m] = "n"
    OBVIOUS
  <2>1. i + m \in 1 .. Len(w)
    <3> DEFINE l == Len(w)
    <3>1. l \in Nat /\ i + m - 1 <= l /\ i + m - 1 # l
      BY <1>1
    <3> HIDE DEF l
    <3>2. i + m \in 1 .. l
      BY <3>1
    <3> QED BY <3>2 DEF l
  <2>2. lo + (i + m) = lo + i + m /\ lo + i + m - 1 # Len(s)
    BY <1>1, <1>3, <2>1
  <2> QED BY <1>2, <1>7, <2>1, <2>2
<1> QED BY <1>2, <1>3, <1>4, <1>6, <1>7, <1>5 DEF IsMatch

\* c is 0 or the end of a line of s: a and b are what is before and after it.
Split(s, c, a, b) ==
    /\ c \in 0 .. Len(s) /\ (c = 0 \/ s[c] = "n")
    /\ a \in Seq(Bytes) /\ Len(a) = c /\ \A i \in 1 .. c : a[i] = s[i]
    /\ b \in Seq(Bytes) /\ Len(b) = Len(s) - c /\ \A i \in 1 .. Len(s) - c : b[i] = s[c + i]

\* A match of "next" goes over c, the end of a line of s.
Over(s, c) == IsMatch("next", s, c - 1, 3)

\* No other inline match goes over the end of a line.
LEMMA MatchBefore ==
  ASSUME NEW s \in Seq(Bytes), NEW c, NEW a, NEW b, Split(s, c, a, b),
         NEW p, p = "next" => ~ Over(s, c), NEW i \in Nat, NEW m \in Nat
  PROVE  IsMatch(p, s, i, m) /\ i <= c <=> IsMatch(p, a, i, m)
<1>1. Len(s) \in Nat /\ c \in Nat /\ c <= Len(s) /\ Len(a) = c /\ \A k \in 1 .. c : a[k] = s[k]
  BY DEF Split
<1>2. ASSUME IsMatch(p, s, i, m), i <= c PROVE IsMatch(p, a, i, m)
  <2>1. /\ i >= 1 /\ m >= 2 /\ s[i] = "k"
        /\ p = "next" => m = 3 /\ s[i + 2] = "v"
        /\ p # "next" => \A j \in i + 1 .. i + m - 1 : s[j] = "v"
    BY <1>2 DEF IsMatch
  <2>2. s[c] = "n"
    BY <1>1, <1>2, <2>1 DEF Split
  <2>3. ~(c \in i .. i + m - 1)
    <3> SUFFICES ASSUME c \in i .. i + m - 1 PROVE FALSE
      OBVIOUS
    <3>1. c = i \/ c \in i + 1 .. i + m - 1
      BY <1>1
    <3>2. CASE p = "next"
      <4>1. c = i \/ c = i + 1 \/ c = i + 2
        BY <1>1, <2>1, <3>1, <3>2
      <4>2. CASE c = i + 1
        <5>1. c - 1 = i /\ m = 3
          BY <2>1, <3>2, <4>2
        <5>2. IsMatch("next", s, c - 1, 3)
          BY <1>2, <3>2, <5>1, Zenon
        <5> QED BY <3>2, <5>2 DEF Over
      <4> QED BY <2>1, <2>2, <3>2, <4>1, <4>2
    <3> QED BY <2>1, <2>2, <3>1, <3>2
  <2>4. i + m - 1 < c
    BY <1>1, <1>2, <2>1, <2>3
  <2> DEFINE lo == 0
  <2>5. lo \in Nat /\ lo + Len(a) <= Len(s) /\ (\A k \in 1 .. Len(a) : a[k] = s[lo + k])
        /\ IsMatch(p, s, lo + i, m) /\ i + m - 1 <= Len(a) /\ a \in Seq(Bytes)
    BY <1>1, <1>2, <2>4 DEF Split
  <2> HIDE DEF lo
  <2> QED BY <2>1, <2>5, Window
<1>3. ASSUME IsMatch(p, a, i, m) PROVE IsMatch(p, s, i, m) /\ i <= c
  <2>1. /\ i \in 1 .. c /\ m >= 2 /\ i + m - 1 <= c /\ a[i] = "k"
        /\ p = "next" => m = 3 /\ a[i + 1] = "n" /\ a[i + 2] = "v"
        /\ p # "next" => \A j \in i + 1 .. i + m - 1 : a[j] = "v"
        /\ p = "key" => m = 3
        /\ p \notin {"key", "next"} => (i = 1 \/ a[i - 1] = "n") /\ (i + m - 1 = c \/ a[i + m] = "n")
    BY <1>1, <1>3 DEF IsMatch
  <2>2. /\ s[i] = "k" /\ (p = "next" => s[i + 1] = "n" /\ s[i + 2] = "v")
        /\ p # "next" => \A j \in i + 1 .. i + m - 1 : s[j] = "v"
    <3>1. i \in 1 .. c /\ \A j \in i + 1 .. i + m - 1 : j \in 1 .. c
      BY <1>1, <2>1
    <3>2. p = "next" => i + 1 \in 1 .. c /\ i + 2 \in 1 .. c
      BY <1>1, <2>1
    <3> QED BY <1>1, <2>1, <3>1, <3>2
  <2>3. s[c] = "n"
    BY <1>1, <2>1 DEF Split
  <2>4. i + m - 1 # c
    <3> SUFFICES ASSUME i + m - 1 = c PROVE FALSE
      OBVIOUS
    <3>1. c \in i + 1 .. i + m - 1
      BY <1>1, <2>1
    <3>2. p = "next" => c = i + 2
      BY <1>1, <2>1
    <3> QED BY <2>2, <2>3, <3>1, <3>2
  <2>5. p \notin {"key", "next"} => (i = 1 \/ s[i - 1] = "n") /\ s[i + m] = "n"
    <3>1. i # 1 => i - 1 \in 1 .. c
      BY <1>1, <2>1
    <3>2. i + m \in 1 .. c
      BY <1>1, <2>1, <2>4
    <3> QED BY <1>1, <2>1, <2>4, <3>1, <3>2
  <2>6. i \in 1 .. Len(s) /\ i + m - 1 <= Len(s) /\ i <= c
    BY <1>1, <2>1
  <2> QED BY <2>1, <2>2, <2>5, <2>6 DEF IsMatch
<1> QED BY <1>2, <1>3

\* What follows the end of a line is matched as if it were all there is.
LEMMA MatchAfter ==
  ASSUME NEW s \in Seq(Bytes), NEW c, NEW a, NEW b, Split(s, c, a, b),
         NEW p, NEW i \in Nat, i >= 1, NEW m \in Nat
  PROVE  IsMatch(p, s, c + i, m) <=> IsMatch(p, b, i, m)
<1>1. Len(s) \in Nat /\ c \in Nat /\ c <= Len(s) /\ Len(b) = Len(s) - c /\ \A k \in 1 .. Len(s) - c : b[k] = s[c + k]
  BY DEF Split
<1>2. ASSUME IsMatch(p, s, c + i, m) PROVE IsMatch(p, b, i, m)
  <2>1. c + i + m - 1 <= Len(s)
    BY <1>2 DEF IsMatch
  <2>2. i + m - 1 <= Len(b) /\ c + Len(b) <= Len(s) /\ b \in Seq(Bytes) /\ \A k \in 1 .. Len(b) : b[k] = s[c + k]
    BY <1>1, <2>1 DEF Split
  <2> QED BY <1>1, <1>2, <2>2, Window
<1>3. ASSUME IsMatch(p, b, i, m) PROVE IsMatch(p, s, c + i, m)
  <2>1. /\ i \in 1 .. Len(b) /\ m >= 2 /\ i + m - 1 <= Len(b) /\ b[i] = "k"
        /\ p = "next" => m = 3 /\ b[i + 1] = "n" /\ b[i + 2] = "v"
        /\ p # "next" => \A j \in i + 1 .. i + m - 1 : b[j] = "v"
        /\ p = "key" => m = 3
        /\ p \notin {"key", "next"} => (i = 1 \/ b[i - 1] = "n") /\ (i + m - 1 = Len(b) \/ b[i + m] = "n")
    BY <1>3 DEF IsMatch
  <2>2. s[c + i] = "k"
    BY <1>1, <2>1
  <2>3. ASSUME p # "next", NEW j \in c + i + 1 .. c + i + m - 1 PROVE s[j] = "v"
    <3>1. j - c \in i + 1 .. i + m - 1 /\ j - c \in 1 .. Len(s) - c /\ c + (j - c) = j
      BY <1>1, <2>1
    <3> QED BY <1>1, <2>1, <2>3, <3>1
  <2>4. p = "next" => s[c + i + 1] = "n" /\ s[c + i + 2] = "v"
    <3>1. p = "next" => /\ i + 1 \in 1 .. Len(s) - c /\ c + (i + 1) = c + i + 1
                        /\ i + 2 \in 1 .. Len(s) - c /\ c + (i + 2) = c + i + 2
      BY <1>1, <2>1
    <3> QED BY <1>1, <2>1, <3>1
  <2>5. ASSUME p \notin {"key", "next"} PROVE c + i = 1 \/ s[c + i - 1] = "n"
    <3>1. CASE i = 1
      <4>1. c = 0 \/ s[c] = "n"
        BY DEF Split
      <4>2. c + i - 1 = c
        BY <1>1, <3>1
      <4> QED BY <3>1, <4>1, <4>2
    <3>2. CASE i # 1
      <4>1. i - 1 \in 1 .. Len(s) - c /\ c + (i - 1) = c + i - 1
        BY <1>1, <2>1, <3>2
      <4> QED BY <1>1, <2>1, <2>5, <3>2, <4>1
    <3> QED BY <3>1, <3>2
  <2>6. ASSUME p \notin {"key", "next"} PROVE c + i + m - 1 = Len(s) \/ s[c + i + m] = "n"
    <3>1. CASE i + m - 1 = Len(b)
      BY <1>1, <3>1
    <3>2. CASE i + m - 1 # Len(b)
      <4> DEFINE l == Len(b)
                 e == i + m
      <4>0. l \in Nat /\ l = Len(s) - c /\ i + m - 1 <= l /\ i + m - 1 # l
        BY <1>1, <2>1, <3>2
      <4> HIDE DEF l
      <4>1. e \in 1 .. l
        BY <4>0
      <4>2. c \in Nat /\ c + e = c + i + m
        BY <1>1
      <4> HIDE DEF e
      <4>3. b[e] = s[c + e]
        BY <1>1, <4>0, <4>1
      <4> QED BY <2>1, <2>6, <3>2, <4>2, <4>3 DEF e
    <3> QED BY <3>1, <3>2
  <2>7. c + i \in 1 .. Len(s) /\ c + i + m - 1 <= Len(s)
    BY <1>1, <2>1
  <2>8. p \in {"key", "next"} => m = 3
    BY <2>1
  <2>9. p # "next" => \A j \in c + i + 1 .. c + i + m - 1 : s[j] = "v"
    BY <2>3
  <2>10. m \in Nat /\ m >= 2
    BY <2>1
  <2>11. p \notin {"key", "next"} => (c + i = 1 \/ s[c + i - 1] = "n") /\ (c + i + m - 1 = Len(s) \/ s[c + i + m] = "n")
    BY <2>5, <2>6
  <2> DEFINE e == c + i
  <2>12. /\ e \in 1 .. Len(s) /\ e + m - 1 <= Len(s) /\ s[e] = "k"
         /\ p = "next" => s[e + 1] = "n" /\ s[e + 2] = "v"
         /\ p # "next" => \A j \in e + 1 .. e + m - 1 : s[j] = "v"
    BY <2>2, <2>7, <2>9, <2>4
  <2>13. p \notin {"key", "next"} => (e = 1 \/ s[e - 1] = "n") /\ (e + m - 1 = Len(s) \/ s[e + m] = "n")
    <3>1. e - 1 = c + i - 1 /\ e + m - 1 = c + i + m - 1 /\ e + m = c + i + m
      BY <1>1
    <3> QED BY <2>11, <3>1, Zenon
  <2> HIDE DEF e
  <2>14. IsMatch(p, s, e, m)
    BY <2>8, <2>10, <2>12, <2>13 DEF IsMatch
  <2> QED BY <2>14 DEF e
<1> QED BY <1>2, <1>3

\* Bytes cut at the end of a line are masked as they are together, if no
\* match goes over the cut.
LEMMA ByLines ==
  ASSUME NEW s \in Seq(Bytes), NEW c, NEW a, NEW b, Split(s, c, a, b),
         NEW ps \in SUBSET Inline, "next" \in ps => ~ Over(s, c)
  PROVE  RedactBytes(s, ps) = RedactBytes(a, ps) \o RedactBytes(b, ps)
<1> DEFINE rs == RedactBytes(s, ps)
           ra == RedactBytes(a, ps)
           rb == RedactBytes(b, ps)
<1>0. ps \in SUBSET Patterns /\ a \in Seq(Bytes) /\ b \in Seq(Bytes) /\ c \in Nat /\ Len(a) = c /\ Len(b) = Len(s) - c /\ c <= Len(s) /\ Len(s) \in Nat
  BY DEF Patterns, Split
<1>1. /\ rs \in Seq(Shown) /\ Len(rs) = Len(s)
      /\ \A j \in 1 .. Len(s) : rs[j] = IF \E p \in ps : Secret(p, s, j) THEN Masked ELSE s[j]
  BY <1>0, RedactIs
<1>2. /\ ra \in Seq(Shown) /\ Len(ra) = c
      /\ \A j \in 1 .. c : ra[j] = IF \E p \in ps : Secret(p, a, j) THEN Masked ELSE a[j]
  BY <1>0, RedactIs
<1>3. /\ rb \in Seq(Shown) /\ Len(rb) = Len(s) - c
      /\ \A j \in 1 .. Len(s) - c : rb[j] = IF \E p \in ps : Secret(p, b, j) THEN Masked ELSE b[j]
  BY <1>0, RedactIs
<1> HIDE DEF rs, ra, rb
<1>4. ra \o rb \in Seq(Shown) /\ Len(ra \o rb) = Len(s)
      /\ \A j \in 1 .. Len(s) : (ra \o rb)[j] = IF j <= c THEN ra[j] ELSE rb[j - c]
  BY <1>0, <1>2, <1>3, Appended
<1>5. ASSUME NEW p \in ps, NEW j \in Nat, j <= c PROVE Secret(p, s, j) <=> Secret(p, a, j)
  <2>1. p \in Inline /\ GroupSkip(p) \in Nat /\ (p = "next" => ~ Over(s, c))
    BY DEF GroupSkip
  <2>2. \A i, m \in Nat : i + GroupSkip(p) <= j => (IsMatch(p, s, i, m) <=> IsMatch(p, a, i, m))
    <3>1. \A i \in Nat : i + GroupSkip(p) <= j => i <= c
      BY <1>0, <1>5, <2>1
    <3> QED BY <2>1, <3>1, MatchBefore
  <2>3. Secret(p, s, j) <=> \E i, m \in Nat : IsMatch(p, s, i, m) /\ i + GroupSkip(p) <= j /\ j < i + m
    BY <2>1, SecretIs
  <2>4. Secret(p, a, j) <=> \E i, m \in Nat : IsMatch(p, a, i, m) /\ i + GroupSkip(p) <= j /\ j < i + m
    BY <1>0, <2>1, SecretIs
  <2> QED BY <2>2, <2>3, <2>4
<1>6. ASSUME NEW p \in ps, NEW j \in Nat, j >= 1 PROVE Secret(p, s, c + j) <=> Secret(p, b, j)
  <2>1. p \in Inline /\ GroupSkip(p) \in Nat /\ c + j \in Nat
    BY <1>0 DEF GroupSkip
  <2>2. Secret(p, s, c + j) <=> \E i, m \in Nat : IsMatch(p, s, i, m) /\ i + GroupSkip(p) <= c + j /\ c + j < i + m
    BY <2>1, SecretIs
  <2>3. Secret(p, b, j) <=> \E i, m \in Nat : IsMatch(p, b, i, m) /\ i + GroupSkip(p) <= j /\ j < i + m
    BY <1>0, <2>1, SecretIs
  <2>4. ASSUME NEW i \in Nat, NEW m \in Nat, IsMatch(p, s, i, m), i + GroupSkip(p) <= c + j, c + j < i + m
        PROVE  i - c \in Nat /\ IsMatch(p, b, i - c, m) /\ (i - c) + GroupSkip(p) <= j /\ j < (i - c) + m
    <3>1. ~(i <= c)
      <4> SUFFICES ASSUME i <= c PROVE FALSE
        OBVIOUS
      <4>1. IsMatch(p, a, i, m)
        <5>1. p = "next" => ~ Over(s, c)
          OBVIOUS
        <5> QED BY <2>4, <5>1, MatchBefore
      <4>2. i + m - 1 <= c
        BY <1>0, <4>1 DEF IsMatch
      <4> QED BY <1>0, <1>6, <2>4, <4>2
    <3>2. i - c \in Nat /\ i - c >= 1 /\ c + (i - c) = i
      BY <1>0, <3>1
    <3> DEFINE k == i - c
    <3>3. k \in Nat /\ k >= 1 /\ c + k = i
      BY <3>2
    <3> HIDE DEF k
    <3>4. IsMatch(p, b, k, m)
      BY <2>4, <3>3, MatchAfter
    <3> QED BY <1>0, <2>1, <2>4, <3>2, <3>4 DEF k
  <2>5. ASSUME NEW i \in Nat, NEW m \in Nat, IsMatch(p, b, i, m), i + GroupSkip(p) <= j, j < i + m
        PROVE  c + i \in Nat /\ IsMatch(p, s, c + i, m) /\ (c + i) + GroupSkip(p) <= c + j /\ c + j < (c + i) + m
    <3>1. i >= 1
      BY <2>5 DEF IsMatch
    <3> QED BY <1>0, <2>1, <2>5, <3>1, MatchAfter
  <2> QED BY <2>2, <2>3, <2>4, <2>5
<1>7. ASSUME NEW j \in 1 .. Len(s) PROVE rs[j] = (ra \o rb)[j]
  <2>1. CASE j <= c
    <3>1. j \in Nat /\ j \in 1 .. c /\ a[j] = s[j]
      BY <1>0, <2>1 DEF Split
    <3>2. rs[j] = ra[j]
      BY <1>1, <1>2, <1>5, <2>1, <3>1
    <3> QED BY <1>4, <2>1, <3>2
  <2>2. CASE ~(j <= c)
    <3>1. j - c \in Nat /\ j - c \in 1 .. Len(s) - c /\ j - c >= 1 /\ c + (j - c) = j
      BY <1>0, <2>2
    <3>2. b[j - c] = s[j]
      BY <3>1 DEF Split
    <3>3. \A p \in ps : Secret(p, s, j) <=> Secret(p, b, j - c)
      BY <1>6, <3>1
    <3>4. rs[j] = rb[j - c]
      BY <1>1, <1>3, <3>1, <3>2, <3>3
    <3> QED BY <1>4, <2>2, <3>4
  <2> QED BY <2>1, <2>2
<1>8. rs = ra \o rb
  <2> DEFINE t == ra \o rb
  <2>1. rs \in Seq(Shown) /\ t \in Seq(Shown) /\ Len(rs) = Len(t) /\ \A j \in 1 .. Len(rs) : rs[j] = t[j]
    BY <1>1, <1>4, <1>7
  <2> HIDE DEF t
  <2>2. rs = t
    BY <2>1
  <2> QED BY <2>2 DEF t
<1> QED BY <1>8 DEF rs, ra, rb

-----------------------------------------------------------------------------
(* What the operators of the stream return *)

\* The limited reader has a beginning of the file.
LEMMA SrcType == ASSUME file \in Seq(Bytes), req \in Requests
                 PROVE  Src \in Seq(Bytes)
BY RedactAssumption DEF Src, Need

\* The limited reader has the file's own first bytes.
LEMMA SrcBegins ==
  ASSUME file \in Seq(Bytes), req \in Requests
  PROVE  Len(Src) \in 0 .. Len(file) /\ \A i \in 1 .. Len(Src) : Src[i] = file[i]
<1> DEFINE n == IF Need < Len(file) THEN Need ELSE Len(file)
<1>1. n \in 0 .. Len(file)
  BY RedactAssumption DEF Need
<1>2. Src = SubSeq(file, 1, n)
  BY Zenon DEF Src
<1> DEFINE t == SubSeq(file, 1, n)
<1> HIDE DEF n
<1>3. Len(t) = n /\ \A i \in 1 .. n : t[i] = file[i]
  BY <1>1
<1>4. Src = t
  BY <1>2
<1> HIDE DEF t
<1> QED BY <1>1, <1>3, <1>4

\* What the source goes on with, the file goes on with.
LEMMA GoesOnInFile ==
  ASSUME file \in Seq(Bytes), req \in Requests, NEW d \in Seq(Bytes), NEW n \in Nat, GoesOn(d, n, Src)
  PROVE  GoesOn(d, n, file)
<1>1. Len(Src) \in Nat /\ Len(file) \in Nat /\ Len(Src) <= Len(file) /\ \A i \in 1 .. Len(Src) : Src[i] = file[i]
  BY SrcBegins
<1>2. n + Len(d) <= Len(Src) /\ Len(d) \in Nat /\ \A i \in 1 .. Len(d) : d[i] = Src[n + i]
  BY DEF GoesOn
<1>3. n + Len(d) <= Len(file)
  BY <1>1, <1>2
<1>4. \A i \in 1 .. Len(d) : n + i \in 1 .. Len(Src)
  BY <1>1, <1>2
<1> QED BY <1>1, <1>2, <1>3, <1>4 DEF GoesOn

\* flushCompleteLines cuts within the data, after a newline.
LEMMA LastNLCuts ==
    ASSUME NEW s \in Seq(Bytes)
    PROVE  /\ LastNL(s) \in 0 .. Len(s)
           /\ LastNL(s) = 0 \/ s[LastNL(s)] = "n"
<1> DEFINE NLs == {k \in 0 .. Len(s) - 1 : s[Len(s) - k] = "n"}
           P(k) == s[Len(s) - k] = "n" /\ \A j \in Len(s) - k + 1 .. Len(s) : s[j] # "n"
           From == IF Contains(s, "n") THEN CHOOSE k \in 0 .. Len(s) - 1 : P(k) ELSE Len(s)
<1>1. ASSUME Contains(s, "n") PROVE \E k \in 0 .. Len(s) - 1 : P(k)
  <2>1. PICK i \in 1 .. Len(s) : s[i] = "n"
    BY <1>1 DEF Contains
  <2>2. Len(s) - i \in NLs
    BY <2>1
  <2>3. NLs \subseteq Nat /\ NLs # {}
    <3>1. NLs \subseteq Nat
      OBVIOUS
    <3> HIDE DEF NLs
    <3> QED BY <2>2, <3>1
  <2>4. PICK m \in NLs : \A k \in NLs : m <= k
    <3> HIDE DEF NLs
    <3> QED BY <2>3, Least
  <2>5. ASSUME NEW j \in Len(s) - m + 1 .. Len(s), s[j] = "n" PROVE FALSE
    <3>1. Len(s) - j \in NLs
      BY <2>5
    <3> QED BY <2>4, <3>1
  <2> QED BY <2>4, <2>5
<1>2. LastNL(s) = Len(s) - From
  BY Zenon DEF LastNL
<1>3. CASE Contains(s, "n")
  <2>1. From \in 0 .. Len(s) - 1 /\ P(From)
    BY <1>1, <1>3, Zenon
  <2> HIDE DEF From
  <2> QED BY <1>2, <2>1
<1>4. CASE ~Contains(s, "n")
  <2>1. From = Len(s)
    BY <1>4
  <2> HIDE DEF From
  <2> QED BY <1>2, <2>1
<1> QED BY <1>3, <1>4

\* A Read of n bytes makes the backlog longer and leaves it where it is.
LEMMA FilledGoesOn ==
    ASSUME Inv, state = "reading", NEW n \in Nat, n <= Len(Src) - pos
    PROVE  /\ Filled(n) \in Seq(Bytes) /\ Len(Filled(n)) = Len(buf) + n
           /\ GoesOn(Filled(n), Len(out), Src)
<1>1. Src \in Seq(Bytes) /\ buf \in Seq(Bytes) /\ out \in Seq(Shown) /\ pos \in Nat
  BY SrcType DEF Inv, TypeOK
<1>2. /\ pos = Len(out) + Len(buf) /\ pos + n <= Len(Src)
      /\ \A i \in 1 .. Len(buf) : buf[i] = Src[Len(out) + i]
  BY <1>1 DEF Inv, Backlog, GoesOn
<1> DEFINE d == SubSeq(Src, pos + 1, pos + n)
<1>3. d \in Seq(Bytes) /\ Len(d) = n /\ \A i \in 1 .. n : d[i] = Src[pos + i]
  BY <1>1, <1>2
<1> HIDE DEF d
<1>4. Filled(n) = buf \o d
  BY DEF Filled, d
<1>5. buf \o d \in Seq(Bytes) /\ Len(buf \o d) = Len(buf) + n
  BY <1>1, <1>3, Appended
<1>6. ASSUME NEW i \in 1 .. Len(buf) + n PROVE (buf \o d)[i] = Src[Len(out) + i]
  <2>1. Len(buf) \in Nat /\ Len(out) \in Nat
    BY <1>1
  <2>2. (buf \o d)[i] = IF i <= Len(buf) THEN buf[i] ELSE d[i - Len(buf)]
    <3>1. i \in 1 .. Len(buf) + Len(d)
      BY <1>3
    <3> QED BY <1>1, <1>3, <3>1, Appended
  <2>3. i <= Len(buf) => buf[i] = Src[Len(out) + i]
    BY <1>2, <2>1
  <2>4. i > Len(buf) => d[i - Len(buf)] = Src[Len(out) + i]
    <3> SUFFICES ASSUME i > Len(buf) PROVE d[i - Len(buf)] = Src[Len(out) + i]
      OBVIOUS
    <3>1. i - Len(buf) \in 1 .. n /\ pos + (i - Len(buf)) = Len(out) + i
      BY <1>2, <2>1
    <3> QED BY <1>3, <3>1
  <2> QED BY <2>1, <2>2, <2>3, <2>4
<1> QED BY <1>1, <1>2, <1>4, <1>5, <1>6 DEF GoesOn

\* Writing the first bytes of the backlog, masked or not, and keeping the
\* others leaves what is written and what waits next to each other.
LEMMA Flushed ==
    ASSUME NEW S \in Seq(Bytes), NEW o \in Seq(Shown), NEW d \in Seq(Bytes),
           Beginning(o, S), GoesOn(d, Len(o), S),
           NEW cut \in 0 .. Len(d),
           NEW r, Masks(r, d, cut)
    PROVE  /\ o \o r \in Seq(Shown) /\ Len(o \o r) = Len(o) + cut
           /\ Beginning(o \o r, S)
           /\ SubSeq(d, cut + 1, Len(d)) \in Seq(Bytes)
           /\ Len(SubSeq(d, cut + 1, Len(d))) = Len(d) - cut
           /\ GoesOn(SubSeq(d, cut + 1, Len(d)), Len(o) + cut, S)
<1> DEFINE w == o \o r
           b == SubSeq(d, cut + 1, Len(d))
<1>0. r \in Seq(Shown) /\ Len(r) = cut /\ \A i \in 1 .. cut : r[i] \in {d[i], Masked}
  BY DEF Masks
<1>1. w \in Seq(Shown) /\ Len(w) = Len(o) + cut
  BY <1>0, Appended
<1>2. b \in Seq(Bytes) /\ Len(b) = Len(d) - cut
  OBVIOUS
<1>3. ASSUME NEW i \in 1 .. Len(o) + cut PROVE w[i] \in {S[i], Masked}
  <2>1. CASE i <= Len(o)
    BY <1>0, <2>1 DEF Beginning
  <2>2. CASE i > Len(o)
    <3>1. i - Len(o) \in 1 .. cut /\ i - Len(o) \in 1 .. Len(d)
      BY <2>2
    <3>2. w[i] = r[i - Len(o)]
      BY <1>0, <2>2, Appended
    <3>3. d[i - Len(o)] = S[i]
      BY <3>1 DEF GoesOn
    <3> QED BY <1>0, <3>1, <3>2, <3>3, Zenon
  <2>3. i \in Int /\ Len(o) \in Int
    BY <1>0
  <2> HIDE DEF w
  <2> QED BY <2>1, <2>2, <2>3
<1>4. ASSUME NEW i \in 1 .. Len(d) - cut PROVE b[i] = S[Len(o) + cut + i]
  <2>1. b[i] = d[cut + i] /\ cut + i \in 1 .. Len(d)
    OBVIOUS
  <2>2. d[cut + i] = S[Len(o) + (cut + i)]
    BY <2>1 DEF GoesOn
  <2> QED BY <2>1, <2>2
<1>5. Len(o) + Len(d) <= Len(S)
  BY DEF GoesOn
<1> HIDE DEF w, b
<1>6. Beginning(w, S)
  BY <1>1, <1>3, <1>5 DEF Beginning
<1>7. GoesOn(b, Len(o) + cut, S)
  <2>1. (Len(o) + cut) + Len(b) <= Len(S)
    BY <1>2, <1>5
  <2> QED BY <1>2, <1>4, <2>1 DEF GoesOn
<1> QED BY <1>1, <1>2, <1>6, <1>7, Zenon DEF w, b

\* What a stream by lines writes next is masked as if the source had been
\* read at once up to there, if no match goes over where it goes on.
LEMMA LinesWritten ==
  ASSUME NEW S \in Seq(Bytes), NEW ps \in SUBSET Inline, NEW o \in Seq(Shown), NEW d \in Seq(Bytes),
         o = RedactBytes(SubSeq(S, 1, Len(o)), ps), Len(o) = 0 \/ S[Len(o)] = "n",
         GoesOn(d, Len(o), S), NEW cut \in 0 .. Len(d), "next" \in ps => ~ Over(S, Len(o))
  PROVE  o \o RedactBytes(SubSeq(d, 1, cut), ps) = RedactBytes(SubSeq(S, 1, Len(o) + cut), ps)
<1> DEFINE lo == Len(o)
           hi == lo + cut
           t == SubSeq(S, 1, hi)
           a == SubSeq(S, 1, lo)
           b == SubSeq(d, 1, cut)
<1>1. /\ Len(S) \in Nat /\ Len(d) \in Nat /\ lo \in Nat /\ cut \in Nat /\ cut <= Len(d) /\ lo + Len(d) <= Len(S)
      /\ \A i \in 1 .. Len(d) : d[i] = S[lo + i]
  BY DEF GoesOn
<1>2. lo = 0 \/ S[lo] = "n"
  OBVIOUS
<1>3. o = RedactBytes(a, ps)
  OBVIOUS
<1>4. "next" \in ps => ~ Over(S, lo)
  OBVIOUS
<1> HIDE DEF lo
<1>5. hi \in 0 .. Len(S) /\ lo \in 0 .. Len(S) /\ lo <= hi /\ hi \in Nat
  BY <1>1
<1>6. b \in Seq(Bytes) /\ Len(b) = cut /\ \A i \in 1 .. cut : b[i] = d[i]
  BY <1>1
<1>7. a \in Seq(Bytes) /\ Len(a) = lo /\ \A i \in 1 .. lo : a[i] = S[i]
  BY <1>5
<1> HIDE DEF hi
<1>8. t \in Seq(Bytes) /\ Len(t) = hi /\ \A i \in 1 .. hi : t[i] = S[i]
  BY <1>5
<1> HIDE DEF t, a, b
<1>9. Split(t, lo, a, b)
  <2>1. lo \in 0 .. Len(t) /\ (lo = 0 \/ t[lo] = "n")
    BY <1>2, <1>5, <1>8
  <2>2. \A i \in 1 .. lo : a[i] = t[i]
    <3>1. \A i \in 1 .. lo : i \in 1 .. hi
      BY <1>5
    <3> QED BY <1>7, <1>8, <3>1
  <2>3. Len(b) = Len(t) - lo
    BY <1>1, <1>5, <1>6, <1>8 DEF hi
  <2>4. ASSUME NEW i \in 1 .. Len(t) - lo PROVE b[i] = t[lo + i]
    <3>1. i \in 1 .. cut /\ i \in 1 .. Len(d) /\ lo + i \in 1 .. hi
      BY <1>1, <1>8 DEF hi
    <3> QED BY <1>1, <1>6, <1>8, <3>1
  <2> QED BY <1>6, <1>7, <2>1, <2>2, <2>3, <2>4 DEF Split
<1>10. "next" \in ps => ~ Over(t, lo)
  <2> SUFFICES ASSUME Over(t, lo) PROVE Over(S, lo)
    BY <1>4
  <2>1. /\ lo - 1 \in 1 .. hi /\ (lo - 1) + 3 - 1 <= hi
        /\ t[lo - 1] = "k" /\ t[(lo - 1) + 1] = "n" /\ t[(lo - 1) + 2] = "v"
    BY <1>8 DEF Over, IsMatch
  <2>2. (lo - 1) + 1 \in 1 .. hi /\ (lo - 1) + 2 \in 1 .. hi /\ (lo - 1) + 3 - 1 <= Len(S) /\ lo - 1 \in 1 .. Len(S)
    BY <1>1, <1>5, <2>1
  <2>3. S[lo - 1] = "k" /\ S[(lo - 1) + 1] = "n" /\ S[(lo - 1) + 2] = "v"
    BY <1>8, <2>1, <2>2
  <2> QED BY <2>2, <2>3 DEF Over, IsMatch
<1>11. RedactBytes(t, ps) = RedactBytes(a, ps) \o RedactBytes(b, ps)
  BY <1>8, <1>9, <1>10, ByLines
<1> QED BY <1>3, <1>11 DEF t, b, hi, lo

\* Every inline match in the first bytes of S that no cut of C goes through
\* is masked in o.
MaskedTo(o, C, ps, S) ==
    \A p \in ps : \A i, m \in Nat :
        (IsMatch(p, S, i, m) /\ i + m - 1 <= Len(o) /\ ~ \E c \in C : i <= c /\ c < i + m - 1) =>
            \A j \in i + GroupSkip(p) .. i + m - 1 : o[j] = Masked

\* What a stream in chunks writes next leaves no match unmasked but those a
\* cut goes through: a match either is all in the backlog or begins before
\* it, and then the cut before the backlog is in it.
LEMMA ChunkMasks ==
  ASSUME NEW S \in Seq(Bytes), NEW ps \in SUBSET Inline, NEW o \in Seq(Shown), NEW d \in Seq(Bytes),
         GoesOn(d, Len(o), S), NEW cut \in 0 .. Len(d),
         NEW r \in Seq(Shown), Len(r) = cut, \A k \in 1 .. cut : r[k] = RedactBytes(d, ps)[k],
         NEW C, NEW D, C \subseteq D, Len(o) = 0 \/ Len(o) \in C, MaskedTo(o, C, ps, S)
  PROVE  MaskedTo(o \o r, D, ps, S)
<1> DEFINE w == o \o r
           lo == Len(o)
<1>1. w \in Seq(Shown) /\ Len(w) = lo + cut /\ \A j \in 1 .. lo + cut : w[j] = IF j <= lo THEN o[j] ELSE r[j - lo]
  BY Appended
<1>2. /\ Len(S) \in Nat /\ Len(d) \in Nat /\ lo \in Nat /\ cut \in Nat /\ cut <= Len(d) /\ lo + Len(d) <= Len(S)
      /\ \A i \in 1 .. Len(d) : d[i] = S[lo + i]
  BY DEF GoesOn
<1>3. lo = 0 \/ lo \in C
  OBVIOUS
<1>4. \A k \in 1 .. Len(d) : RedactBytes(d, ps)[k] = IF \E p \in ps : Secret(p, d, k) THEN Masked ELSE d[k]
  <2>1. ps \in SUBSET Patterns
    BY DEF Patterns
  <2> QED BY <2>1, RedactIs
<1> SUFFICES ASSUME NEW p \in ps, NEW i \in Nat, NEW m \in Nat,
                    IsMatch(p, S, i, m), i + m - 1 <= Len(w), ~ \E c \in D : i <= c /\ c < i + m - 1,
                    NEW j \in i + GroupSkip(p) .. i + m - 1
             PROVE  w[j] = Masked
  BY Zenon DEF MaskedTo
<1>5. i >= 1 /\ m >= 2 /\ p \in Inline /\ GroupSkip(p) \in Nat
  BY DEF IsMatch, GroupSkip
<1>6. j \in Nat /\ i + GroupSkip(p) <= j /\ j <= i + m - 1 /\ j >= 1
  BY <1>5
<1>7. i + m - 1 <= lo + cut
  BY <1>1
<1>8. CASE i + m - 1 <= lo
  <2>1. ~ \E c \in C : i <= c /\ c < i + m - 1
    OBVIOUS
  <2>2. o[j] = Masked
    BY <1>8, <2>1 DEF MaskedTo
  <2>3. j \in 1 .. lo + cut /\ j <= lo
    BY <1>2, <1>5, <1>6, <1>8
  <2> HIDE DEF w, lo
  <2> QED BY <1>1, <2>2, <2>3
<1>9. CASE ~(i + m - 1 <= lo)
  <2>1. i > lo
    <3>1. CASE lo = 0
      BY <1>5, <3>1
    <3>2. CASE lo # 0
      <4>1. lo \in D
        BY <1>3, <3>2
      <4>2. ~(i <= lo /\ lo < i + m - 1)
        BY <4>1
      <4> QED BY <1>2, <1>5, <1>9, <4>2
    <3> QED BY <3>1, <3>2
  <2> DEFINE e == i - lo
             k == j - lo
  <2>2. e \in Nat /\ e >= 1 /\ lo + e = i
    BY <1>2, <2>1
  <2>3. e + m - 1 <= Len(d)
    BY <1>2, <1>7
  <2>4. k \in Nat /\ e + GroupSkip(p) <= k /\ k < e + m /\ k \in 1 .. cut /\ k \in 1 .. Len(d)
    <3>0. GroupSkip(p) \in Nat /\ lo \in Nat /\ cut \in Nat /\ cut <= Len(d) /\ Len(d) \in Nat
      BY <1>2, <1>5
    <3> HIDE DEF lo
    <3>1. k \in Nat /\ k >= 1 /\ k <= cut
      BY <1>5, <1>6, <1>7, <2>1, <3>0
    <3>2. e + GroupSkip(p) <= k /\ k < e + m
      BY <1>5, <1>6, <3>0
    <3> QED BY <3>0, <3>1, <3>2
  <2>5. j \in 1 .. lo + cut /\ ~(j <= lo)
    <3>1. lo \in Nat /\ cut \in Nat /\ i \in Nat /\ m \in Nat /\ GroupSkip(p) \in Nat
      BY <1>2, <1>5
    <3> HIDE DEF lo
    <3>2. j >= i /\ j <= lo + cut
      BY <1>6, <1>7, <3>1
    <3> QED BY <1>6, <2>1, <3>1, <3>2
  <2>6. w[j] = r[k]
    BY <1>1, <2>5
  <2> HIDE DEF e, k, w, lo
  <2>7. IsMatch(p, S, lo + e, m)
    BY <2>2
  <2>8. IsMatch(p, d, e, m)
    BY <1>2, <2>2, <2>3, <2>7, Window
  <2>9. Secret(p, d, k)
    BY <1>5, <2>2, <2>4, <2>8, SecretIs
  <2> QED BY <1>4, <2>4, <2>6, <2>9
<1> QED BY <1>8, <1>9

-----------------------------------------------------------------------------
(* The invariant, step by step *)

LEMMA InitInv == Init => Inv
<1> SUFFICES ASSUME Init PROVE Inv
  OBVIOUS
<1>1. file \in Seq(Bytes)
  BY DEF Init
<1>2. TypeOK
  BY <1>1 DEF Init, TypeOK, Modes, States
<1>3. Src \in Seq(Bytes)
  BY <1>1, <1>2, SrcType DEF TypeOK
<1>4. Backlog /\ Beginning(out, Src)
  BY <1>3 DEF Init, Backlog, Beginning, GoesOn
<1>5. BacklogBounded
  BY RedactAssumption DEF Init, BacklogBounded
<1>6. state # "done"
  BY DEF Init
<1> QED BY <1>2, <1>4, <1>5, <1>6 DEF Inv

\* Nothing that a stream writes or keeps changes while it is not reading.
LEMMA SrcSame == UNCHANGED <<file, req>> => Src' = Src
BY DEF Src, Need

\* One lemma for every action: a run starts on any bytes of any file.
LEMMA StartInv == ASSUME Inv, Start PROVE Inv'
<1>1. Src' = Src
  BY SrcSame DEF Start
<1>2. mode' \in Modes \ {"start"}
  BY DEF Start, Classify, Modes
<1>3. TypeOK'
  BY <1>2 DEF Inv, Start, TypeOK
<1>4. Backlog' /\ Beginning(out, Src)'
  BY <1>1, <1>2 DEF Inv, Start, Backlog, Beginning, GoesOn
<1>5. BacklogBounded'
  <2>1. state = "reading" => pos = 0 /\ pos = Len(out) + Len(buf)
    BY DEF Inv, Start, Backlog
  <2>2. state = "reading" => Len(buf) = 0
    BY <2>1 DEF Inv, TypeOK
  <2> QED BY <2>2, RedactAssumption DEF Start, BacklogBounded
<1>6. (state = "done" => Len(out) = Len(Src))'
  BY <1>1 DEF Inv, Start
<1> QED BY <1>3, <1>4, <1>5, <1>6 DEF Inv

\* A file read as a whole: what it is masked to is as long.
LEMMA StreamWholeFileInv == ASSUME Inv, StreamWholeFile PROVE Inv'
<1>1. Src' = Src
  BY SrcSame DEF StreamWholeFile
<1>2. Src \in Seq(Bytes)
  BY SrcType DEF Inv, TypeOK
<1>3. /\ RedactBytes(Src, pats) \in Seq(Shown) /\ Len(RedactBytes(Src, pats)) = Len(Src)
      /\ \A i \in 1 .. Len(Src) : RedactBytes(Src, pats)[i] \in {Src[i], Masked}
  BY <1>2, RedactKeepsPlaces DEF Masks
<1>4. state' \in {"failed", "done"}
  BY DEF StreamWholeFile
<1>5. TypeOK'
  BY <1>3 DEF Inv, StreamWholeFile, TypeOK, States
<1>6. Backlog' /\ BacklogBounded'
  BY <1>1, <1>4 DEF Inv, StreamWholeFile, Backlog, BacklogBounded
<1>7. Beginning(out, Src)' /\ (state = "done" => Len(out) = Len(Src))'
  BY <1>1, <1>2, <1>3 DEF Inv, StreamWholeFile, Beginning
<1> QED BY <1>5, <1>6, <1>7 DEF Inv

\* One Read by lines, within the buffer or past it.
LEMMA StreamLinesInv == ASSUME Inv, NEW n \in 1 .. ChunkSize, StreamLines(n) PROVE Inv'
<1>1. Src' = Src
  BY SrcSame DEF StreamLines
<1>2. /\ mode = "line" /\ state = "reading" /\ n \in Nat /\ n <= Len(Src) - pos /\ pos' = pos + n
      /\ UNCHANGED <<file, pats, req, mode>>
  BY RedactAssumption DEF StreamLines
<1>3. Src \in Seq(Bytes) /\ buf \in Seq(Bytes) /\ out \in Seq(Shown) /\ pos \in Nat /\ pos = Len(out) + Len(buf)
  BY <1>2, SrcType DEF Inv, TypeOK, Backlog
<1> DEFINE d == Filled(n)
<1>4. d \in Seq(Bytes) /\ Len(d) = Len(buf) + n /\ GoesOn(d, Len(out), Src)
  BY <1>2, FilledGoesOn
<1>5. pos' = Len(out) + Len(d) /\ pos' \in Nat /\ pos' <= Len(Src)
  BY <1>2, <1>3, <1>4
<1> HIDE DEF d
<1>6. CASE Len(d) > MaxBuffer
  <2>1. state' = "failed" /\ buf' = d /\ out' = out
    BY <1>6 DEF StreamLines, d
  <2>2. TypeOK'
    BY <1>2, <1>4, <1>5, <2>1 DEF Inv, TypeOK, States
  <2> QED BY <1>1, <1>5, <2>1, <2>2 DEF Inv, Backlog, Beginning, BacklogBounded
<1>7. CASE ~(Len(d) > MaxBuffer)
  <2> DEFINE cut == LastNL(d)
             r == RedactBytes(SubSeq(d, 1, cut), pats)
  <2>1. out' = out \o r /\ buf' = SubSeq(d, cut + 1, Len(d)) /\ state' = state
    BY <1>7 DEF StreamLines, FlushCompleteLines, d
  <2>2. cut \in 0 .. Len(d)
    BY <1>4, LastNLCuts
  <2> HIDE DEF cut
  <2>3. SubSeq(d, 1, cut) \in Seq(Bytes) /\ Len(SubSeq(d, 1, cut)) = cut /\ \A i \in 1 .. cut : SubSeq(d, 1, cut)[i] = d[i]
    BY <1>4, <2>2
  <2>4. Masks(r, d, cut)
    BY <2>3, RedactKeepsPlaces DEF Masks
  <2> HIDE DEF r
  <2>5. Beginning(out, Src)
    BY DEF Inv
  <2>6. /\ out' \in Seq(Shown) /\ Len(out') = Len(out) + cut /\ Beginning(out', Src)
        /\ buf' \in Seq(Bytes) /\ Len(buf') = Len(d) - cut /\ GoesOn(buf', Len(out) + cut, Src)
    <3>1. /\ out \o r \in Seq(Shown) /\ Len(out \o r) = Len(out) + cut /\ Beginning(out \o r, Src)
          /\ SubSeq(d, cut + 1, Len(d)) \in Seq(Bytes) /\ Len(SubSeq(d, cut + 1, Len(d))) = Len(d) - cut
          /\ GoesOn(SubSeq(d, cut + 1, Len(d)), Len(out) + cut, Src)
      <4>1. Src \in Seq(Bytes) /\ out \in Seq(Shown) /\ d \in Seq(Bytes)
        BY <1>3, <1>4
      <4>2. GoesOn(d, Len(out), Src)
        BY <1>4
      <4> QED BY <2>2, <2>4, <2>5, <4>1, <4>2, Flushed
    <3> QED BY <2>1, <3>1, Zenon
  <2>7. TypeOK'
    BY <1>2, <1>5, <2>1, <2>6 DEF Inv, TypeOK
  <2>8. pos' = Len(out') + Len(buf') /\ Len(buf') <= MaxBuffer
    BY <1>3, <1>4, <1>5, <1>7, <2>2, <2>6, RedactAssumption
  <2> QED BY <1>1, <1>2, <1>5, <2>1, <2>6, <2>7, <2>8 DEF Inv, Backlog, BacklogBounded
<1> QED BY <1>6, <1>7

\* One Read in chunks: all but the carried tail is written.
LEMMA StreamChunkedInv == ASSUME Inv, NEW n \in 1 .. ChunkSize, StreamChunked(n) PROVE Inv'
<1>1. Src' = Src
  BY SrcSame DEF StreamChunked
<1>2. /\ mode = "chunked" /\ state = "reading" /\ n \in Nat /\ n <= Len(Src) - pos /\ pos' = pos + n
      /\ UNCHANGED <<file, pats, req, mode, state>>
  BY RedactAssumption DEF StreamChunked
<1>3. Src \in Seq(Bytes) /\ buf \in Seq(Bytes) /\ out \in Seq(Shown) /\ pos \in Nat /\ pos = Len(out) + Len(buf)
  BY <1>2, SrcType DEF Inv, TypeOK, Backlog
<1> DEFINE d == Filled(n)
<1>4. d \in Seq(Bytes) /\ Len(d) = Len(buf) + n /\ GoesOn(d, Len(out), Src)
  BY <1>2, FilledGoesOn
<1>5. pos' = Len(out) + Len(d) /\ pos' \in Nat /\ pos' <= Len(Src)
  BY <1>2, <1>3, <1>4
<1> HIDE DEF d
<1> DEFINE cut == IF Len(d) <= CarryLen THEN 0 ELSE Len(d) - CarryLen
           red == RedactBytes(d, pats)
           r == SubSeq(red, 1, cut)
<1>6. out' = out \o r /\ buf' = SubSeq(d, cut + 1, Len(d))
  BY DEF StreamChunked, FlushExceptTail, d
<1>7. cut \in 0 .. Len(d) /\ Len(d) - cut <= CarryLen
  BY <1>4, RedactAssumption
<1>8. Masks(red, d, Len(d))
  BY <1>4, RedactKeepsPlaces
<1> HIDE DEF cut, red
<1>9. Masks(r, d, cut)
  <2>1. red \in Seq(Shown) /\ Len(red) = Len(d) /\ \A i \in 1 .. Len(d) : red[i] \in {d[i], Masked}
    BY <1>8 DEF Masks
  <2>2. r \in Seq(Shown) /\ Len(r) = cut /\ \A i \in 1 .. cut : r[i] = red[i] /\ i \in 1 .. Len(d)
    BY <1>4, <1>7, <2>1
  <2> HIDE DEF r
  <2> QED BY <2>1, <2>2 DEF Masks
<1> HIDE DEF r
<1>10. Beginning(out, Src)
  BY DEF Inv
<1>11. /\ out' \in Seq(Shown) /\ Len(out') = Len(out) + cut /\ Beginning(out', Src)
       /\ buf' \in Seq(Bytes) /\ Len(buf') = Len(d) - cut /\ GoesOn(buf', Len(out) + cut, Src)
  <2>1. /\ out \o r \in Seq(Shown) /\ Len(out \o r) = Len(out) + cut /\ Beginning(out \o r, Src)
        /\ SubSeq(d, cut + 1, Len(d)) \in Seq(Bytes) /\ Len(SubSeq(d, cut + 1, Len(d))) = Len(d) - cut
        /\ GoesOn(SubSeq(d, cut + 1, Len(d)), Len(out) + cut, Src)
    <3>1. Src \in Seq(Bytes) /\ out \in Seq(Shown) /\ d \in Seq(Bytes)
      BY <1>3, <1>4
    <3>2. GoesOn(d, Len(out), Src)
      BY <1>4
    <3>3. cut \in 0 .. Len(d)
      BY <1>7
    <3> HIDE DEF Src
    <3> QED BY <1>9, <1>10, <3>1, <3>2, <3>3, Flushed
  <2> QED BY <1>6, <2>1, Zenon
<1>12. TypeOK'
  BY <1>2, <1>5, <1>11 DEF Inv, TypeOK
<1>13. pos' = Len(out') + Len(buf') /\ Len(buf') <= CarryLen
  BY <1>3, <1>4, <1>5, <1>7, <1>11
<1> QED BY <1>1, <1>2, <1>5, <1>11, <1>12, <1>13 DEF Inv, Backlog, BacklogBounded

\* The end of the file: the whole backlog is written.
LEMMA AtEOFInv == ASSUME Inv, AtEOF PROVE Inv'
<1>1. Src' = Src
  BY SrcSame DEF AtEOF
<1>2. /\ state = "reading" /\ state' = "done" /\ pos = Len(Src) /\ buf' = <<>>
      /\ out' = out \o RedactBytes(buf, pats) /\ UNCHANGED <<file, pats, req, mode, pos>>
  BY DEF AtEOF
<1>3. Src \in Seq(Bytes) /\ buf \in Seq(Bytes) /\ out \in Seq(Shown)
  BY SrcType DEF Inv, TypeOK
<1>4. pos = Len(out) + Len(buf) /\ GoesOn(buf, Len(out), Src) /\ Beginning(out, Src)
  BY <1>2 DEF Inv, Backlog
<1> DEFINE r == RedactBytes(buf, pats)
<1>5. Masks(r, buf, Len(buf))
  BY <1>3, RedactKeepsPlaces
<1>6. Len(buf) \in 0 .. Len(buf)
  BY <1>3
<1> HIDE DEF r
<1>7. out \o r \in Seq(Shown) /\ Len(out \o r) = Len(out) + Len(buf) /\ Beginning(out \o r, Src)
  BY <1>3, <1>4, <1>5, <1>6, Flushed
<1>8. out' = out \o r
  BY <1>2 DEF r
<1>9. TypeOK'
  BY <1>2, <1>7, <1>8 DEF Inv, TypeOK, States
<1> QED BY <1>1, <1>2, <1>4, <1>7, <1>8, <1>9 DEF Inv, Backlog, BacklogBounded

\* A read that fails ends the run.
LEMMA ReadFailsInv == ASSUME Inv, ReadFails PROVE Inv'
<1>1. Src' = Src
  BY SrcSame DEF ReadFails
<1>2. TypeOK'
  BY DEF Inv, TypeOK, ReadFails, States
<1> QED BY <1>1, <1>2 DEF Inv, ReadFails, Backlog, BacklogBounded, Beginning

\* Every step keeps the invariant.
LEMMA NextInv == Inv /\ [Next]_vars => Inv'
<1> SUFFICES ASSUME Inv, [Next]_vars PROVE Inv'
  OBVIOUS
<1>1. CASE UNCHANGED vars
  <2>1. Src' = Src
    BY <1>1, SrcSame DEF vars
  <2> QED BY <1>1, <2>1 DEF vars, Inv, TypeOK, Backlog, BacklogBounded, Beginning, GoesOn
<1>2. CASE Next
  BY <1>2, StartInv, StreamWholeFileInv, AtEOFInv, ReadFailsInv, StreamLinesInv, StreamChunkedInv DEF Next
<1> QED BY <1>1, <1>2

-----------------------------------------------------------------------------
(* What was written is masked right *)

\* No match of "next" goes over the end of a flush.
NoneOver == "next" \in pats => \A c \in cuts : ~ Over(Src, c)

\* What was written is masked right. It ends where the last flush did, and
\* every match in it that the end of none goes through is masked. By lines, it
\* ends with a line, and is the source's first lines as Redact would mask them
\* at once, if no match goes over the end of a flush.
Written ==
    /\ pats \in PatternSets /\ mode \in {"start", Classify(pats)} /\ cuts \subseteq Nat
    /\ mode = "start" => state = "reading" /\ out = <<>>
    /\ (mode = "line" /\ state = "reading") =>
          /\ Len(out) = 0 \/ Src[Len(out)] = "n"
          /\ NoneOver => out = RedactBytes(SubSeq(Src, 1, Len(out)), pats)
    /\ (mode = "line" /\ state = "done" /\ NoneOver) => out = RedactBytes(Src, pats)
    /\ (mode = "wholeFile" /\ state = "done") => out = RedactBytes(Src, pats)
    /\ (mode \in {"line", "chunked"} /\ state = "reading") => Len(out) = 0 \/ Len(out) \in cuts
    /\ (mode \in {"line", "chunked"} /\ state # "failed") => MaskedTo(out, cuts, pats, file)

\* What the modes say of the patterns.
LEMMA Classified ==
  ASSUME Written
  PROVE  /\ pats \subseteq Patterns \cup {"whole"}
         /\ mode \in {"line", "chunked"} => pats \in SUBSET Inline
<1>1. pats \subseteq {"block", "env", "key", "line", "next", "whole"}
  <2>1. pats \in SUBSET ToSet(Shapes)
    BY RedactAssumption DEF Written
  <2>2. ToSet(Shapes) = {"block", "env", "key", "line", "next", "whole"}
    <3>1. DOMAIN Shapes = {1, 2, 3, 4, 5, 6}
      BY DEF Shapes
    <3>2. ToSet(Shapes) = {Shapes[i] : i \in {1, 2, 3, 4, 5, 6}}
      BY <3>1 DEF ToSet
    <3>3. /\ Shapes[1] = "block" /\ Shapes[2] = "env" /\ Shapes[3] = "key" /\ Shapes[4] = "line" /\ Shapes[5] = "next"
          /\ Shapes[6] = "whole"
      BY DEF Shapes
    <3> QED BY <3>2, <3>3
  <2> QED BY <2>1, <2>2
<1>2. pats \subseteq Patterns \cup {"whole"}
  BY <1>1 DEF Patterns, Inline
<1>3. ASSUME mode \in {"line", "chunked"} PROVE pats \in SUBSET Inline
  <2>1. mode = Classify(pats)
    BY <1>3 DEF Written
  <2>2. pats \cap {"whole", "block"} = {}
    BY <1>3, <2>1 DEF Classify
  <2> QED BY <1>1, <2>2 DEF Inline
<1> QED BY <1>2, <1>3

\* Nothing masked is nothing.
LEMMA RedactEmpty == ASSUME NEW s \in Seq(Bytes), Len(s) = 0, NEW ps PROVE RedactBytes(s, ps) = <<>>
<1> DEFINE r == RedactBytes(s, ps)
<1>1. r \in Seq(Shown) /\ Len(r) = 0
  BY RedactKeepsPlaces DEF Masks
<1> HIDE DEF r
<1>2. r = <<>>
  BY <1>1
<1> QED BY <1>2 DEF r

\* Before Classify nothing was written.
LEMMA InitWritten == ASSUME Init PROVE Written
BY DEF Init, Written

\* Classify: nothing is written, whatever the mode.
LEMMA StartWritten == ASSUME Inv, Written, Start PROVE Written'
<1>1. Src' = Src
  BY SrcSame DEF Start
<1>2. /\ state = "reading" /\ out = <<>> /\ state' = state /\ out' = out /\ cuts' = cuts /\ file' = file /\ pats' = pats
      /\ mode' = Classify(pats) /\ mode' # "start"
  BY DEF Start, Written, Classify
<1>3. Len(out) = 0
  BY <1>2
<1>4. out = RedactBytes(SubSeq(Src, 1, Len(out)), pats)
  <2>1. Src \in Seq(Bytes)
    BY SrcType DEF Inv, TypeOK
  <2>2. SubSeq(Src, 1, Len(out)) \in Seq(Bytes) /\ Len(SubSeq(Src, 1, Len(out))) = 0
    BY <1>3, <2>1
  <2> QED BY <1>2, <2>2, RedactEmpty
<1>5. MaskedTo(out, cuts, pats, file)
  <2>1. ~ \E p \in pats : \E i, m \in Nat : IsMatch(p, file, i, m) /\ i + m - 1 <= 0
    BY DEF IsMatch
  <2> QED BY <1>3, <2>1 DEF MaskedTo
<1>6. (pats \in PatternSets)'
  BY <1>2 DEF Written
<1> QED BY <1>1, <1>2, <1>3, <1>4, <1>5, <1>6 DEF Written

\* A file read as a whole is redacted at once, or refused.
LEMMA StreamWholeFileWritten == ASSUME Inv, Written, StreamWholeFile PROVE Written'
<1>1. Src' = Src
  BY SrcSame DEF StreamWholeFile
<1>2. /\ mode = "wholeFile" /\ mode' = mode /\ pats' = pats /\ cuts' = cuts
      /\ state' = "failed" \/ (state' = "done" /\ out' = RedactBytes(Src, pats))
  BY DEF StreamWholeFile
<1> QED BY <1>1, <1>2 DEF Written

\* A run that fails promises nothing of what it wrote.
LEMMA ReadFailsWritten == ASSUME Inv, Written, ReadFails PROVE Written'
BY DEF Written, ReadFails

\* When a flush ended at 0 nothing goes over its end.
LEMMA OverNothing == ASSUME NEW s PROVE ~ Over(s, 0)
BY DEF Over, IsMatch

\* No match goes over where the stream goes on.
LEMMA NotOverNow ==
  ASSUME NoneOver, Len(out) = 0 \/ Len(out) \in cuts
  PROVE  "next" \in pats => ~ Over(Src, Len(out))
<1>1. CASE Len(out) = 0
  BY <1>1, OverNothing
<1>2. CASE Len(out) \in cuts
  BY <1>2 DEF NoneOver
<1> QED BY <1>1, <1>2

\* One Read by lines: whole lines are redacted, and they are what follows.
LEMMA StreamLinesWritten == ASSUME Inv, Written, NEW n \in 1 .. ChunkSize, StreamLines(n) PROVE Written'
<1>1. Src' = Src
  BY SrcSame DEF StreamLines
<1>2. /\ mode = "line" /\ state = "reading" /\ n \in Nat /\ n <= Len(Src) - pos
      /\ UNCHANGED <<file, pats, req, mode>>
  BY RedactAssumption DEF StreamLines
<1>3. Src \in Seq(Bytes) /\ out \in Seq(Shown) /\ pats \in SUBSET Inline /\ file \in Seq(Bytes) /\ req \in Requests
  BY <1>2, SrcType, Classified DEF Inv, TypeOK
<1> DEFINE d == Filled(n)
<1>4. d \in Seq(Bytes) /\ GoesOn(d, Len(out), Src)
  BY <1>2, FilledGoesOn
<1> HIDE DEF d
<1>5. CASE Len(d) > MaxBuffer
  <2>1. state' = "failed" /\ cuts' = cuts
    BY <1>5 DEF StreamLines, d
  <2> QED BY <1>2, <2>1 DEF Written
<1>6. CASE ~(Len(d) > MaxBuffer)
  <2> DEFINE cut == LastNL(d)
             e == SubSeq(d, 1, cut)
             r == RedactBytes(e, pats)
  <2>1. out' = out \o r /\ state' = state /\ cuts' = IF cut = 0 THEN cuts ELSE cuts \cup {Len(out) + cut}
    BY <1>6 DEF StreamLines, FlushCompleteLines, d
  <2>2. cut \in 0 .. Len(d) /\ (cut = 0 \/ d[cut] = "n")
    BY <1>4, LastNLCuts
  <2> HIDE DEF cut
  <2>3. /\ Len(out) = 0 \/ Src[Len(out)] = "n"
        /\ NoneOver => out = RedactBytes(SubSeq(Src, 1, Len(out)), pats)
        /\ Len(out) = 0 \/ Len(out) \in cuts
        /\ MaskedTo(out, cuts, pats, file)
    BY <1>2 DEF Written
  <2>4. cuts \subseteq cuts'
    BY <2>1
  <2>5. NoneOver' => out \o r = RedactBytes(SubSeq(Src, 1, Len(out) + cut), pats)
    <3> SUFFICES ASSUME NoneOver' PROVE out \o r = RedactBytes(SubSeq(Src, 1, Len(out) + cut), pats)
      OBVIOUS
    <3>1. NoneOver
      BY <1>1, <1>2, <2>4 DEF NoneOver
    <3>2. "next" \in pats => ~ Over(Src, Len(out))
      BY <2>3, <3>1, NotOverNow
    <3> QED BY <1>3, <1>4, <2>2, <2>3, <3>1, <3>2, LinesWritten
  <2>6. e \in Seq(Bytes) /\ Len(e) = cut /\ \A i \in 1 .. cut : e[i] = d[i]
    BY <1>4, <2>2
  <2> HIDE DEF e
  <2>7. r \in Seq(Shown) /\ Len(r) = cut
    BY <2>6, RedactKeepsPlaces DEF Masks
  <2>8. \A k \in 1 .. cut : r[k] = RedactBytes(e, pats)[k]
    OBVIOUS
  <2> HIDE DEF r
  <2>9. Len(out \o r) = Len(out) + cut
    BY <1>3, <2>7, Appended
  <2>10. Len(out) + cut = 0 \/ Src[Len(out) + cut] = "n"
    <3>1. CASE cut = 0
      BY <1>3, <2>3, <3>1
    <3>2. CASE cut # 0
      <4>1. cut \in 1 .. Len(d) /\ d[cut] = "n"
        BY <1>4, <2>2, <3>2
      <4> QED BY <1>4, <4>1 DEF GoesOn
    <3> QED BY <3>1, <3>2
  <2>11. Len(out') = 0 \/ Len(out') \in cuts'
    BY <1>3, <2>1, <2>2, <2>3, <2>9
  <2>12. GoesOn(e, Len(out), file)
    <3>1. GoesOn(d, Len(out), file)
      BY <1>3, <1>4, GoesOnInFile
    <3>2. Len(out) + cut <= Len(file)
      BY <1>3, <1>4, <2>2, <3>1 DEF GoesOn
    <3>3. \A i \in 1 .. cut : i \in 1 .. Len(d)
      BY <1>4, <2>2
    <3> QED BY <2>6, <3>1, <3>2, <3>3 DEF GoesOn
  <2>13. MaskedTo(out \o r, cuts', pats, file)
    <3>1. cut \in 0 .. Len(e)
      BY <2>2, <2>6
    <3> QED BY <1>3, <2>3, <2>4, <2>6, <2>7, <2>8, <2>12, <3>1, ChunkMasks
  <2>14. Len(out') = Len(out) + cut /\ Src' = Src /\ pats' = pats /\ file' = file /\ mode' = "line" /\ state' = "reading"
    BY <1>1, <1>2, <2>1, <2>9
  <2>15. pats \in PatternSets /\ mode' \in {"start", Classify(pats')} /\ cuts \subseteq Nat
    BY <1>2, <2>14 DEF Written
  <2>16. cuts' \subseteq Nat
    <3>1. Len(out) + cut \in Nat
      BY <1>3, <1>4, <2>2
    <3> QED BY <2>1, <2>15, <3>1
  <2>17. NoneOver' => out' = RedactBytes(SubSeq(Src', 1, Len(out')), pats')
    BY <2>1, <2>5, <2>14
  <2>18. Len(out') = 0 \/ Src'[Len(out')] = "n"
    BY <2>10, <2>14
  <2>19. MaskedTo(out', cuts', pats', file')
    BY <2>1, <2>13, <2>14
  <2>20. pats' \in PatternSets
    BY <2>14, <2>15
  <2> QED BY <2>11, <2>14, <2>15, <2>16, <2>17, <2>18, <2>19, <2>20, Zenon DEF Written
<1> QED BY <1>5, <1>6

\* One Read in chunks: the cut is remembered, what is before it is masked.
LEMMA StreamChunkedWritten == ASSUME Inv, Written, NEW n \in 1 .. ChunkSize, StreamChunked(n) PROVE Written'
<1>1. Src' = Src
  BY SrcSame DEF StreamChunked
<1>2. /\ mode = "chunked" /\ state = "reading" /\ n \in Nat /\ n <= Len(Src) - pos
      /\ UNCHANGED <<file, pats, req, mode, state>>
  BY RedactAssumption DEF StreamChunked
<1>3. Src \in Seq(Bytes) /\ out \in Seq(Shown) /\ pats \in SUBSET Inline /\ file \in Seq(Bytes) /\ req \in Requests
  BY <1>2, SrcType, Classified DEF Inv, TypeOK
<1> DEFINE d == Filled(n)
<1>4. d \in Seq(Bytes) /\ GoesOn(d, Len(out), Src)
  BY <1>2, FilledGoesOn
<1> HIDE DEF d
<1> DEFINE cut == IF Len(d) <= CarryLen THEN 0 ELSE Len(d) - CarryLen
           red == RedactBytes(d, pats)
           r == SubSeq(red, 1, cut)
<1>5. out' = out \o r /\ cuts' = IF cut = 0 THEN cuts ELSE cuts \cup {Len(out) + cut}
  BY DEF StreamChunked, FlushExceptTail, d
<1>6. cut \in 0 .. Len(d)
  BY <1>4, RedactAssumption
<1>7. red \in Seq(Shown) /\ Len(red) = Len(d)
  BY <1>4, RedactKeepsPlaces DEF Masks
<1> HIDE DEF cut, red
<1>8. r \in Seq(Shown) /\ Len(r) = cut /\ \A k \in 1 .. cut : r[k] = red[k]
  BY <1>6, <1>7
<1> HIDE DEF r
<1>9. Len(out \o r) = Len(out) + cut
  BY <1>3, <1>8, Appended
<1>10. Len(out) = 0 \/ Len(out) \in cuts
  BY <1>2 DEF Written
<1>11. MaskedTo(out, cuts, pats, file)
  BY <1>2 DEF Written
<1>12. GoesOn(d, Len(out), file)
  BY <1>3, <1>4, GoesOnInFile
<1>13. cuts \subseteq cuts' /\ \A k \in 1 .. cut : r[k] = RedactBytes(d, pats)[k]
  BY <1>5, <1>8 DEF red
<1>14. MaskedTo(out \o r, cuts', pats, file)
  BY <1>3, <1>4, <1>6, <1>8, <1>10, <1>11, <1>12, <1>13, ChunkMasks
<1>15. Len(out') = 0 \/ Len(out') \in cuts'
  BY <1>3, <1>5, <1>6, <1>9, <1>10
<1>16. pats' \in PatternSets /\ mode' \in {"start", Classify(pats')} /\ cuts \subseteq Nat
  BY <1>2 DEF Written
<1>17. cuts' \subseteq Nat
  <2>1. Len(out) + cut \in Nat
    BY <1>3, <1>4, <1>6
  <2> QED BY <1>5, <1>16, <2>1
<1> QED BY <1>1, <1>2, <1>5, <1>14, <1>15, <1>16, <1>17 DEF Written

\* The end of the file: the backlog is redacted as the last of the bytes.
LEMMA AtEOFWritten == ASSUME Inv, Written, AtEOF PROVE Written'
<1>1. Src' = Src
  BY SrcSame DEF AtEOF
<1>2. /\ mode \in {"line", "chunked"} /\ state = "reading" /\ state' = "done" /\ pos = Len(Src)
      /\ out' = out \o RedactBytes(buf, pats) /\ UNCHANGED <<file, pats, req, mode, cuts>>
  BY DEF AtEOF
<1>3. Src \in Seq(Bytes) /\ buf \in Seq(Bytes) /\ out \in Seq(Shown) /\ pats \in SUBSET Inline /\ file \in Seq(Bytes) /\ req \in Requests
  BY <1>2, SrcType, Classified DEF Inv, TypeOK
<1>4. Len(Src) = Len(out) + Len(buf) /\ GoesOn(buf, Len(out), Src)
  BY <1>2 DEF Inv, Backlog
<1>5. Len(buf) \in 0 .. Len(buf)
  BY <1>3
<1>6. ASSUME mode = "line", NoneOver PROVE out' = RedactBytes(Src, pats)
  <2>1. out = RedactBytes(SubSeq(Src, 1, Len(out)), pats) /\ (Len(out) = 0 \/ Src[Len(out)] = "n")
    BY <1>2, <1>6 DEF Written
  <2>2. "next" \in pats => ~ Over(Src, Len(out))
    <3>1. Len(out) = 0 \/ Len(out) \in cuts
      BY <1>2 DEF Written
    <3> QED BY <1>6, <3>1, NotOverNow
  <2>3. out \o RedactBytes(SubSeq(buf, 1, Len(buf)), pats) = RedactBytes(SubSeq(Src, 1, Len(out) + Len(buf)), pats)
    BY <1>3, <1>4, <1>5, <2>1, <2>2, LinesWritten
  <2>4. SubSeq(buf, 1, Len(buf)) = buf /\ SubSeq(Src, 1, Len(Src)) = Src
    <3>1. \A s \in Seq(Bytes) : SubSeq(s, 1, Len(s)) = s
      OBVIOUS
    <3> QED BY <1>3, <3>1
  <2> QED BY <1>2, <1>4, <2>3, <2>4
<1>7. MaskedTo(out', cuts, pats, file)
  <2> DEFINE r == RedactBytes(buf, pats)
  <2>1. r \in Seq(Shown) /\ Len(r) = Len(buf)
    BY <1>3, RedactKeepsPlaces DEF Masks
  <2>2. Len(out) = 0 \/ Len(out) \in cuts
    BY <1>2 DEF Written
  <2>3. MaskedTo(out, cuts, pats, file)
    BY <1>2 DEF Written
  <2>4. GoesOn(buf, Len(out), file)
    BY <1>3, <1>4, GoesOnInFile
  <2>5. \A k \in 1 .. Len(buf) : r[k] = RedactBytes(buf, pats)[k]
    OBVIOUS
  <2> HIDE DEF r
  <2>6. MaskedTo(out \o r, cuts, pats, file)
    BY <1>3, <1>5, <2>1, <2>2, <2>3, <2>4, <2>5, ChunkMasks
  <2> QED BY <1>2, <2>6 DEF r
<1>8. NoneOver' => NoneOver
  BY <1>1, <1>2 DEF NoneOver
<1> QED BY <1>1, <1>2, <1>6, <1>7, <1>8 DEF Written

\* A file that was read as a whole masks every match of the file in its range.
LEMMA AtOnceMasks ==
  ASSUME Inv, Written, state = "done", mode = "wholeFile", NEW p \in pats \ {"whole"},
         NEW a \in Found, Has(FindAll(p, file), a), End(a) - 1 <= Len(Src),
         NEW j \in a.off + GroupSkip(p) .. End(a) - 1
  PROVE  out[j] = Masked
<1>1. file \in Seq(Bytes) /\ req \in Requests /\ Src \in Seq(Bytes) /\ out = RedactBytes(Src, pats)
  BY SrcType DEF Inv, TypeOK, Written
<1>2. Len(Src) \in 0 .. Len(file) /\ \A i \in 1 .. Len(Src) : Src[i] = file[i]
  BY <1>1, SrcBegins
<1>3. a.off \in Nat /\ a.len \in Nat /\ a.off >= 1 /\ End(a) = a.off + a.len /\ GroupSkip(p) \in Nat
  BY DEF Found, Spans, End, GroupSkip
<1>4. j \in Nat /\ j \in 1 .. Len(Src) /\ a.off + GroupSkip(p) <= j /\ j < End(a)
  BY <1>1, <1>3
<1>5. p \in Patterns
  BY Classified
<1>6. CASE "whole" \in pats
  BY <1>1, <1>4, <1>6, WholeIs
<1>7. CASE "whole" \notin pats
  <2>1. pats \in SUBSET Patterns
    BY <1>7, Classified
  <2>2. Secret(p, Src, j)
    <3>1. CASE p \in Inline
      <4>1. IsMatch(p, file, a.off, a.len)
        BY <1>1, <3>1, InlineFound
      <4> DEFINE lo == 0
      <4>2. lo \in Nat /\ lo + Len(Src) <= Len(file) /\ (\A i \in 1 .. Len(Src) : Src[i] = file[lo + i])
            /\ IsMatch(p, file, lo + a.off, a.len) /\ a.off + a.len - 1 <= Len(Src)
        BY <1>1, <1>2, <1>3, <4>1
      <4> HIDE DEF lo
      <4>3. IsMatch(p, Src, a.off, a.len)
        BY <1>1, <1>3, <4>2, Window
      <4> QED BY <1>1, <1>3, <1>4, <3>1, <4>3, SecretIs
    <3>2. CASE p \notin Inline
      <4>1. p = "block"
        BY <1>5, <3>2 DEF Patterns
      <4>2. Has(FindAll("block", Src), a)
        BY <1>1, <1>2, <4>1, BlockFound
      <4> QED BY <1>4, <4>1, <4>2 DEF Secret
    <3> QED BY <3>1, <3>2
  <2>3. RedactBytes(Src, pats)[j] = Masked
    BY <1>1, <1>4, <2>1, <2>2, RedactIs
  <2> QED BY <1>1, <2>3
<1> QED BY <1>6, <1>7

-----------------------------------------------------------------------------
(* What a stream promises *)

\* The written bytes, the backlog and the position always agree: the
\* invariant holds in every reachable state.
THEOREM StreamInvariant == Spec => []Inv
<1>1. QED BY InitInv, NextInv, PTL DEF Spec

\* Nothing is lost, repeated or moved by Stream between one backlog and the
\* next (stream.go): each byte written is the source's or masked, and a
\* stream that ended well wrote as many as it was given.
THEOREM StreamKeepsPlaces == Spec => []SamePlaces
<1>1. Inv => SamePlaces
  BY DEF Inv, SamePlaces, Beginning
<1> QED BY <1>1, StreamInvariant, PTL

\* What Stream holds between two reads is bounded by the carried tail in
\* chunked mode and by the allowed buffer in the others, whatever the file.
THEOREM StreamMemoryIsBounded == Spec => []BacklogBounded
<1>1. Inv => BacklogBounded
  BY DEF Inv
<1> QED BY <1>1, StreamInvariant, PTL

\* What was written is masked right in every reachable state: the second
\* invariant, on top of the first.
THEOREM StreamWritten == Spec => [](Inv /\ Written)
<1>1. Init => Inv /\ Written
  BY InitInv, InitWritten
<1>2. Inv /\ Written /\ [Next]_vars => (Inv /\ Written)'
  <2> SUFFICES ASSUME Inv, Written, [Next]_vars PROVE Inv' /\ Written'
    OBVIOUS
  <2>1. Inv'
    BY NextInv
  <2>2. CASE UNCHANGED vars
    <3>1. Src' = Src
      BY <2>2, SrcSame DEF vars
    <3> QED BY <2>1, <2>2, <3>1 DEF vars, Written, NoneOver, MaskedTo
  <2>3. CASE Next
    BY <2>1, <2>3, StartWritten, StreamWholeFileWritten, AtEOFWritten, ReadFailsWritten,
       StreamLinesWritten, StreamChunkedWritten DEF Next
  <2> QED BY <2>2, <2>3
<1> QED BY <1>1, <1>2, PTL DEF Spec

\* A stream by lines or by the whole file (stream.go) masks exactly the bytes
\* that Redact masks when it has the whole source: where the reader stopped,
\* and the backlog in between, make no difference, unless a builtin's match
\* goes over the end of a line where a flush ended.
THEOREM BufferedIsExact == Spec => []BufferedExact
<1>1. ASSUME Inv, Written PROVE BufferedExact
  <2> DEFINE over == "next" \in pats /\ \E a \in ToSet(FindAll("next", Src)) : Straddled(a)
  <2> SUFFICES ASSUME state = "done", mode # "chunked", ~over PROVE out = RedactBytes(Src, pats)
    BY Zenon DEF BufferedExact
  <2>1. Src \in Seq(Bytes) /\ mode \in {"line", "wholeFile"}
    BY <1>1, SrcType DEF Inv, TypeOK, Modes, Written
  <2>2. NoneOver
    <3> SUFFICES ASSUME "next" \in pats, NEW c \in cuts, Over(Src, c) PROVE FALSE
      BY DEF NoneOver
    <3> DEFINE a == [off |-> c - 1, len |-> 3]
    <3>1. c - 1 \in Nat /\ c - 1 >= 1 /\ IsMatch("next", Src, c - 1, 3)
      BY DEF Over, IsMatch
    <3>2. c \in Nat
      <4>1. c \in Int
        BY <1>1 DEF Written
      <4> QED BY <3>1, <4>1
    <3>3. a \in Found /\ a.off = c - 1 /\ a.len = 3
      BY <3>1 DEF Found, Spans
    <3> HIDE DEF a
    <3>4. Has(FindAll("next", Src), a) /\ FindAll("next", Src) \in Seq(Found)
      BY <2>1, <3>1, <3>3, InlineFound DEF Inline
    <3>5. a \in ToSet(FindAll("next", Src))
      BY <3>4 DEF ToSet, Has
    <3>6. Straddled(a)
      BY <3>2, <3>3 DEF Straddled, End
    <3> QED BY <3>5, <3>6
  <2> QED BY <1>1, <2>1, <2>2 DEF Written
<1>2. Inv /\ Written => BufferedExact
  BY <1>1
<1> QED BY <1>2, StreamWritten, PTL

\* A read of a masked file too large for the cache (RamCache.readOversize)
\* hands out no byte of a match of the whole file that ends in its range,
\* unless the end of a flush goes through the match.
THEOREM ReadsMask == Spec => []ReadsMaskAll
<1>1. ASSUME Inv, Written PROVE ReadsMaskAll
  <2> SUFFICES ASSUME state = "done", NEW p \in pats \ {"whole"}, NEW a \in ToSet(FindAll(p, file)),
                      End(a) - 1 <= Len(Src), ~Straddled(a),
                      NEW j \in a.off + GroupSkip(p) .. End(a) - 1
               PROVE  out[j] = Masked
    BY DEF ReadsMaskAll
  <2>1. file \in Seq(Bytes) /\ p \in Patterns
    BY <1>1, Classified DEF Inv, TypeOK
  <2>2. a \in Found /\ Has(FindAll(p, file), a)
    <3>1. FindAll(p, file) \in Seq(Found)
      BY <2>1, FoundType
    <3> QED BY <3>1 DEF ToSet, Has
  <2>3. CASE mode = "wholeFile"
    BY <1>1, <2>2, <2>3, AtOnceMasks
  <2>4. CASE mode \in {"line", "chunked"}
    <3>1. pats \in SUBSET Inline /\ MaskedTo(out, cuts, pats, file) /\ Len(out) = Len(Src)
      BY <1>1, <2>4, Classified DEF Written, Inv
    <3>2. a.off \in Nat /\ a.len \in Nat /\ End(a) = a.off + a.len
      BY <2>2 DEF Found, Spans, End
    <3>3. IsMatch(p, file, a.off, a.len)
      BY <2>1, <2>2, <3>1, InlineFound
    <3>4. End(a) - 1 = a.off + a.len - 1
      BY <3>2
    <3>5. ~ \E c \in cuts : a.off <= c /\ c < a.off + a.len - 1
      BY <3>4 DEF Straddled
    <3>6. a.off + a.len - 1 <= Len(out)
      BY <3>1, <3>4
    <3>7. j \in a.off + GroupSkip(p) .. a.off + a.len - 1
      BY <3>4
    <3>8. p \in pats /\ a.off \in Nat /\ a.len \in Nat
      BY <3>2
    <3>9. \A l \in a.off + GroupSkip(p) .. a.off + a.len - 1 : out[l] = Masked
      BY <3>1, <3>3, <3>5, <3>6, <3>8, Zenon DEF MaskedTo
    <3> QED BY <3>7, <3>9
  <2>5. mode \in {"wholeFile", "line", "chunked"}
    BY <1>1 DEF Inv, TypeOK, Modes, Written
  <2> QED BY <2>3, <2>4, <2>5
<1>2. Inv /\ Written => ReadsMaskAll
  BY <1>1
<1> QED BY <1>2, StreamWritten, PTL
=============================================================================
