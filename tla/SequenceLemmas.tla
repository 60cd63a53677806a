--------------------------- MODULE SequenceLemmas ---------------------------
(***************************************************************************)
(* Facts about naturals, recursive functions and sequences of sequences    *)
(* that the proofs about the components share.  Induction and recursion    *)
(* are stated over sets and functions, so that the provers can use them.   *)
(***************************************************************************)
EXTENDS Integers, SequencePlaces, FiniteSetTheorems, WellFoundedInduction, TLAPS

\* A set of natural numbers has a least element.
LEMMA LeastNatural ==
    ASSUME NEW S, S \subseteq Nat, S # {}
    PROVE  \E m \in S : \A k \in S : m <= k
<1> DEFINE R == {ss \in Nat \X Nat : ss[1] < ss[2]}
<1>1. IsWellFoundedOn(R, Nat)
  BY NatLessThanWellFounded, Zenon DEF OpToRel
<1>2. \A k, m \in S : k < m => <<k, m>> \in R
  OBVIOUS
<1> HIDE DEF R
<1>3. PICK m \in S : \A k \in S : ~ (<<k, m>> \in R)
  BY <1>1, WFMin
<1>4. \A k \in S : m \in Nat /\ k \in Nat /\ ~ (k < m)
  BY <1>2, <1>3
<1> QED BY <1>4

\* Induction from lo to hi: the least number that is not Good has a
\* predecessor that is.
LEMMA IntervalInduction ==
    ASSUME NEW lo \in Nat, NEW hi \in Nat, NEW Good,
           lo \in Good,
           \A k \in lo + 1 .. hi : k - 1 \in Good => k \in Good
    PROVE  \A k \in lo..hi : k \in Good
<1> DEFINE Bad == {k \in lo..hi : k \notin Good}
<1> SUFFICES ASSUME Bad # {} PROVE FALSE
  OBVIOUS
<1>1. Bad \subseteq Nat
  OBVIOUS
<1>2. PICK m \in Bad : \A k \in Bad : m <= k
  <2> HIDE DEF Bad
  <2> QED BY <1>1, LeastNatural
<1>3. m \in lo..hi /\ m \notin Good /\ m # lo
  OBVIOUS
<1>4. m \in lo + 1 .. hi /\ m - 1 \in lo..hi /\ ~ (m <= m - 1)
  BY <1>3
<1>5. m - 1 \in Good
  BY <1>2, <1>4
<1> QED BY <1>3, <1>4, <1>5

\* f is what `step` makes of `base`, from lo to hi.
Follows(f, base, step, lo, hi) ==
    f[lo] = base /\ \A i \in lo + 1 .. hi : f[i] = step[<<f[i - 1], i>>]

\* A recursive definition over an interval defines a function.
LEMMA RecursionExists ==
    ASSUME NEW T, NEW lo, NEW hi, NEW base, NEW step,
           lo \in Nat, hi \in Nat, lo <= hi, base \in T,
           step \in [T \X (lo + 1 .. hi) -> T]
    PROVE  \E f \in [lo..hi -> T] : Follows(f, base, step, lo, hi)
<1> DEFINE Upto(f, k) == f[lo] = base /\ \A i \in lo + 1 .. k : f[i] = step[<<f[i - 1], i>>]
           Good == {k \in lo..hi : \E f \in [lo..k -> T] : Upto(f, k)}
<1>1. lo \in Good
  <2> DEFINE f == [i \in lo..lo |-> base]
  <2>1. f \in [lo..lo -> T] /\ Upto(f, lo)
    OBVIOUS
  <2> QED BY <2>1
<1>2. ASSUME NEW k \in lo + 1 .. hi, k - 1 \in Good PROVE k \in Good
  <2>1. PICK f \in [lo .. k - 1 -> T] : Upto(f, k - 1)
    BY <1>2
  <2> DEFINE g == [i \in lo..k |-> IF i < k THEN f[i] ELSE step[<<f[k - 1], k>>]]
  <2>2. k - 1 \in lo .. k - 1 /\ k \in lo + 1 .. hi /\ k \in lo..hi
    OBVIOUS
  <2>3. <<f[k - 1], k>> \in T \X (lo + 1 .. hi)
    BY <2>2
  <2>4. g \in [lo..k -> T]
    BY <2>3
  <2>5. \A i \in lo .. k - 1 : g[i] = f[i]
    OBVIOUS
  <2>6. g[lo] = base
    BY <2>1, <2>2, <2>5
  <2>7. ASSUME NEW i \in lo + 1 .. k PROVE g[i] = step[<<g[i - 1], i>>]
    <3>1. CASE i = k
      <4>1. g[k] = step[<<f[k - 1], k>>] /\ g[k - 1] = f[k - 1]
        BY <2>2
      <4> QED BY <3>1, <4>1
    <3>2. CASE i # k
      <4>1. i \in lo .. k - 1 /\ i - 1 \in lo .. k - 1 /\ i \in lo + 1 .. k - 1
        BY <3>2
      <4> HIDE DEF g
      <4> QED BY <2>1, <2>5, <4>1
    <3> QED BY <3>1, <3>2
  <2> HIDE DEF g
  <2> QED BY <2>2, <2>4, <2>6, <2>7
<1> HIDE DEF Good
<1>3. hi \in Good
  BY <1>1, <1>2, IntervalInduction
<1> QED BY <1>3 DEF Good, Follows

\* f is what a pass over n elements makes of `base`.
Passes(f, base, step, n) ==
    f[0] = base /\ \A k \in 1..n : f[k] = step[<<f[k - 1], k>>]

LEMMA PassExists ==
    ASSUME NEW T, NEW n, NEW base, NEW step,
           n \in Nat, base \in T, step \in [T \X (1..n) -> T]
    PROVE  \E f \in [0..n -> T] : Passes(f, base, step, n)
<1> DEFINE lo == 0
<1>1. lo \in Nat /\ lo <= n /\ step \in [T \X (lo + 1 .. n) -> T]
  OBVIOUS
<1> HIDE DEF lo
<1>2. \E f \in [lo..n -> T] : Follows(f, base, step, lo, n)
  BY <1>1, RecursionExists
<1> QED BY <1>2 DEF Follows, Passes, lo

\* What every step of a pass keeps holds at its end.
LEMMA PassStays ==
    ASSUME NEW T, NEW n, NEW f,
           n \in Nat, f[0] \in T, \A k \in 1..n : f[k - 1] \in T => f[k] \in T
    PROVE  f[n] \in T
<1> DEFINE lo == 0
           Good == {k \in 0..n : f[k] \in T}
<1>1. lo \in Nat /\ n \in lo..n
  OBVIOUS
<1>2. lo \in Good /\ \A k \in lo + 1 .. n : k - 1 \in Good => k \in Good
  OBVIOUS
<1>3. n \in Good => f[n] \in T
  OBVIOUS
<1> HIDE DEF lo, Good
<1> QED BY <1>1, <1>2, <1>3, IntervalInduction

\* Two passes in step.
LEMMA PairStays ==
    ASSUME NEW R, NEW n, NEW f, NEW g,
           n \in Nat, <<f[0], g[0]>> \in R,
           \A k \in 1..n : <<f[k - 1], g[k - 1]>> \in R => <<f[k], g[k]>> \in R
    PROVE  <<f[n], g[n]>> \in R
<1> DEFINE h == [k \in 0..n |-> <<f[k], g[k]>>]
<1>1. h[0] = <<f[0], g[0]>> /\ h[n] = <<f[n], g[n]>>
  OBVIOUS
<1>2. \A k \in 1..n : h[k] = <<f[k], g[k]>> /\ h[k - 1] = <<f[k - 1], g[k - 1]>>
  OBVIOUS
<1> HIDE DEF h
<1>3. h[0] \in R /\ \A k \in 1..n : h[k - 1] \in R => h[k] \in R
  BY <1>1, <1>2
<1>4. h[n] \in R
  BY ONLY n \in Nat, <1>3, PassStays
<1> QED BY <1>1, <1>4

-----------------------------------------------------------------------------
\* The elements of a concatenation.
LEMMA ConcatElements ==
    ASSUME NEW S, NEW s \in Seq(S), NEW t \in Seq(S)
    PROVE  /\ s \o t \in Seq(S)
           /\ Len(s \o t) = Len(s) + Len(t)
           /\ \A k \in 1 .. Len(s) + Len(t) :
                 (s \o t)[k] = IF k <= Len(s) THEN s[k] ELSE t[k - Len(s)]
  OBVIOUS

\* What a concatenation holds, and when it holds it once.
LEMMA ConcatSet ==
    ASSUME NEW S, NEW s \in Seq(S), NEW t \in Seq(S)
    PROVE  /\ s \o t \in Seq(S)
           /\ ToSet(s \o t) = ToSet(s) \cup ToSet(t)
           /\ IsInjective(s) /\ IsInjective(t) /\ ToSet(s) \cap ToSet(t) = {}
                 => IsInjective(s \o t)
<1> DEFINE m == Len(s)
           n == Len(t)
           u == s \o t
<1>1. /\ u \in Seq(S) /\ Len(u) = m + n /\ m \in Nat /\ n \in Nat
      /\ \A k \in 1..m : k \in 1 .. m + n /\ u[k] = s[k]
      /\ \A k \in 1..n : m + k \in 1 .. m + n /\ u[m + k] = t[k]
      /\ \A k \in 1 .. m + n : k \in 1..m \/ (k - m \in 1..n /\ u[k] = t[k - m])
  BY ConcatElements
<1>2. DOMAIN u = 1 .. m + n /\ DOMAIN s = 1..m /\ DOMAIN t = 1..n
  BY <1>1
<1> HIDE DEF u, m, n
<1>3. ToSet(u) = ToSet(s) \cup ToSet(t)
  <2>1. ToSet(u) \subseteq ToSet(s) \cup ToSet(t)
    <3> SUFFICES ASSUME NEW k \in 1 .. m + n PROVE u[k] \in ToSet(s) \cup ToSet(t)
      BY <1>2 DEF ToSet
    <3> QED BY <1>1, <1>2 DEF ToSet
  <2>2. \A k \in 1..m : s[k] \in ToSet(u)
    BY <1>1, <1>2 DEF ToSet
  <2>3. \A k \in 1..n : t[k] \in ToSet(u)
    BY <1>1, <1>2 DEF ToSet
  <2>4. ToSet(s) \subseteq ToSet(u) /\ ToSet(t) \subseteq ToSet(u)
    BY <2>2, <2>3, <1>2 DEF ToSet
  <2> QED BY <2>1, <2>4
<1>4. ASSUME IsInjective(s), IsInjective(t), ToSet(s) \cap ToSet(t) = {}
      PROVE  IsInjective(u)
  <2> SUFFICES ASSUME NEW a \in 1 .. m + n, NEW b \in 1 .. m + n, u[a] = u[b] PROVE a = b
    BY <1>2 DEF IsInjective
  <2>1. CASE a \in 1..m /\ b \in 1..m
    BY <2>1, <1>1, <1>2, <1>4 DEF IsInjective
  <2>2. CASE a \in 1..m /\ b \notin 1..m
    BY <2>2, <1>1, <1>2, <1>4 DEF ToSet
  <2>3. CASE a \notin 1..m /\ b \in 1..m
    BY <2>3, <1>1, <1>2, <1>4 DEF ToSet
  <2>4. CASE a \notin 1..m /\ b \notin 1..m
    <3>1. a - m \in 1..n /\ b - m \in 1..n /\ t[a - m] = t[b - m]
      BY <2>4, <1>1
    <3>2. a - m = b - m
      BY <3>1, <1>2, <1>4 DEF IsInjective
    <3> QED BY <3>2, <1>1
  <2> QED BY <2>1, <2>2, <2>3, <2>4
<1> QED BY <1>1, <1>3, <1>4 DEF u

\* FlattenSeq is the last of the concatenations of its prefixes.
LEMMA FlattenDefined ==
    ASSUME NEW S, NEW ss \in Seq(Seq(S)), Len(ss) # 0
    PROVE  \E f \in [1..Len(ss) -> Seq(S)] :
              /\ f[1] = ss[1]
              /\ \A i \in 2..Len(ss) : f[i] = f[i - 1] \o ss[i]
              /\ FlattenSeq(ss) = f[Len(ss)]
<1> DEFINE n == Len(ss)
           F(f) == [i \in 1..n |-> IF i = 1 THEN ss[i] ELSE f[i - 1] \o ss[i]]
           step == [p \in Seq(S) \X (1 + 1 .. n) |-> p[1] \o ss[p[2]]]
<1>1. n \in Nat /\ 1 <= n /\ \A i \in 1..n : ss[i] \in Seq(S)
  OBVIOUS
<1>2. step \in [Seq(S) \X (1 + 1 .. n) -> Seq(S)]
  <2> SUFFICES ASSUME NEW p \in Seq(S) \X (1 + 1 .. n) PROVE p[1] \o ss[p[2]] \in Seq(S)
    OBVIOUS
  <2>1. p[1] \in Seq(S) /\ p[2] \in 1..n
    BY <1>1
  <2> QED BY <1>1, <2>1, ConcatElements
<1>3. ss[1] \in Seq(S)
  BY <1>1
<1> HIDE DEF n, step
<1>4. PICK g \in [1..n -> Seq(S)] :
         g[1] = ss[1] /\ \A i \in 1 + 1 .. n : g[i] = step[<<g[i - 1], i>>]
  <2> DEFINE T == Seq(S)
             lo == 1
             base == ss[lo]
  <2>1. /\ lo \in Nat /\ n \in Nat /\ lo <= n /\ base \in T
        /\ step \in [T \X (lo + 1 .. n) -> T]
    BY <1>1, <1>2, <1>3
  <2> HIDE DEF T, lo, base
  <2>2. \E g \in [lo..n -> T] : Follows(g, base, step, lo, n)
    BY <2>1, RecursionExists
  <2> QED BY <2>2 DEF T, lo, base, Follows
<1>5. \A i \in 2..n : g[i] = g[i - 1] \o ss[i]
  <2> SUFFICES ASSUME NEW i \in 2..n PROVE g[i] = g[i - 1] \o ss[i]
    OBVIOUS
  <2>1. <<g[i - 1], i>> \in Seq(S) \X (1 + 1 .. n)
    BY <1>1
  <2>2. step[<<g[i - 1], i>>] = g[i - 1] \o ss[i]
    BY <2>1 DEF step
  <2>3. i \in 1 + 1 .. n
    BY <1>1
  <2>4. g[i] = step[<<g[i - 1], i>>]
    BY <1>4, <2>3, Zenon
  <2> QED BY <2>2, <2>4, Zenon
<1>6. g = F(g)
  <2>1. \A i \in 1..n : g[i] = F(g)[i]
    <3> SUFFICES ASSUME NEW i \in 1..n PROVE g[i] = IF i = 1 THEN ss[i] ELSE g[i - 1] \o ss[i]
      OBVIOUS
    <3>1. i = 1 \/ i \in 2..n
      BY <1>1
    <3> QED BY <1>4, <1>5, <3>1
  <2> QED BY <2>1
<1> DEFINE f == CHOOSE h : h = F(h)
<1>7. f = F(f)
  BY <1>6
<1>8. FlattenSeq(ss) = f[n]
  BY <1>1 DEF FlattenSeq, n
<1> HIDE DEF f
<1>9. f[1] = ss[1] /\ \A i \in 2..n : f[i] = f[i - 1] \o ss[i]
  <2> DEFINE h == F(f)
  <2>1. h[1] = ss[1] /\ \A i \in 2..n : h[i] = f[i - 1] \o ss[i]
    <3>1. 1 \in 1..n /\ \A i \in 2..n : i \in 1..n /\ i # 1
      BY <1>1
    <3> QED BY <3>1
  <2> HIDE DEF h
  <2>2. h = f
    BY <1>7 DEF h
  <2> QED BY <2>1, <2>2
<1>10. DOMAIN f = 1..n /\ f = [i \in 1..n |-> f[i]]
  <2>1. DOMAIN F(f) = 1..n /\ F(f) = [i \in 1..n |-> F(f)[i]]
    OBVIOUS
  <2> HIDE DEF F
  <2> QED BY <1>7, <2>1
<1>11. f \in [1..n -> Seq(S)]
  <2> DEFINE Good == {k \in 1..n : f[k] \in Seq(S)}
  <2>1. 1 \in Good
    BY <1>1, <1>3, <1>9
  <2>2. ASSUME NEW k \in 1 + 1 .. n, k - 1 \in Good PROVE k \in Good
    <3>1. k \in 1..n /\ k \in 2..n
      BY <1>1
    <3>2. f[k] = f[k - 1] \o ss[k]
      BY <1>9, <3>1, Zenon
    <3>3. f[k - 1] \in Seq(S) /\ ss[k] \in Seq(S)
      BY <1>1, <2>2, <3>1, Zenon
    <3>4. f[k] \in Seq(S)
      BY <3>2, <3>3, ConcatElements, Zenon
    <3> QED BY <3>1, <3>4
  <2> HIDE DEF Good
  <2>3. \A k \in 1..n : k \in Good
    BY <1>1, <2>1, <2>2, IntervalInduction
  <2>4. \A k \in 1..n : f[k] \in Seq(S)
    BY <2>3 DEF Good
  <2> QED BY <1>10, <2>4
<1> QED BY <1>8, <1>9, <1>11 DEF n

\* FlattenSeq keeps the elements, and their places if no element has two.
LEMMA FlattenFacts ==
    ASSUME NEW S, NEW ss \in Seq(Seq(S))
    PROVE  /\ FlattenSeq(ss) \in Seq(S)
           /\ ToSet(FlattenSeq(ss)) = AllOf(ss)
           /\ OnceEach(ss) => IsInjective(FlattenSeq(ss))
<1>1. CASE Len(ss) = 0
  <2>1. FlattenSeq(ss) = ss
    BY <1>1 DEF FlattenSeq
  <2>2. ss = <<>> /\ DOMAIN ss = {}
    BY <1>1
  <2>3. ss \in Seq(S)
    BY <2>2
  <2> QED BY <2>1, <2>2, <2>3 DEF ToSet, AllOf, IsInjective
<1>2. CASE Len(ss) # 0
  <2> DEFINE n == Len(ss)
             Below(k) == UNION {ToSet(ss[i]) : i \in 1..k}
  <2>1. n \in Nat /\ 1 <= n /\ DOMAIN ss = 1..n /\ \A i \in 1..n : ss[i] \in Seq(S)
    BY <1>2
  <2>2. PICK f \in [1..n -> Seq(S)] :
           /\ f[1] = ss[1]
           /\ \A i \in 2..n : f[i] = f[i - 1] \o ss[i]
           /\ FlattenSeq(ss) = f[n]
    BY <1>2, FlattenDefined
  <2> DEFINE Good == {k \in 1..n : /\ ToSet(f[k]) = Below(k)
                                   /\ OnceEach(ss) => IsInjective(f[k])}
  <2> HIDE DEF n
  <2>3. 1 \in Good
    <3>1. Below(1) = ToSet(ss[1])
      <4>1. 1..1 = {1}
        OBVIOUS
      <4> QED BY <4>1
    <3>2. OnceEach(ss) => IsInjective(ss[1])
      <4>1. 1 \in DOMAIN ss
        BY <2>1
      <4> QED BY <4>1, Zenon DEF OnceEach, IsInjective
    <3>3. 1 \in 1..n
      BY <2>1
    <3> HIDE DEF Below
    <3> QED BY <2>2, <3>1, <3>2, <3>3
  <2>4. ASSUME NEW k \in 2..n, k - 1 \in Good PROVE k \in Good
    <3>1. /\ k \in 1..n /\ k - 1 \in 1..n
          /\ f[k] = f[k - 1] \o ss[k] /\ f[k - 1] \in Seq(S) /\ ss[k] \in Seq(S)
      <4>1. k \in 1..n /\ k - 1 \in 1..n
        BY <2>1
      <4>2. f[k] = f[k - 1] \o ss[k]
        BY <2>2, Zenon
      <4> QED BY <2>1, <4>1, <4>2
    <3>2. Below(k) = Below(k - 1) \cup ToSet(ss[k])
      <4>1. 1..k = (1 .. k - 1) \cup {k}
        BY <2>1
      <4> QED BY <4>1
    <3>3. ToSet(f[k - 1]) = Below(k - 1) /\ (OnceEach(ss) => IsInjective(f[k - 1]))
      BY <2>4
    <3>4. ToSet(f[k]) = Below(k)
      <4> HIDE DEF Below
      <4>1. ToSet(f[k]) = ToSet(f[k - 1]) \cup ToSet(ss[k])
        BY <3>1, ConcatSet
      <4> QED BY <4>1, <3>2, <3>3
    <3>5. ASSUME OnceEach(ss) PROVE IsInjective(f[k])
      <4>1. IsInjective(ss[k])
        BY <2>1, <3>1, <3>5 DEF OnceEach, IsInjective
      <4>2. Below(k - 1) \cap ToSet(ss[k]) = {}
        <5> SUFFICES ASSUME NEW i \in 1 .. k - 1, NEW x \in ToSet(ss[i]), x \in ToSet(ss[k])
                     PROVE  FALSE
          OBVIOUS
        <5>1. i \in DOMAIN ss /\ k \in DOMAIN ss /\ i # k
          BY <2>1
        <5>2. PICK a \in DOMAIN ss[i] : ss[i][a] = x
          BY DEF ToSet
        <5>3. PICK b \in DOMAIN ss[k] : ss[k][b] = x
          BY DEF ToSet
        <5> QED BY <3>5, <5>1, <5>2, <5>3 DEF OnceEach
      <4> HIDE DEF Below
      <4>3. ToSet(f[k - 1]) \cap ToSet(ss[k]) = {} /\ IsInjective(f[k - 1])
        BY <3>3, <3>5, <4>2
      <4> QED BY <3>1, <4>1, <4>3, ConcatSet
    <3> HIDE DEF Below
    <3> QED BY <3>1, <3>4, <3>5
  <2>5. \A k \in 1..n : k \in Good
    <3> HIDE DEF Good
    <3>1. \A k \in 1 + 1 .. n : k - 1 \in Good => k \in Good
      BY <2>4
    <3> QED BY <2>1, <2>3, <3>1, IntervalInduction
  <2>6. n \in 1..n /\ f[n] \in Seq(S)
    BY <2>1, <2>2
  <2>7. AllOf(ss) = Below(n)
    BY <2>1 DEF AllOf
  <2> HIDE DEF Below
  <2>8. ToSet(f[n]) = Below(n) /\ (OnceEach(ss) => IsInjective(f[n]))
    BY <2>5, <2>6
  <2> QED BY <2>2, <2>6, <2>7, <2>8
<1> QED BY <1>1, <1>2

-----------------------------------------------------------------------------
\* The place of an element that has only one.
LEMMA OnlyPlace ==
    ASSUME NEW ss, OnceEach(ss), NEW i, NEW j, NEW k, NEW l, i \in DOMAIN ss, j \in DOMAIN ss,
           k \in DOMAIN ss[i], l \in DOMAIN ss[j], ss[i][k] = ss[j][l]
    PROVE  i = j /\ k = l
  BY Zenon DEF OnceEach

\* Rows put behind other rows.
LEMMA ConcatRows ==
    ASSUME NEW T, NEW rs \in Seq(T), NEW ts \in Seq(T)
    PROVE  /\ rs \o ts \in Seq(T)
           /\ Len(rs \o ts) = Len(rs) + Len(ts)
           /\ AllOf(rs \o ts) = AllOf(rs) \cup AllOf(ts)
           /\ OnceEach(rs) /\ OnceEach(ts) /\ AllOf(rs) \cap AllOf(ts) = {} => OnceEach(rs \o ts)
<1> DEFINE m == Len(rs)
           n == Len(ts)
           u == rs \o ts
<1>2. /\ u \in Seq(T) /\ Len(u) = m + n /\ m \in Nat /\ n \in Nat
      /\ \A k \in 1..m : k \in 1 .. m + n /\ u[k] = rs[k]
      /\ \A k \in 1..n : m + k \in 1 .. m + n /\ u[m + k] = ts[k]
      /\ \A k \in 1 .. m + n : k \in 1..m \/ (k - m \in 1..n /\ u[k] = ts[k - m])
  BY ConcatElements
<1>3. DOMAIN u = 1 .. m + n /\ DOMAIN rs = 1..m /\ DOMAIN ts = 1..n
  BY <1>2
<1> HIDE DEF u, m, n
<1>4. AllOf(u) = AllOf(rs) \cup AllOf(ts)
  <2>1. \A k \in 1 .. m + n : ToSet(u[k]) \subseteq AllOf(rs) \cup AllOf(ts)
    BY <1>2, <1>3, Zenon DEF AllOf
  <2>2. \A k \in 1..m : ToSet(rs[k]) \subseteq AllOf(u)
    BY <1>2, <1>3, Zenon DEF AllOf
  <2>3. \A k \in 1..n : ToSet(ts[k]) \subseteq AllOf(u)
    BY <1>2, <1>3, Zenon DEF AllOf
  <2>4. AllOf(u) \subseteq AllOf(rs) \cup AllOf(ts)
    <3> SUFFICES ASSUME NEW x \in AllOf(u) PROVE x \in AllOf(rs) \cup AllOf(ts)
      OBVIOUS
    <3>1. PICK k \in DOMAIN u : x \in ToSet(u[k])
      BY DEF AllOf
    <3> QED BY <2>1, <3>1, <1>3
  <2>5. AllOf(rs) \subseteq AllOf(u)
    <3> SUFFICES ASSUME NEW x \in AllOf(rs) PROVE x \in AllOf(u)
      OBVIOUS
    <3>1. PICK k \in DOMAIN rs : x \in ToSet(rs[k])
      BY DEF AllOf
    <3> QED BY <2>2, <3>1, <1>3
  <2>6. AllOf(ts) \subseteq AllOf(u)
    <3> SUFFICES ASSUME NEW x \in AllOf(ts) PROVE x \in AllOf(u)
      OBVIOUS
    <3>1. PICK k \in DOMAIN ts : x \in ToSet(ts[k])
      BY DEF AllOf
    <3> QED BY <2>3, <3>1, <1>3
  <2> QED BY <2>4, <2>5, <2>6
<1>5. ASSUME OnceEach(rs), OnceEach(ts), AllOf(rs) \cap AllOf(ts) = {}
      PROVE  OnceEach(u)
  <2> SUFFICES ASSUME NEW i \in 1 .. m + n, NEW j \in 1 .. m + n,
                      NEW k \in DOMAIN u[i], NEW l \in DOMAIN u[j], u[i][k] = u[j][l]
               PROVE  i = j /\ k = l
    BY <1>3 DEF OnceEach
  <2>1. \A r \in DOMAIN rs, t \in DOMAIN ts : \A a \in DOMAIN rs[r], b \in DOMAIN ts[t] :
            rs[r][a] # ts[t][b]
    <3> SUFFICES ASSUME NEW r \in DOMAIN rs, NEW t \in DOMAIN ts,
                        NEW a \in DOMAIN rs[r], NEW b \in DOMAIN ts[t], rs[r][a] = ts[t][b]
                 PROVE  FALSE
      OBVIOUS
    <3>1. rs[r][a] \in ToSet(rs[r]) /\ ts[t][b] \in ToSet(ts[t])
      BY DEF ToSet
    <3>2. rs[r][a] \in AllOf(rs) /\ ts[t][b] \in AllOf(ts)
      BY <3>1, Zenon DEF AllOf
    <3> QED BY <3>2, <1>5
  <2>2. CASE i \in 1..m /\ j \in 1..m
    <3>1. i \in DOMAIN rs /\ j \in DOMAIN rs /\ u[i] = rs[i] /\ u[j] = rs[j]
      BY <2>2, <1>2, <1>3
    <3>2. k \in DOMAIN rs[i] /\ l \in DOMAIN rs[j] /\ rs[i][k] = rs[j][l]
      BY <3>1
    <3> QED BY ONLY <3>1, <3>2, <1>5, OnlyPlace
  <2>3. CASE i \in 1..m /\ j \notin 1..m
    <3>1. i \in DOMAIN rs /\ j - m \in DOMAIN ts /\ u[i] = rs[i] /\ u[j] = ts[j - m]
      BY <2>3, <1>2, <1>3
    <3>2. k \in DOMAIN rs[i] /\ l \in DOMAIN ts[j - m] /\ rs[i][k] = ts[j - m][l]
      BY <3>1
    <3> QED BY <2>1, <3>1, <3>2, Zenon
  <2>4. CASE i \notin 1..m /\ j \in 1..m
    <3>1. j \in DOMAIN rs /\ i - m \in DOMAIN ts /\ u[j] = rs[j] /\ u[i] = ts[i - m]
      BY <2>4, <1>2, <1>3
    <3>2. l \in DOMAIN rs[j] /\ k \in DOMAIN ts[i - m] /\ rs[j][l] = ts[i - m][k]
      BY <3>1
    <3> QED BY <2>1, <3>1, <3>2, Zenon
  <2>5. CASE i \notin 1..m /\ j \notin 1..m
    <3>1. /\ i - m \in DOMAIN ts /\ j - m \in DOMAIN ts
          /\ u[i] = ts[i - m] /\ u[j] = ts[j - m]
      BY <2>5, <1>2, <1>3
    <3>2. k \in DOMAIN ts[i - m] /\ l \in DOMAIN ts[j - m] /\ ts[i - m][k] = ts[j - m][l]
      BY <3>1
    <3>3. i - m = j - m /\ k = l
      BY ONLY <3>1, <3>2, <1>5, OnlyPlace
    <3> QED BY <3>3, <1>2
  <2> QED BY <2>2, <2>3, <2>4, <2>5
<1> QED BY <1>2, <1>4, <1>5 DEF u, m, n

\* The same for rows that have nothing in common with the others.
LEMMA AddRows ==
    ASSUME NEW T, NEW rs, NEW ts, NEW all,
           rs \in Seq(T), ts \in Seq(T), all = rs \o ts,
           OnceEach(rs), OnceEach(ts), AllOf(rs) \cap AllOf(ts) = {}
    PROVE  /\ all \in Seq(T) /\ Len(all) = Len(rs) + Len(ts)
           /\ OnceEach(all)
           /\ \A x : x \in AllOf(all) <=> x \in AllOf(rs) \/ x \in AllOf(ts)
<1>1. AllOf(rs \o ts) = AllOf(rs) \cup AllOf(ts)
  BY ConcatRows
<1>2. \A x : x \in AllOf(all) <=> x \in AllOf(rs) \/ x \in AllOf(ts)
  BY <1>1
<1> QED BY <1>2, ConcatRows

\* One row.
LEMMA SingleRow ==
    ASSUME NEW S, NEW s \in Seq(S)
    PROVE  /\ <<s>> \in Seq(Seq(S)) /\ Len(<<s>>) = 1
           /\ AllOf(<<s>>) = ToSet(s)
           /\ IsInjective(s) => OnceEach(<<s>>)
<1> DEFINE rs == <<s>>
<1>1. rs \in Seq(Seq(S)) /\ Len(rs) = 1 /\ DOMAIN rs = {1} /\ rs[1] = s
  OBVIOUS
<1> HIDE DEF rs
<1>2. AllOf(rs) = ToSet(s)
  BY <1>1 DEF AllOf
<1>3. IsInjective(s) => OnceEach(rs)
  BY <1>1, Zenon DEF OnceEach, IsInjective
<1> QED BY <1>1, <1>2, <1>3 DEF rs

\* Every element in a row of its own.
LEMMA RowsOfOne ==
    ASSUME NEW S, NEW s \in Seq(S)
    PROVE  LET rs == [k \in DOMAIN s |-> <<s[k]>>]
           IN  /\ rs \in Seq(Seq(S)) /\ Len(rs) = Len(s)
               /\ AllOf(rs) = ToSet(s)
               /\ IsInjective(s) => OnceEach(rs)
<1> DEFINE rs == [k \in DOMAIN s |-> <<s[k]>>]
<1>1. DOMAIN s = 1..Len(s) /\ Len(s) \in Nat /\ \A k \in DOMAIN s : <<s[k]>> \in Seq(S)
  OBVIOUS
<1>2. DOMAIN rs = DOMAIN s /\ \A k \in DOMAIN s : DOMAIN rs[k] = {1} /\ rs[k][1] = s[k]
  OBVIOUS
<1>3. rs \in Seq(Seq(S)) /\ Len(rs) = Len(s)
  <2> DEFINE T == Seq(S)
             n == Len(s)
  <2>1. rs \in [1..n -> T] /\ n \in Nat
    BY <1>1
  <2> HIDE DEF T, n, rs
  <2>2. rs \in Seq(T) /\ Len(rs) = n
    BY <2>1
  <2> QED BY <2>2 DEF T, n
<1> HIDE DEF rs
<1>4. \A k \in DOMAIN s : ToSet(rs[k]) = {s[k]}
  BY <1>2 DEF ToSet
<1>5. AllOf(rs) = ToSet(s)
  BY <1>2, <1>4 DEF AllOf, ToSet
<1>6. IsInjective(s) => OnceEach(rs)
  BY <1>2 DEF OnceEach, IsInjective
<1> QED BY <1>3, <1>5, <1>6 DEF rs

\* A part of a sequence.
LEMMA SubSeqFacts ==
    ASSUME NEW S, NEW s, NEW m, NEW n,
           s \in Seq(S), m \in 1 .. Len(s) + 1, n \in 0..Len(s), m <= n + 1
    PROVE  /\ SubSeq(s, m, n) \in Seq(S)
           /\ Len(SubSeq(s, m, n)) = n - m + 1
           /\ \A i \in 1 .. n - m + 1 : SubSeq(s, m, n)[i] = s[m + i - 1]
  OBVIOUS

\* The rows without one of them.
LEMMA RemoveRow ==
    ASSUME NEW S, NEW rs \in Seq(Seq(S)), NEW k \in DOMAIN rs, OnceEach(rs)
    PROVE  /\ RemoveAt(rs, k) \in Seq(Seq(S)) /\ Len(RemoveAt(rs, k)) = Len(rs) - 1
           /\ AllOf(RemoveAt(rs, k)) = AllOf(rs) \ ToSet(rs[k])
           /\ OnceEach(RemoveAt(rs, k))
<1> DEFINE T == Seq(S)
           n == Len(rs)
           u == RemoveAt(rs, k)
           back(i) == IF i < k THEN i ELSE i + 1
<1>1. rs \in Seq(T) /\ n \in Nat /\ DOMAIN rs = 1..n /\ k \in 1..n
  OBVIOUS
<1> HIDE DEF T
<1>2. u \in Seq(T) /\ Len(u) = n - 1 /\ \A i \in 1 .. n - 1 : u[i] = rs[back(i)]
  <2> DEFINE a == SubSeq(rs, 1, k - 1)
             b == SubSeq(rs, k + 1, n)
  <2>1. /\ a \in Seq(T) /\ Len(a) = k - 1 /\ \A i \in 1 .. k - 1 : a[i] = rs[i]
        /\ b \in Seq(T) /\ Len(b) = n - k /\ \A i \in 1 .. n - k : b[i] = rs[k + i]
    <3>1. /\ 1 \in 1 .. n + 1 /\ k - 1 \in 0..n /\ 1 <= (k - 1) + 1 /\ (k - 1) - 1 + 1 = k - 1
          /\ \A i \in 1 .. k - 1 : 1 + i - 1 = i
      BY <1>1
    <3>2. /\ k + 1 \in 1 .. n + 1 /\ n \in 0..n /\ k + 1 <= n + 1 /\ n - (k + 1) + 1 = n - k
          /\ \A i \in 1 .. n - k : (k + 1) + i - 1 = k + i
      <4> HIDE DEF n
      <4>1. k \in Nat /\ n \in Nat /\ 1 <= k /\ k <= n
        BY <1>1
      <4>2. k + 1 \in 1 .. n + 1 /\ n \in 0..n /\ k + 1 <= n + 1
        BY ONLY <4>1
      <4>3. n - (k + 1) + 1 = n - k
        BY ONLY <4>1
      <4>4. \A i \in 1 .. n - k : (k + 1) + i - 1 = k + i
        BY ONLY <4>1
      <4> QED BY ONLY <4>2, <4>3, <4>4
    <3>3. a \in Seq(T) /\ Len(a) = k - 1 /\ \A i \in 1 .. k - 1 : a[i] = rs[i]
      BY <1>1, <3>1, SubSeqFacts
    <3>4. b \in Seq(T) /\ Len(b) = n - k /\ \A i \in 1 .. n - k : b[i] = rs[k + i]
      <4>1. /\ b \in Seq(T) /\ Len(b) = n - (k + 1) + 1
            /\ \A i \in 1 .. n - (k + 1) + 1 : b[i] = rs[(k + 1) + i - 1]
        <5> DEFINE next == k + 1
        <5>1. next \in 1 .. Len(rs) + 1 /\ n \in 0..Len(rs) /\ next <= n + 1
          BY ONLY <3>2
        <5> HIDE DEF next, n
        <5>2. rs \in Seq(T)
          BY <1>1
        <5>3. SubSeq(rs, next, n) \in Seq(T)
          BY ONLY <5>1, <5>2
        <5>4. Len(SubSeq(rs, next, n)) = n - next + 1
          BY ONLY <5>1, <5>2
        <5>5. \A i \in 1 .. n - next + 1 : SubSeq(rs, next, n)[i] = rs[next + i - 1]
          BY ONLY <5>1, <5>2
        <5> QED BY ONLY <5>3, <5>4, <5>5 DEF next
      <4> HIDE DEF b, n
      <4> QED BY ONLY <3>2, <4>1
    <3> QED BY <3>3, <3>4
  <2>2. u = a \o b
    BY DEF RemoveAt
  <2> HIDE DEF a, b, u, n
  <2>3. /\ u \in Seq(T) /\ Len(u) = (k - 1) + (n - k)
        /\ \A i \in 1 .. (k - 1) + (n - k) : u[i] = IF i <= k - 1 THEN a[i] ELSE b[i - (k - 1)]
    <3>1. /\ a \o b \in Seq(T) /\ Len(a \o b) = Len(a) + Len(b)
          /\ \A i \in 1 .. Len(a) + Len(b) :
                (a \o b)[i] = IF i <= Len(a) THEN a[i] ELSE b[i - Len(a)]
      BY <2>1, ConcatElements
    <3>2. Len(a) = k - 1 /\ Len(b) = n - k
      BY <2>1
    <3> QED BY ONLY <2>2, <3>1, <3>2
  <2>4. ASSUME NEW i \in 1 .. n - 1 PROVE u[i] = rs[back(i)]
    <3>1. i \in 1 .. (k - 1) + (n - k)
      BY <1>1
    <3>2. CASE i < k
      <4>1. i <= k - 1 /\ i \in 1 .. k - 1
        BY <1>1, <3>2
      <4> QED BY <2>1, <2>3, <3>1, <3>2, <4>1
    <3>3. CASE ~ (i < k)
      <4>1. ~ (i <= k - 1) /\ i - (k - 1) \in 1 .. n - k /\ k + (i - (k - 1)) = i + 1
        BY <1>1, <3>3
      <4>2. u[i] = b[i - (k - 1)] /\ b[i - (k - 1)] = rs[k + (i - (k - 1))]
        BY <2>1, <2>3, <3>1, <4>1
      <4> QED BY <3>3, <4>1, <4>2
    <3> QED BY <3>2, <3>3
  <2> QED BY <1>1, <2>3, <2>4
<1>3. DOMAIN u = 1 .. n - 1
  BY <1>1, <1>2
<1> HIDE DEF u, n
<1>4. \A i \in 1 .. n - 1 : back(i) \in 1..n /\ back(i) # k
  BY <1>1
<1>5. \A i, j \in 1 .. n - 1 : back(i) = back(j) => i = j
  BY <1>1
<1>6. \A r \in 1..n : r # k => \E i \in 1 .. n - 1 : back(i) = r
  <2> SUFFICES ASSUME NEW r \in 1..n, r # k PROVE \E i \in 1 .. n - 1 : back(i) = r
    OBVIOUS
  <2>1. CASE r < k
    <3>1. r \in 1 .. n - 1 /\ back(r) = r
      BY <1>1, <2>1
    <3> QED BY <3>1
  <2>2. CASE r > k
    <3>1. r - 1 \in 1 .. n - 1 /\ back(r - 1) = r
      BY <1>1, <2>2
    <3> QED BY <3>1
  <2> QED BY <1>1, <2>1, <2>2
<1> HIDE DEF back
<1>7. OnceEach(u)
  <2> SUFFICES ASSUME NEW i \in 1 .. n - 1, NEW j \in 1 .. n - 1,
                      NEW a \in DOMAIN u[i], NEW b \in DOMAIN u[j], u[i][a] = u[j][b]
               PROVE  i = j /\ a = b
    BY <1>3, Zenon DEF OnceEach
  <2>1. u[i] = rs[back(i)] /\ u[j] = rs[back(j)] /\ back(i) \in DOMAIN rs /\ back(j) \in DOMAIN rs
    BY <1>1, <1>2, <1>4
  <2>2. /\ a \in DOMAIN rs[back(i)] /\ b \in DOMAIN rs[back(j)]
        /\ rs[back(i)][a] = rs[back(j)][b] /\ OnceEach(rs)
    BY <2>1
  <2>3. back(i) = back(j) /\ a = b
    BY ONLY <2>1, <2>2, OnlyPlace
  <2> QED BY <1>5, <2>3
<1>8. \A i \in DOMAIN rs : i # k => ToSet(rs[i]) \cap ToSet(rs[k]) = {}
  <2> SUFFICES ASSUME NEW i \in DOMAIN rs, NEW x, x \in ToSet(rs[i]), x \in ToSet(rs[k])
               PROVE  i = k
    OBVIOUS
  <2>1. PICK a \in DOMAIN rs[i] : rs[i][a] = x
    BY DEF ToSet
  <2>2. PICK b \in DOMAIN rs[k] : rs[k][b] = x
    BY DEF ToSet
  <2>3. k \in DOMAIN rs /\ OnceEach(rs) /\ rs[i][a] = rs[k][b]
    BY <2>1, <2>2
  <2> QED BY ONLY <2>1, <2>2, <2>3, OnlyPlace, i \in DOMAIN rs
<1>9. AllOf(u) \subseteq AllOf(rs) \ ToSet(rs[k])
  <2> SUFFICES ASSUME NEW i \in DOMAIN u, NEW x \in ToSet(u[i])
               PROVE  x \in AllOf(rs) /\ x \notin ToSet(rs[k])
    BY DEF AllOf
  <2>1. u[i] = rs[back(i)] /\ back(i) \in DOMAIN rs /\ back(i) # k
    BY <1>1, <1>2, <1>3, <1>4
  <2>2. x \in ToSet(rs[back(i)])
    BY <2>1
  <2>3. x \in AllOf(rs)
    BY <2>1, <2>2, Zenon DEF AllOf
  <2> QED BY <1>8, <2>1, <2>2, <2>3
<1>10. AllOf(rs) \ ToSet(rs[k]) \subseteq AllOf(u)
  <2> SUFFICES ASSUME NEW r \in DOMAIN rs, NEW x \in ToSet(rs[r]), x \notin ToSet(rs[k])
               PROVE  x \in AllOf(u)
    BY DEF AllOf
  <2>1. r # k
    OBVIOUS
  <2>2. PICK i \in 1 .. n - 1 : back(i) = r
    BY <1>1, <1>6, <2>1
  <2>3. i \in DOMAIN u /\ x \in ToSet(u[i])
    BY <1>2, <1>3, <2>2
  <2> QED BY <2>3, Zenon DEF AllOf
<1> QED BY <1>2, <1>7, <1>9, <1>10 DEF u, n, T

\* The first elements of a sequence.
LEMMA PrefixFacts ==
    ASSUME NEW S, NEW s \in Seq(S), NEW n \in 0..Len(s), IsInjective(s)
    PROVE  /\ SubSeq(s, 1, n) \in Seq(S) /\ Len(SubSeq(s, 1, n)) = n
           /\ ToSet(SubSeq(s, 1, n)) = {s[k] : k \in 1..n}
           /\ IsInjective(SubSeq(s, 1, n))
           /\ ToSet(s) = {s[k] : k \in 1..n} \cup {s[k] : k \in n + 1 .. Len(s)}
           /\ {s[k] : k \in 1..n} \cap {s[k] : k \in n + 1 .. Len(s)} = {}
<1> DEFINE t == SubSeq(s, 1, n)
<1>1. t \in Seq(S) /\ Len(t) = n /\ DOMAIN t = 1..n /\ \A k \in 1..n : t[k] = s[k]
  OBVIOUS
<1>2. DOMAIN s = (1..n) \cup (n + 1 .. Len(s)) /\ (1..n) \cap (n + 1 .. Len(s)) = {}
  <2>1. DOMAIN s = 1..Len(s) /\ Len(s) \in Nat
    OBVIOUS
  <2>2. 1..Len(s) = (1..n) \cup (n + 1 .. Len(s))
    BY <2>1
  <2> QED BY <2>1, <2>2
<1> HIDE DEF t
<1>3. ToSet(t) = {s[k] : k \in 1..n}
  BY <1>1 DEF ToSet
<1>4. IsInjective(t)
  BY <1>1, <1>2 DEF IsInjective
<1>5. ToSet(s) = {s[k] : k \in 1..n} \cup {s[k] : k \in n + 1 .. Len(s)}
  BY <1>2 DEF ToSet
<1>6. {s[k] : k \in 1..n} \cap {s[k] : k \in n + 1 .. Len(s)} = {}
  BY <1>2 DEF IsInjective
<1> QED BY <1>1, <1>3, <1>4, <1>5, <1>6 DEF t

\* The elements of a set in some order.
LEMMA SetToSeqFacts ==
    ASSUME NEW S, IsFiniteSet(S)
    PROVE  SetToSeq(S) \in Seq(S) /\ Len(SetToSeq(S)) = Cardinality(S)
<1> DEFINE n == Cardinality(S)
<1>1. n \in Nat /\ ExistsBijection(1..n, S)
  BY FS_CardinalityType
<1> HIDE DEF n
<1>2. \E f \in [1..n -> S] : IsInjective(f)
  BY <1>1 DEF ExistsBijection, Bijection, Injection
<1>3. SetToSeq(S) \in [1..n -> S]
  BY <1>2 DEF SetToSeq, n
<1> DEFINE s == SetToSeq(S)
<1> HIDE DEF s
<1>4. s \in [1..n -> S]
  BY <1>3 DEF s
<1>5. s \in Seq(S) /\ Len(s) = n
  BY <1>1, <1>4
<1> QED BY <1>5 DEF s, n

\* How often an element is in a sequence without repetition.
LEMMA CountOnce ==
    ASSUME NEW S, NEW s \in Seq(S), IsInjective(s), NEW x
    PROVE  Cardinality({k \in DOMAIN s : s[k] = x}) = IF x \in ToSet(s) THEN 1 ELSE 0
<1> DEFINE at == {k \in DOMAIN s : s[k] = x}
<1>1. CASE x \in ToSet(s)
  <2>1. PICK k \in DOMAIN s : s[k] = x
    BY <1>1 DEF ToSet
  <2>2. at = {k}
    BY <2>1 DEF IsInjective
  <2> HIDE DEF at
  <2>3. Cardinality(at) = 1
    BY <2>2, FS_Singleton
  <2> QED BY <1>1, <2>3 DEF at
<1>2. CASE x \notin ToSet(s)
  <2>1. at = {}
    BY <1>2 DEF ToSet
  <2> HIDE DEF at
  <2>2. Cardinality(at) = 0
    BY <2>1, FS_EmptySet
  <2> QED BY <1>2, <2>2 DEF at
<1> QED BY <1>1, <1>2

=============================================================================
