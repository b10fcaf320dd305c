-------------------------------- MODULE Lemmas --------------------------------
(***************************************************************************)
(* Facts about numbers, functions and lists that the proofs of several     *)
(* components use: induction over the numbers, in the form of a set that   *)
(* holds 0 and every successor; that a function defined by recursion       *)
(* exists; what RemoveAt leaves of a list; and what InOrder and FlattenSeq *)
(* make of a set of places.                                                *)
(***************************************************************************)
EXTENDS Integers, SequencesExt, Ordered, SequenceTheorems, FiniteSetTheorems,
        WellFoundedInduction, TLAPS

\* A set of numbers that holds 0 and the successor of each that it holds, holds all.
LEMMA Least ==
  ASSUME NEW T \in SUBSET Nat, T # {}
  PROVE  \E n \in T : \A m \in T : n <= m
<1> DEFINE R == OpToRel(<, Nat)
<1>1. IsWellFoundedOn(R, Nat)
  BY NatLessThanWellFounded
<1>2. \E x \in T : \A y \in T : ~ (<<y, x>> \in R)
  BY <1>1, WFMin
<1>3. \A x, y \in Nat : x < y => <<x, y>> \in R
  BY DEF OpToRel
<1> HIDE DEF R
<1>4. PICK x \in T : \A y \in T : ~ (<<y, x>> \in R)
  BY <1>2
<1>5. \A y \in T : ~(y < x)
  BY <1>3, <1>4
<1> QED BY <1>5

LEMMA Induction ==
  ASSUME NEW T, 0 \in T, \A n \in Nat : n \in T => n + 1 \in T
  PROVE  Nat \subseteq T
<1> DEFINE Out == {n \in Nat : n \notin T}
<1>1. SUFFICES ASSUME Out # {} PROVE FALSE
  OBVIOUS
<1>2. PICK n \in Out : \A m \in Out : n <= m
  BY <1>1, Least
<1>3. n # 0 /\ n - 1 \in Nat
  OBVIOUS
<1>4. n - 1 \in T
  BY <1>2, <1>3
<1> QED BY <1>3, <1>4

\* The same up to a bound.
LEMMA InductionTo ==
  ASSUME NEW T, NEW n \in Nat, 0 \in T, \A i \in 1..n : i - 1 \in T => i \in T
  PROVE  0..n \subseteq T
<1> DEFINE U == {i \in Nat : i <= n => i \in T}
<1>1. 0 \in U
  OBVIOUS
<1>2. ASSUME NEW i \in Nat, i \in U PROVE i + 1 \in U
  <2> SUFFICES ASSUME i + 1 <= n PROVE i + 1 \in T
    OBVIOUS
  <2>1. i \in T /\ i + 1 \in 1..n /\ (i + 1) - 1 = i
    BY <1>2
  <2> QED BY <2>1
<1> HIDE DEF U
<1>3. Nat \subseteq U
  BY <1>1, <1>2, Induction
<1> QED BY <1>3 DEF U

\* Of finitely many numbers one is the greatest.
LEMMA Greatest ==
  ASSUME NEW n \in Nat, n # 0, NEW v \in [1..n -> Nat]
  PROVE  \E j \in 1..n : \A i \in 1..n : v[i] <= v[j]
<1> DEFINE T == {k \in 0..n : k # 0 => \E j \in 1..k : \A i \in 1..k : v[i] <= v[j]}
<1>1. 0 \in T
  OBVIOUS
<1>2. ASSUME NEW k \in 1..n, k - 1 \in T PROVE k \in T
  <2> SUFFICES \E j \in 1..k : \A i \in 1..k : v[i] <= v[j]
    OBVIOUS
  <2>1. CASE k = 1
    BY <2>1
  <2>2. CASE k # 1
    <3>1. PICK j \in 1..(k - 1) : \A i \in 1..(k - 1) : v[i] <= v[j]
      BY <1>2, <2>2
    <3>2. CASE v[k] <= v[j]
      <4>1. \A i \in 1..k : v[i] <= v[j]
        BY <3>1, <3>2
      <4> QED BY <4>1
    <3>3. CASE v[j] < v[k]
      <4>1. \A i \in 1..k : v[i] <= v[k]
        BY <3>1, <3>3
      <4> QED BY <4>1
    <3>4. v[k] \in Nat /\ v[j] \in Nat
      OBVIOUS
    <3> QED BY <3>2, <3>3, <3>4
  <2> QED BY <2>1, <2>2
<1> HIDE DEF T
<1>3. 0..n \subseteq T
  BY <1>1, <1>2, InductionTo
<1>4. n \in T
  BY <1>3
<1> QED BY <1>4 DEF T

\* A function defined by recursion on 0..n, from a, by g: there is one.
Follows(f, a, g, n) == f[0] = a /\ \A i \in 1..n : f[i] = g[<<i, f[i - 1]>>]

LEMMA Recursion ==
  ASSUME NEW S, NEW a \in S, NEW n \in Nat, NEW g \in [(1..n) \X S -> S]
  PROVE  \E f \in [0..n -> S] : Follows(f, a, g, n)
<1> DEFINE T == {k \in 0..n : \E f \in [0..k -> S] : Follows(f, a, g, k)}
<1>0. \A i \in 1..n, x \in S : g[<<i, x>>] \in S
  OBVIOUS
<1>1. 0 \in T
  <2> DEFINE f == [i \in 0..0 |-> a]
  <2>1. f \in [0..0 -> S] /\ Follows(f, a, g, 0)
    BY DEF Follows
  <2> HIDE DEF f
  <2> QED BY <2>1
<1>2. ASSUME NEW k \in 1..n, k - 1 \in T PROVE k \in T
  <2>1. PICK f \in [0..(k - 1) -> S] : Follows(f, a, g, k - 1)
    BY <1>2
  <2> DEFINE h == [i \in 0..k |-> IF i = k THEN g[<<k, f[k - 1]>>] ELSE f[i]]
  <2>2. k - 1 \in 0..(k - 1) /\ f[k - 1] \in S
    OBVIOUS
  <2>3. h \in [0..k -> S]
    BY <1>0, <2>2
  <2>4. h[0] = a
    BY <2>1 DEF Follows
  <2>5. ASSUME NEW i \in 1..k PROVE h[i] = g[<<i, h[i - 1]>>]
    <3>1. CASE i = k
      <4>1. h[k] = g[<<k, f[k - 1]>>] /\ h[k - 1] = f[k - 1]
        BY <2>2
      <4> QED BY <3>1, <4>1
    <3>2. CASE i # k
      <4>1. i \in 1..(k - 1) /\ h[i] = f[i] /\ h[i - 1] = f[i - 1]
        BY <3>2
      <4> HIDE DEF h
      <4> QED BY <2>1, <4>1 DEF Follows
    <3> QED BY <3>1, <3>2
  <2>6. Follows(h, a, g, k)
    BY <2>4, <2>5 DEF Follows
  <2> HIDE DEF h
  <2> QED BY <2>3, <2>6
<1> HIDE DEF T
<1>3. n \in T
  BY <1>1, <1>2, InductionTo
<1> QED BY <1>3 DEF T

\* What RemoveAt leaves: every element but one, the later ones moved up by one.
LEMMA RemoveAtProperties ==
  ASSUME NEW S, NEW s \in Seq(S), NEW i \in 1..Len(s)
  PROVE  /\ RemoveAt(s, i) \in Seq(S)
         /\ Len(RemoveAt(s, i)) = Len(s) - 1
         /\ \A j \in 1..(Len(s) - 1) :
              RemoveAt(s, i)[j] = IF j < i THEN s[j] ELSE s[j + 1]
<1> DEFINE left == SubSeq(s, 1, i - 1)
           right == SubSeq(s, i + 1, Len(s))
<1>1. /\ left \in Seq(S) /\ Len(left) = i - 1
      /\ \A j \in 1..(i - 1) : left[j] = s[j]
  BY SubSeqProperties
<1>2. /\ right \in Seq(S) /\ Len(right) = Len(s) - i
      /\ \A j \in 1..(Len(s) - i) : right[j] = s[i + j]
  BY SubSeqProperties
<1>3. /\ left \o right \in Seq(S) /\ Len(left \o right) = Len(s) - 1
      /\ \A j \in 1..(Len(s) - 1) :
           (left \o right)[j] = IF j < i THEN left[j] ELSE right[j - (i - 1)]
  <2> HIDE DEF left, right
  <2>1. /\ left \o right \in Seq(S)
        /\ Len(left \o right) = Len(left) + Len(right)
        /\ \A j \in 1..(Len(left) + Len(right)) :
             (left \o right)[j] = IF j <= Len(left) THEN left[j] ELSE right[j - Len(left)]
    BY <1>1, <1>2, ConcatProperties
  <2>2. Len(left) + Len(right) = Len(s) - 1
    BY <1>1, <1>2
  <2> QED BY <1>1, <2>1, <2>2
<1>4. \A j \in 1..(Len(s) - 1) :
        (left \o right)[j] = IF j < i THEN s[j] ELSE s[j + 1]
  <2> HIDE DEF left, right
  <2> QED BY <1>1, <1>2, <1>3
<1> QED BY <1>3, <1>4 DEF RemoveAt

\* The elements of a list after Append, and after RemoveAt: at most the one removed is lost.
LEMMA AppendElements ==
  ASSUME NEW S, NEW s \in Seq(S), NEW x \in S
  PROVE  ToSet(Append(s, x)) = ToSet(s) \cup {x}
<1>1. \A j \in 1..Len(s) : Append(s, x)[j] = s[j]
  OBVIOUS
<1>2. Append(s, x)[Len(s) + 1] = x /\ DOMAIN Append(s, x) = 1..(Len(s) + 1)
  OBVIOUS
<1> QED BY <1>1, <1>2 DEF ToSet

LEMMA RemoveAtElements ==
  ASSUME NEW S, NEW s \in Seq(S), NEW i \in DOMAIN s
  PROVE  /\ ToSet(RemoveAt(s, i)) \subseteq ToSet(s)
         /\ ToSet(s) \subseteq ToSet(RemoveAt(s, i)) \cup {s[i]}
<1> DEFINE t == RemoveAt(s, i)
<1>0. i \in 1..Len(s)
  OBVIOUS
<1>1. /\ t \in Seq(S) /\ Len(t) = Len(s) - 1
      /\ \A j \in 1..(Len(s) - 1) : t[j] = IF j < i THEN s[j] ELSE s[j + 1]
  BY <1>0, RemoveAtProperties
<1> HIDE DEF t
<1>2. \A j \in DOMAIN t : t[j] \in ToSet(s)
  BY <1>1 DEF ToSet
<1>3. ASSUME NEW j \in DOMAIN s, j # i PROVE s[j] \in ToSet(t)
  <2>1. CASE j < i
    <3>1. j \in DOMAIN t /\ t[j] = s[j]
      BY <1>1, <2>1
    <3> QED BY <3>1 DEF ToSet
  <2>2. CASE j > i
    <3>1. j - 1 \in DOMAIN t /\ t[j - 1] = s[j]
      BY <1>1, <2>2
    <3> QED BY <3>1 DEF ToSet
  <2> QED BY <1>3, <2>1, <2>2
<1>4. ToSet(t) \subseteq ToSet(s)
  BY <1>2 DEF ToSet
<1>5. ToSet(s) \subseteq ToSet(t) \cup {s[i]}
  BY <1>3 DEF ToSet
<1> QED BY <1>4, <1>5 DEF t

---------------------------------------------------------------------------
\* A list of the members of a set of numbers, in ascending order.
Lists(g, S, n) ==
  /\ g \in [1..n -> S]
  /\ \A a, b \in 1..n : a < b => g[a] < g[b]
  /\ \A i \in S : \E a \in 1..n : g[a] = i

\* There is one such list, and InOrder is it.
LEMMA InOrderLists ==
  ASSUME NEW S \in SUBSET Nat, IsFiniteSet(S)
  PROVE  /\ Cardinality(S) \in Nat /\ Lists(InOrder(S), S, Cardinality(S))
         /\ \A n \in 1..Cardinality(S) : Cardinality({j \in S : j < InOrder(S)[n]}) = n - 1
<1> DEFINE below(i) == {j \in S : j < i}
           N == Cardinality(S)
           c == [i \in S |-> Cardinality(below(i)) + 1]
<1>1. N \in Nat
  BY FS_CardinalityType
<1>2. \A i \in S : /\ IsFiniteSet(below(i)) /\ Cardinality(below(i)) \in Nat
                   /\ below(i) \subseteq S /\ i \notin below(i)
  <2> SUFFICES ASSUME NEW i \in S
               PROVE  /\ IsFiniteSet(below(i)) /\ Cardinality(below(i)) \in Nat
                      /\ below(i) \subseteq S /\ i \notin below(i)
    OBVIOUS
  <2>1. below(i) \subseteq S /\ i \notin below(i)
    OBVIOUS
  <2> HIDE DEF below
  <2> QED BY <2>1, FS_Subset, FS_CardinalityType
<1>3. ASSUME NEW i \in S, NEW k \in S, i < k
      PROVE  Cardinality(below(i)) < Cardinality(below(k))
  <2>0. i \in below(k) /\ i \notin below(i) /\ i \in Nat /\ k \in Nat
    BY <1>3
  <2>1. below(i) \subseteq below(k) /\ below(i) # below(k)
    <3>1. \A j \in Nat : j < i => j < k
      BY <1>3, <2>0
    <3> QED BY <2>0, <3>1
  <2>2. IsFiniteSet(below(k)) /\ Cardinality(below(k)) \in Nat /\ Cardinality(below(i)) \in Nat
    BY <1>2
  <2> HIDE DEF below
  <2>3. /\ Cardinality(below(i)) <= Cardinality(below(k))
        /\ Cardinality(below(i)) = Cardinality(below(k)) => below(i) = below(k)
    BY <2>1, <2>2, FS_Subset
  <2> QED BY <2>1, <2>2, <2>3
<1>4. \A i \in S : Cardinality(below(i)) < N
  <2> SUFFICES ASSUME NEW i \in S PROVE Cardinality(below(i)) < N
    OBVIOUS
  <2>1. below(i) \subseteq S /\ below(i) # S /\ Cardinality(below(i)) \in Nat
    BY <1>2
  <2> HIDE DEF below
  <2>2. /\ Cardinality(below(i)) <= N
        /\ Cardinality(below(i)) = N => below(i) = S
    BY <2>1, FS_Subset
  <2> QED BY <1>1, <2>1, <2>2
<1> HIDE DEF N
<1>5. c \in [S -> 1..N]
  <2>1. \A i \in S : Cardinality(below(i)) + 1 \in 1..N
    <3> HIDE DEF below
    <3> QED BY <1>1, <1>2, <1>4
  <2> HIDE DEF below
  <2> QED BY <2>1
<1>6. \A i, k \in S : Cardinality(below(i)) = Cardinality(below(k)) => i = k
  <2> SUFFICES ASSUME NEW i \in S, NEW k \in S, i # k
               PROVE  Cardinality(below(i)) # Cardinality(below(k))
    OBVIOUS
  <2>1. i < k \/ k < i
    OBVIOUS
  <2>2. Cardinality(below(i)) \in Nat /\ Cardinality(below(k)) \in Nat
    BY <1>2
  <2> HIDE DEF below
  <2> QED BY <1>3, <2>1, <2>2
<1>7. c \in Injection(S, 1..N)
  <2>1. \A i, k \in S : c[i] = c[k] => i = k
    <3>1. \A i \in S : c[i] - 1 = Cardinality(below(i))
      <4>1. \A i \in S : c[i] = Cardinality(below(i)) + 1 /\ Cardinality(below(i)) \in Nat
        BY <1>2
      <4> HIDE DEF c, below
      <4> QED BY <4>1
    <3> HIDE DEF c, below
    <3> QED BY <1>6, <3>1
  <2> HIDE DEF c
  <2> QED BY <1>5, <2>1 DEF Injection, IsInjective
<1>8. c \in Surjection(S, 1..N)
  <2>1. IsFiniteSet(1..N) /\ Cardinality(1..N) = N
    BY <1>1, FS_Interval
  <2>2. Cardinality(S) = Cardinality(1..N)
    BY <2>1 DEF N
  <2> HIDE DEF c
  <2> QED BY <1>7, <2>1, <2>2, FS_Injection
<1>9. \A n \in 1..N : \E i \in S : Cardinality(below(i)) = n - 1
  <2> SUFFICES ASSUME NEW n \in 1..N
               PROVE  \E i \in S : Cardinality(below(i)) = n - 1
    OBVIOUS
  <2>1. PICK i \in S : c[i] = n
    <3> HIDE DEF c
    <3> QED BY <1>8 DEF Surjection
  <2>2. Cardinality(below(i)) + 1 = n /\ Cardinality(below(i)) \in Nat
    BY <1>2, <2>1
  <2> HIDE DEF below
  <2> QED BY <2>2
<1>10. InOrder(S) = [n \in 1..N |-> CHOOSE i \in S : Cardinality(below(i)) = n - 1]
  BY DEF InOrder, N
<1> DEFINE o == InOrder(S)
<1> HIDE DEF c, below
<1>11. /\ DOMAIN o = 1..N /\ o = [n \in 1..N |-> o[n]]
       /\ \A n \in 1..N : o[n] \in S /\ Cardinality(below(o[n])) = n - 1
  BY <1>9, <1>10
<1> HIDE DEF o
<1>12. o \in [1..N -> S]
  BY <1>11
<1>13. \A a, b \in 1..N : a < b => o[a] < o[b]
  <2> SUFFICES ASSUME NEW a \in 1..N, NEW b \in 1..N, a < b, ~(o[a] < o[b])
               PROVE  FALSE
    OBVIOUS
  <2>1. o[a] = o[b] \/ o[b] < o[a]
    <3>1. o[a] \in Nat /\ o[b] \in Nat
      BY <1>11
    <3> QED BY <3>1
  <2>2. a - 1 < b - 1 /\ a - 1 # b - 1 /\ ~(b - 1 < a - 1)
    BY <1>1
  <2>3. o[a] \in S /\ o[b] \in S /\ Cardinality(below(o[a])) = a - 1 /\ Cardinality(below(o[b])) = b - 1
    BY <1>11
  <2> QED BY <1>3, <2>1, <2>2, <2>3
<1>14. \A i \in S : \E a \in 1..N : o[a] = i
  <2> SUFFICES ASSUME NEW i \in S PROVE \E a \in 1..N : o[a] = i
    OBVIOUS
  <2>1. PICK a : a = Cardinality(below(i)) + 1
    OBVIOUS
  <2>2. a \in 1..N /\ a - 1 = Cardinality(below(i))
    BY <1>1, <1>2, <1>4, <2>1
  <2>3. o[a] = i
    BY <1>6, <1>11, <2>2
  <2> QED BY <2>2, <2>3
<1>15. \A n \in 1..N : Cardinality({j \in S : j < o[n]}) = n - 1
  BY <1>11 DEF below
<1> QED BY <1>1, <1>12, <1>13, <1>14, <1>15 DEF Lists, o, N

LEMMA ListIsInOrder ==
  ASSUME NEW S \in SUBSET Nat, NEW n \in Nat, NEW g, Lists(g, S, n)
  PROVE  IsFiniteSet(S) /\ Cardinality(S) = n /\ InOrder(S) = g
<1>1. /\ g \in [1..n -> S] /\ \A a, b \in 1..n : a < b => g[a] < g[b]
      /\ \A i \in S : \E a \in 1..n : g[a] = i
  BY DEF Lists
<1>2. ASSUME NEW a \in 1..n, NEW b \in 1..n
      PROVE  /\ g[a] \in Nat /\ g[b] \in Nat
             /\ g[a] < g[b] <=> a < b
             /\ g[a] = g[b] => a = b
  <2>1. g[a] \in Nat /\ g[b] \in Nat
    BY <1>1
  <2>2. a < b \/ b < a \/ a = b
    OBVIOUS
  <2>3. (a < b => g[a] < g[b]) /\ (b < a => g[b] < g[a])
    BY <1>1
  <2> QED BY <2>1, <2>2, <2>3
<1>3. g \in Bijection(1..n, S)
  BY <1>1, <1>2 DEF Bijection, Injection, Surjection, IsInjective
<1>4. ExistsBijection(1..n, S)
  BY <1>3 DEF ExistsBijection
<1>5. IsFiniteSet(S) /\ Cardinality(S) = n
  BY <1>4, FS_NatBijection, FS_CountingElements
<1>6. ASSUME NEW k \in 1..n
      PROVE  Cardinality({j \in S : j < g[k]}) = k - 1
  <2> DEFINE B == {j \in S : j < g[k]}
             h == [a \in 1..(k - 1) |-> g[a]]
  <2>1. \A a \in 1..(k - 1) : a \in 1..n /\ a < k
    OBVIOUS
  <2>2. h \in [1..(k - 1) -> B] /\ \A a \in 1..(k - 1) : h[a] = g[a]
    BY <1>1, <2>1
  <2>3. \A j \in B : \E a \in 1..(k - 1) : h[a] = j
    <3> SUFFICES ASSUME NEW j \in B PROVE \E a \in 1..(k - 1) : h[a] = j
      OBVIOUS
    <3>1. PICK a \in 1..n : g[a] = j
      BY <1>1
    <3>2. a < k
      BY <1>2, <3>1
    <3> QED BY <3>1, <3>2
  <2>4. \A a, b \in 1..(k - 1) : h[a] = h[b] => a = b
    BY <1>2, <2>1, <2>2
  <2> HIDE DEF h, B
  <2>5. h \in Bijection(1..(k - 1), B)
    BY <2>2, <2>3, <2>4 DEF Bijection, Injection, Surjection, IsInjective
  <2>6. ExistsBijection(1..(k - 1), B) /\ k - 1 \in Nat
    BY <2>5 DEF ExistsBijection
  <2>7. Cardinality(B) = k - 1
    BY <2>6, FS_CountingElements
  <2> QED BY <2>7 DEF B
<1>7. ASSUME NEW k \in 1..n
      PROVE  (CHOOSE i \in S : Cardinality({j \in S : j < i}) = k - 1) = g[k]
  <2> DEFINE q(i) == Cardinality({j \in S : j < i})
  <2>1. g[k] \in S /\ q(g[k]) = k - 1
    BY <1>1, <1>6
  <2>2. ASSUME NEW i \in S, q(i) = k - 1 PROVE i = g[k]
    <3>1. PICK a \in 1..n : g[a] = i
      BY <1>1
    <3>2. q(i) = a - 1
      BY <1>6, <3>1
    <3> HIDE DEF q
    <3>3. a = k
      BY <2>2, <3>2
    <3> QED BY <3>1, <3>3
  <2> HIDE DEF q
  <2>3. (CHOOSE i \in S : q(i) = k - 1) = g[k]
    BY <2>1, <2>2
  <2> QED BY <2>3 DEF q
<1>8. InOrder(S) = g
  <2>1. InOrder(S) = [k \in 1..n |-> CHOOSE i \in S : Cardinality({j \in S : j < i}) = k - 1]
    BY <1>5 DEF InOrder
  <2>2. InOrder(S) = [k \in 1..n |-> g[k]]
    BY <1>7, <2>1
  <2> QED BY <1>1, <2>2
<1> QED BY <1>5, <1>8

LEMMA InOrderInterval ==
  ASSUME NEW n \in Nat
  PROVE  InOrder(1..n) = [k \in 1..n |-> k]
<1> DEFINE g == [k \in 1..n |-> k]
<1>1. Lists(g, 1..n, n)
  BY DEF Lists
<1>2. 1..n \in SUBSET Nat
  OBVIOUS
<1> HIDE DEF g
<1>3. InOrder(1..n) = g
  BY <1>1, <1>2, ListIsInOrder
<1> QED BY <1>3 DEF g

\* A member above the others comes last.
LEMMA InOrderAbove ==
  ASSUME NEW S \in SUBSET Nat, IsFiniteSet(S), NEW i \in Nat, \A j \in S : j < i
  PROVE  LET c == Cardinality(S)
         IN  /\ IsFiniteSet(S \cup {i}) /\ Cardinality(S \cup {i}) = c + 1
             /\ InOrder(S \cup {i}) = [n \in 1..(c + 1) |-> IF n <= c THEN InOrder(S)[n] ELSE i]
<1> DEFINE c == Cardinality(S)
           o == InOrder(S)
           g == [n \in 1..(c + 1) |-> IF n <= c THEN o[n] ELSE i]
           T == S \cup {i}
<1>1. c \in Nat /\ Lists(o, S, c)
  BY InOrderLists
<1> HIDE DEF o, c
<1>2. /\ o \in [1..c -> S] /\ \A a, b \in 1..c : a < b => o[a] < o[b]
      /\ \A j \in S : \E a \in 1..c : o[a] = j
  BY <1>1 DEF Lists
<1>3. g \in [1..(c + 1) -> T]
  <2>1. \A n \in 1..(c + 1) : (IF n <= c THEN o[n] ELSE i) \in T
    BY <1>1, <1>2
  <2> QED BY <2>1
<1>4. ASSUME NEW a \in 1..(c + 1), NEW b \in 1..(c + 1), a < b PROVE g[a] < g[b]
  <2>1. a \in 1..c /\ (b \in 1..c \/ b = c + 1)
    BY <1>1, <1>4
  <2>2. g[a] = o[a] /\ o[a] \in S
    BY <1>1, <1>2, <2>1
  <2>3. CASE b \in 1..c
    <3>1. g[b] = o[b]
      BY <1>1, <2>3
    <3> QED BY <1>2, <1>4, <2>1, <2>2, <2>3, <3>1
  <2>4. CASE b = c + 1
    <3>1. g[b] = i
      BY <1>1, <2>4
    <3> QED BY <2>2, <3>1
  <2> QED BY <2>1, <2>3, <2>4
<1>5. ASSUME NEW j \in T PROVE \E a \in 1..(c + 1) : g[a] = j
  <2>1. CASE j = i
    <3>1. c + 1 \in 1..(c + 1) /\ g[c + 1] = j
      BY <1>1, <2>1
    <3> HIDE DEF g
    <3> QED BY <3>1
  <2>2. CASE j \in S
    <3>1. PICK a \in 1..c : o[a] = j
      BY <1>2, <2>2
    <3>2. a \in 1..(c + 1) /\ g[a] = j
      BY <1>1, <3>1
    <3> HIDE DEF g
    <3> QED BY <3>2
  <2> QED BY <2>1, <2>2
<1>6. T \in SUBSET Nat /\ c + 1 \in Nat
  BY <1>1
<1> HIDE DEF g, T
<1>7. Lists(g, T, c + 1)
  BY <1>3, <1>4, <1>5 DEF Lists
<1>8. IsFiniteSet(T) /\ Cardinality(T) = c + 1 /\ InOrder(T) = g
  BY <1>6, <1>7, ListIsInOrder
<1> QED BY <1>8 DEF T, g, o, c

\* The members below a line come first.
LEMMA InOrderBelow ==
  ASSUME NEW S \in SUBSET Nat, IsFiniteSet(S), NEW T \in SUBSET S,
         \A i \in T, j \in S : j < i => j \in T
  PROVE  /\ IsFiniteSet(T) /\ Cardinality(T) \in Nat /\ Cardinality(T) <= Cardinality(S)
         /\ \A n \in 1..Cardinality(T) : InOrder(T)[n] = InOrder(S)[n]
         /\ \A n \in 1..Cardinality(S) : InOrder(S)[n] \in T <=> n <= Cardinality(T)
<1> DEFINE o == InOrder(S)
           p == InOrder(T)
           c == Cardinality(S)
           d == Cardinality(T)
<1>1. /\ c \in Nat /\ Lists(o, S, c)
      /\ \A n \in 1..c : Cardinality({j \in S : j < o[n]}) = n - 1
  BY InOrderLists
<1>2. IsFiniteSet(T) /\ d <= c /\ T \in SUBSET Nat
  BY FS_Subset
<1>3. /\ d \in Nat /\ Lists(p, T, d)
      /\ \A n \in 1..d : Cardinality({j \in T : j < p[n]}) = n - 1
  BY <1>2, InOrderLists
<1> HIDE DEF o, p, c, d
<1>4. ASSUME NEW n \in 1..d PROVE p[n] = o[n]
  <2>1. p[n] \in T
    BY <1>3 DEF Lists
  <2>2. PICK a \in 1..c : o[a] = p[n]
    BY <1>1, <2>1 DEF Lists
  <2>3. {j \in S : j < o[a]} = {j \in T : j < p[n]}
    BY <2>1, <2>2
  <2>4. a - 1 = n - 1
    BY <1>1, <1>3, <2>3
  <2>5. a = n
    BY <1>1, <1>3, <2>4
  <2> QED BY <2>2, <2>5
<1>5. ASSUME NEW n \in 1..c PROVE o[n] \in T <=> n <= d
  <2>1. CASE n <= d
    <3>1. n \in 1..d /\ p[n] \in T
      BY <1>1, <1>3, <2>1 DEF Lists
    <3> QED BY <1>4, <2>1, <3>1
  <2>2. ASSUME o[n] \in T PROVE n <= d
    <3>1. PICK m \in 1..d : p[m] = o[n]
      BY <1>3, <2>2 DEF Lists
    <3>2. o[m] = o[n] /\ m \in 1..c
      BY <1>1, <1>2, <1>3, <1>4, <3>1
    <3>3. m - 1 = n - 1
      BY <1>1, <3>2
    <3> QED BY <1>1, <1>3, <3>3
  <2> QED BY <2>1, <2>2
<1> QED BY <1>2, <1>3, <1>4, <1>5 DEF o, p, c, d

\* Moving the members without changing their order moves the list.
LEMMA InOrderMoved ==
  ASSUME NEW S \in SUBSET Nat, IsFiniteSet(S), NEW T \in SUBSET Nat, NEW m \in [S -> T],
         \A i, j \in S : i < j => m[i] < m[j], \A i \in T : \E j \in S : m[j] = i
  PROVE  /\ IsFiniteSet(T) /\ Cardinality(T) = Cardinality(S)
         /\ InOrder(T) = [n \in 1..Cardinality(S) |-> m[InOrder(S)[n]]]
<1> DEFINE o == InOrder(S)
           c == Cardinality(S)
           g == [n \in 1..c |-> m[o[n]]]
<1>1. c \in Nat /\ Lists(o, S, c)
  BY InOrderLists
<1> HIDE DEF o, c
<1>2. /\ o \in [1..c -> S] /\ \A a, b \in 1..c : a < b => o[a] < o[b]
      /\ \A i \in S : \E a \in 1..c : o[a] = i
  BY <1>1 DEF Lists
<1>3. \A n \in 1..c : o[n] \in S /\ m[o[n]] \in T
  BY <1>2
<1>4. g \in [1..c -> T] /\ \A n \in 1..c : g[n] = m[o[n]]
  BY <1>3
<1> HIDE DEF g
<1>41. \A a, b \in 1..c : a < b => g[a] < g[b]
  <2> SUFFICES ASSUME NEW a \in 1..c, NEW b \in 1..c, a < b PROVE g[a] < g[b]
    OBVIOUS
  <2>1. o[a] < o[b]
    BY <1>2
  <2> QED BY <1>3, <1>4, <2>1
<1>5. \A i \in T : \E a \in 1..c : g[a] = i
  BY <1>2, <1>4
<1>6. Lists(g, T, c)
  BY <1>4, <1>41, <1>5 DEF Lists
<1>7. IsFiniteSet(T) /\ Cardinality(T) = c /\ InOrder(T) = g
  BY <1>1, <1>6, ListIsInOrder
<1> QED BY <1>7 DEF g, c, o

\* A list that ends where the next element is added.
LEMMA EmptyInOrder == InOrder({}) = <<>> /\ Cardinality({}) = 0
<1>1. Cardinality({}) = 0
  BY FS_EmptySet
<1> QED BY <1>1 DEF InOrder

\* A list of one element.
LEMMA Singleton ==
  ASSUME NEW X, NEW t \in Seq(X), Len(t) = 1
  PROVE  t[1] \in X /\ t = <<t[1]>>
<1>1. t[1] \in X
  <2>1. 1 \in 1..Len(t)
    OBVIOUS
  <2> QED BY <2>1, ElementOfSeq
<1>2. <<t[1]>> \in Seq(X) /\ Len(<<t[1]>>) = 1 /\ <<t[1]>>[1] = t[1]
  BY <1>1
<1>3. \A j \in 1..Len(t) : t[j] = <<t[1]>>[j]
  BY <1>2
<1> QED BY <1>1, <1>2, <1>3, SeqEqual

\* The first elements of some rows, in order.
Firsts(s, S) == [n \in 1..Cardinality(S) |-> s[InOrder(S)[n]][1]]

\* The flattening of rows with at most one element: those elements, in order.
LEMMA FlattenSingles ==
  ASSUME NEW X, NEW s \in Seq(Seq(X)), \A i \in DOMAIN s : Len(s[i]) <= 1,
         NEW S \in SUBSET DOMAIN s, \A i \in DOMAIN s : i \in S <=> s[i] # <<>>
  PROVE  FlattenSeq(s) = Firsts(s, S)
<1> DEFINE N == Len(s)
           At(k) == S \cap (1..k)
           Row(k) == [n \in 1..Cardinality(At(k)) |-> s[InOrder(At(k))[n]][1]]
<1>1. N \in Nat /\ DOMAIN s = 1..N /\ S \in SUBSET (1..N)
  OBVIOUS
<1>2. \A i \in 1..N : /\ s[i] \in Seq(X) /\ (i \notin S => s[i] = <<>>)
                      /\ (i \in S => s[i][1] \in X /\ s[i] = <<s[i][1]>>)
  <2> SUFFICES ASSUME NEW i \in 1..N
               PROVE  /\ s[i] \in Seq(X) /\ (i \notin S => s[i] = <<>>)
                      /\ (i \in S => s[i][1] \in X /\ s[i] = <<s[i][1]>>)
    OBVIOUS
  <2>1. s[i] \in Seq(X) /\ Len(s[i]) <= 1
    BY <1>1
  <2>2. i \notin S => s[i] = <<>>
    BY <1>1
  <2>3. ASSUME i \in S PROVE s[i][1] \in X /\ s[i] = <<s[i][1]>>
    <3>1. s[i] # <<>>
      BY <2>3
    <3>3. Len(s[i]) = 1
      <4>1. Len(s[i]) \in Nat /\ Len(s[i]) # 0
        BY <2>1, <3>1, EmptySeq
      <4>2. \A x \in Nat : x # 0 /\ x <= 1 => x = 1
        OBVIOUS
      <4> QED BY <2>1, <4>1, <4>2
    <3> QED BY <2>1, <3>3, Singleton
  <2> QED BY <2>1, <2>2, <2>3
<1>3. \A k \in 0..N : /\ At(k) \in SUBSET Nat /\ IsFiniteSet(At(k))
                      /\ At(k) \in SUBSET S /\ Cardinality(At(k)) \in Nat
                      /\ \A n \in 1..Cardinality(At(k)) : InOrder(At(k))[n] \in S
  <2> SUFFICES ASSUME NEW k \in 0..N
               PROVE  /\ At(k) \in SUBSET Nat /\ IsFiniteSet(At(k))
                      /\ At(k) \in SUBSET S /\ Cardinality(At(k)) \in Nat
                      /\ \A n \in 1..Cardinality(At(k)) : InOrder(At(k))[n] \in S
    OBVIOUS
  <2>1. At(k) \in SUBSET Nat /\ At(k) \in SUBSET S
    BY <1>1
  <2>2. IsFiniteSet(1..k)
    BY FS_Interval, <1>1
  <2>3. IsFiniteSet(At(k))
    BY <2>2, FS_Subset
  <2> HIDE DEF At
  <2>4. Cardinality(At(k)) \in Nat /\ Lists(InOrder(At(k)), At(k), Cardinality(At(k)))
    BY <2>1, <2>3, InOrderLists
  <2> QED BY <2>1, <2>3, <2>4 DEF Lists
<1>4. Row(0) = <<>>
  <2>1. At(0) = {}
    OBVIOUS
  <2> QED BY <2>1, EmptyInOrder
<1>5. \A k \in 0..N : Row(k) \in Seq(X)
  <2> SUFFICES ASSUME NEW k \in 0..N PROVE Row(k) \in Seq(X)
    OBVIOUS
  <2>1. \A n \in 1..Cardinality(At(k)) : s[InOrder(At(k))[n]][1] \in X
    BY <1>1, <1>2, <1>3
  <2>2. Cardinality(At(k)) \in Nat
    BY <1>3
  <2> HIDE DEF At
  <2> QED BY <2>1, <2>2
<1>6. ASSUME NEW k \in 1..N PROVE Row(k) = Row(k - 1) \o s[k]
  <2>0. k - 1 \in 0..N /\ k \in 0..N /\ k \in Nat
    BY <1>1
  <2>1. CASE k \notin S
    <3>1. At(k) = At(k - 1)
      BY <1>1, <2>1
    <3>2. s[k] = <<>> /\ Row(k - 1) \in Seq(X)
      BY <1>2, <1>5, <2>0, <2>1
    <3>3. Row(k) = Row(k - 1)
      BY <3>1
    <3> HIDE DEF Row
    <3> QED BY <3>2, <3>3
  <2>2. CASE k \in S
    <3> DEFINE A == At(k - 1)
               c == Cardinality(A)
               o == InOrder(A)
    <3>1. At(k) = A \cup {k} /\ \A j \in A : j < k
      BY <1>1, <2>2
    <3>2. A \in SUBSET Nat /\ IsFiniteSet(A) /\ c \in Nat
      BY <1>3, <2>0
    <3>3. Row(k - 1) = [n \in 1..c |-> s[o[n]][1]] /\ Row(k - 1) \in Seq(X)
      BY <1>5, <2>0
    <3>4. s[k] = <<s[k][1]>> /\ s[k][1] \in X
      BY <1>2, <2>2
    <3>5. Row(k) = [n \in 1..Cardinality(A \cup {k}) |-> s[InOrder(A \cup {k})[n]][1]]
      BY <3>1
    <3> HIDE DEF A, Row, c, o
    <3>6. /\ Cardinality(A \cup {k}) = c + 1
          /\ InOrder(A \cup {k}) = [n \in 1..(c + 1) |-> IF n <= c THEN InOrder(A)[n] ELSE k]
      BY <2>0, <3>1, <3>2, InOrderAbove DEF c
    <3>7. Row(k) = [n \in 1..(c + 1) |-> IF n <= c THEN s[o[n]][1] ELSE s[k][1]]
      BY <3>2, <3>5, <3>6 DEF o
    <3> DEFINE x == s[k][1]
               r == Row(k - 1)
    <3>8. Len(r) = c /\ \A n \in 1..c : r[n] = s[o[n]][1]
      BY <3>2, <3>3
    <3>9. /\ r \o <<x>> \in Seq(X) /\ Len(r \o <<x>>) = c + 1
          /\ \A n \in 1..(c + 1) : (r \o <<x>>)[n] = IF n <= c THEN r[n] ELSE x
      <4>1. r \in Seq(X) /\ x \in X
        BY <3>3, <3>4
      <4> HIDE DEF r, x
      <4> QED BY <3>2, <3>8, <4>1
    <3>10. r \o <<x>> = [n \in 1..(c + 1) |-> IF n <= c THEN s[o[n]][1] ELSE x]
      <4>1. r \o <<x>> = [n \in 1..(c + 1) |-> (r \o <<x>>)[n]]
        BY <3>2, <3>9
      <4> HIDE DEF r, x
      <4>2. \A n \in 1..(c + 1) : (r \o <<x>>)[n] = IF n <= c THEN s[o[n]][1] ELSE x
        <5>1. \A n \in 1..(c + 1) : n <= c => n \in 1..c
          BY <3>2
        <5> QED BY <3>8, <3>9, <5>1
      <4> QED BY <4>1, <4>2
    <3> QED BY <3>4, <3>7, <3>10
  <2> QED BY <2>1, <2>2
<1>61. \A t \in Seq(X) : <<>> \o t = t
  OBVIOUS
<1>62. 1 <= N => Row(1) = s[1]
  <2> SUFFICES ASSUME 1 <= N PROVE Row(1) = s[1]
    OBVIOUS
  <2>1. 1 \in 1..N
    BY <1>1
  <2> HIDE DEF Row
  <2>2. Row(1) = Row(1 - 1) \o s[1]
    BY <1>6, <2>1
  <2>3. 1 - 1 = 0
    OBVIOUS
  <2> QED BY <1>2, <1>4, <1>61, <2>1, <2>2, <2>3
<1>7. Row(N) = Firsts(s, S)
  <2>1. At(N) = S
    BY <1>1
  <2> QED BY <2>1 DEF Firsts
<1>8. CASE N = 0
  <2>1. FlattenSeq(s) = s /\ s = <<>>
    BY <1>8 DEF FlattenSeq
  <2> HIDE DEF Row
  <2> QED BY <1>4, <1>7, <1>8, <2>1
<1>9. CASE N # 0
  <2> DEFINE Fix(h) == h = [i \in 1..N |-> IF i = 1 THEN s[i] ELSE h[i - 1] \o s[i]]
             R == [i \in 1..N |-> Row(i)]
             F == CHOOSE h : Fix(h)
  <2>1. FlattenSeq(s) = F[N]
    BY <1>9 DEF FlattenSeq
  <2>2. \A i \in 1..N : Row(i) = IF i = 1 THEN s[i] ELSE R[i - 1] \o s[i]
    <3> SUFFICES ASSUME NEW i \in 1..N PROVE Row(i) = IF i = 1 THEN s[i] ELSE R[i - 1] \o s[i]
      OBVIOUS
    <3>1. s[i] \in Seq(X)
      BY <1>2
    <3> HIDE DEF Row
    <3>2. CASE i = 1
      BY <1>1, <1>62, <3>2
    <3>3. CASE i # 1
      <4>1. i - 1 \in 1..N /\ R[i - 1] = Row(i - 1)
        BY <1>1, <3>3
      <4> QED BY <1>6, <3>3, <4>1
    <3> QED BY <3>2, <3>3
  <2>3. Fix(R)
    <3> HIDE DEF Row
    <3> QED BY <2>2
  <2> HIDE DEF R, Row
  <2>4. Fix(F)
    BY <2>3
  <2> HIDE DEF F
  <2> DEFINE T == {i \in 0..N : i # 0 => F[i] = Row(i)}
  <2>5. 0 \in T
    BY <1>1
  <2>6. ASSUME NEW i \in 1..N, i - 1 \in T PROVE i \in T
    <3> HIDE DEF T
    <3>1. F[i] = IF i = 1 THEN s[i] ELSE F[i - 1] \o s[i]
      BY <2>4
    <3>2. Row(i) = Row(i - 1) \o s[i] /\ s[i] \in Seq(X)
      BY <1>2, <1>6
    <3>3. CASE i = 1
      <4>1. F[i] = Row(i)
        BY <1>1, <1>62, <3>1, <3>3
      <4> QED BY <1>1, <4>1 DEF T
    <3>4. CASE i # 1
      <4>1. F[i] = Row(i)
        <5>1. i - 1 \in 0..N /\ i - 1 # 0
          BY <1>1, <3>4
        <5>2. F[i - 1] = Row(i - 1)
          BY <2>6, <5>1 DEF T
        <5> QED BY <3>1, <3>2, <3>4, <5>2
      <4> QED BY <1>1, <4>1 DEF T
    <3> QED BY <3>3, <3>4
  <2> HIDE DEF T
  <2>7. 0..N \subseteq T
    BY <1>1, <2>5, <2>6, InductionTo
  <2>8. F[N] = Row(N)
    BY <1>1, <1>9, <2>7 DEF T
  <2> QED BY <1>7, <2>1, <2>8
<1> QED BY <1>8, <1>9
=============================================================================
