---------------------------- MODULE SequenceLemmas ---------------------------
(* Facts about sequences and about counting that the proofs of several     *)
(* modules use.                                                            *)
EXTENDS Integers, SequencesExt, FiniteSets, FiniteSetTheorems, SequenceTheorems, TLAPS

\* What RemoveAt leaves: the items before i at their places, the items behind
\* it one place to the left.
LEMMA RemoveAtProperties ==
  ASSUME NEW S, NEW q \in Seq(S), NEW i \in 1..Len(q)
  PROVE  /\ RemoveAt(q, i) \in Seq(S)
         /\ Len(RemoveAt(q, i)) = Len(q) - 1
         /\ \A j \in 1..(Len(q) - 1) :
              RemoveAt(q, i)[j] = IF j < i THEN q[j] ELSE q[j + 1]
<1> DEFINE a == SubSeq(q, 1, i - 1)
           b == SubSeq(q, i + 1, Len(q))
<1>0. Len(q) \in Nat /\ i \in Nat /\ 1 <= i /\ i <= Len(q)
  BY LenProperties
<1>1. /\ a \in Seq(S)
      /\ Len(a) = i - 1
      /\ \A k \in 1..(i - 1) : a[k] = q[k]
  BY <1>0, SubSeqProperties, SMT
<1>2. /\ b \in Seq(S)
      /\ Len(b) = Len(q) - i
      /\ \A k \in 1..(Len(q) - i) : b[k] = q[i + k]
  BY <1>0, SubSeqProperties, SMT
<1>3. RemoveAt(q, i) = a \o b
  BY DEF RemoveAt
<1> HIDE DEF a, b
<1>4. /\ a \o b \in Seq(S)
      /\ Len(a \o b) = Len(a) + Len(b)
      /\ \A k \in 1..(Len(a) + Len(b)) :
           (a \o b)[k] = IF k <= Len(a) THEN a[k] ELSE b[k - Len(a)]
  BY <1>1, <1>2, ConcatProperties
<1>5. Len(a) + Len(b) = Len(q) - 1
  BY <1>0, <1>1, <1>2
<1>6. ASSUME NEW j \in 1..(Len(q) - 1)
      PROVE  (a \o b)[j] = IF j < i THEN q[j] ELSE q[j + 1]
  <2>1. (a \o b)[j] = IF j <= Len(a) THEN a[j] ELSE b[j - Len(a)]
    BY <1>4, <1>5
  <2>2. CASE j < i
    <3>1. j \in 1..(i - 1) /\ j <= Len(a)
      BY <2>2, <1>0, <1>1
    <3> QED BY <2>1, <2>2, <3>1, <1>1
  <2>3. CASE ~(j < i)
    <3>1. ~(j <= Len(a)) /\ j - Len(a) = j - i + 1
      BY <2>3, <1>0, <1>1
    <3>2. j - i + 1 \in 1..(Len(q) - i) /\ i + (j - i + 1) = j + 1
      BY <2>3, <1>0
    <3>3. b[j - i + 1] = q[j + 1]
      BY <3>2, <1>2
    <3> QED BY <2>1, <2>3, <3>1, <3>3
  <2> QED BY <2>2, <2>3
<1> QED BY <1>3, <1>4, <1>5, <1>6
---------------------------------------------------------------------------
(* Ranks: the place of a member of a finite set is the number of those in  *)
(* front of it.  What stands at a place can so be said and proved without  *)
(* an induction over the set.                                              *)

RankIn(set, Ahead, i) == Cardinality({j \in set : <<j, i>> \in Ahead})

\* Every rank below the size of the set is that of one member, and who is in front
\* has the smaller one.
LEMMA RanksIn ==
  ASSUME NEW set, IsFiniteSet(set), NEW Ahead,
         \A i, j \in set : <<i, j>> \in Ahead => <<j, i>> \notin Ahead,
         \A i, j \in set : i # j => <<i, j>> \in Ahead \/ <<j, i>> \in Ahead,
         \A i, j, k \in set : <<i, j>> \in Ahead /\ <<j, k>> \in Ahead => <<i, k>> \in Ahead
  PROVE  /\ Cardinality(set) \in Nat
         /\ Cardinality(set) = 0 <=> set = {}
         /\ \A i \in set : RankIn(set, Ahead, i) \in 0..(Cardinality(set) - 1)
         /\ \A i, j \in set : <<i, j>> \in Ahead => RankIn(set, Ahead, i) < RankIn(set, Ahead, j)
         /\ \A k \in 1..Cardinality(set) : \E i \in set : RankIn(set, Ahead, i) = k - 1
<1> DEFINE before(i) == {j \in set : <<j, i>> \in Ahead}
           n == Cardinality(set)
           place == [i \in set |-> RankIn(set, Ahead, i) + 1]
<1>1. n \in Nat /\ (n = 0 <=> set = {})
  BY FS_CardinalityType, FS_EmptySet
<1>2. ASSUME NEW i \in set
      PROVE  IsFiniteSet(before(i)) /\ RankIn(set, Ahead, i) \in Nat /\ RankIn(set, Ahead, i) < n
  <2>1. before(i) \in SUBSET set /\ before(i) # set
    OBVIOUS
  <2>2. IsFiniteSet(before(i)) /\ Cardinality(before(i)) <= n /\ Cardinality(before(i)) # n
    BY <2>1, FS_Subset
  <2>3. Cardinality(before(i)) \in Nat
    BY <2>2, FS_CardinalityType
  <2>4. Cardinality(before(i)) < n
    <3> HIDE DEF before, n
    <3> QED BY <1>1, <2>2, <2>3
  <2> QED BY <2>2, <2>3, <2>4 DEF RankIn
<1>3. ASSUME NEW i \in set, NEW j \in set, <<i, j>> \in Ahead
      PROVE  RankIn(set, Ahead, i) < RankIn(set, Ahead, j)
  <2>1. before(i) \in SUBSET before(j)
    BY <1>3
  <2>2. i \in before(j) /\ i \notin before(i)
    BY <1>3
  <2>3. IsFiniteSet(before(j)) /\ RankIn(set, Ahead, i) \in Nat /\ RankIn(set, Ahead, j) \in Nat
    BY <1>2
  <2>4. RankIn(set, Ahead, i) = Cardinality(before(i)) /\ RankIn(set, Ahead, j) = Cardinality(before(j))
    BY DEF RankIn
  <2> HIDE DEF before
  <2>5. Cardinality(before(i)) <= Cardinality(before(j)) /\ Cardinality(before(i)) # Cardinality(before(j))
    BY <2>1, <2>2, <2>3, FS_Subset
  <2> QED BY <2>3, <2>4, <2>5
<1> HIDE DEF before, n
<1>4. place \in Injection(set, 1..n)
  <2>1. place \in [set -> 1..n]
    <3>1. \A i \in set : RankIn(set, Ahead, i) + 1 \in 1..n
      BY <1>1, <1>2
    <3> QED BY <3>1
  <2>2. ASSUME NEW i \in set, NEW j \in set, i # j PROVE place[i] # place[j]
    <3>1. RankIn(set, Ahead, i) # RankIn(set, Ahead, j)
      <4>1. <<i, j>> \in Ahead \/ <<j, i>> \in Ahead
        BY <2>2
      <4>2. RankIn(set, Ahead, i) \in Nat /\ RankIn(set, Ahead, j) \in Nat
        BY <1>2
      <4> QED BY <1>3, <4>1, <4>2
    <3>2. RankIn(set, Ahead, i) \in Nat /\ RankIn(set, Ahead, j) \in Nat
      BY <1>2
    <3> QED BY <3>1, <3>2
  <2> HIDE DEF place
  <2>3. DOMAIN place = set
    BY <2>1, Zenon
  <2> QED BY <2>1, <2>2, <2>3, Zenon DEF Injection, IsInjective
<1>5. place \in Surjection(set, 1..n)
  <2>1. IsFiniteSet(1..n) /\ Cardinality(1..n) = n
    BY <1>1, FS_Interval
  <2> HIDE DEF place
  <2> QED BY <1>4, <2>1, FS_Injection DEF n
<1>6. ASSUME NEW k \in 1..n PROVE \E i \in set : RankIn(set, Ahead, i) = k - 1
  <2>1. PICK i \in set : place[i] = k
    BY <1>5 DEF Surjection
  <2>2. RankIn(set, Ahead, i) \in Nat /\ RankIn(set, Ahead, i) + 1 = k
    BY <1>2, <2>1
  <2> QED BY <1>1, <2>2
<1>7. \A i \in set : RankIn(set, Ahead, i) \in 0..(n - 1)
  BY <1>1, <1>2
<1> QED BY <1>1, <1>3, <1>6, <1>7 DEF n

\* A set of numbers up to n; the k-th of it, and that there is one for every k.
UpTo(n, set) == n \in Nat /\ set \subseteq 1..n
Below(set, i) == Cardinality({j \in set : j < i})
Nth(set, k) == CHOOSE i \in set : Below(set, i) = k - 1

LEMMA NthInOrder ==
  ASSUME NEW n, NEW set, UpTo(n, set)
  PROVE  /\ Cardinality(set) \in Nat
         /\ Cardinality(set) = 0 <=> set = {}
         /\ \A k \in 1..Cardinality(set) :
              Nth(set, k) \in set /\ Below(set, Nth(set, k)) = k - 1
         /\ \A k, m \in 1..Cardinality(set) : k < m => Nth(set, k) < Nth(set, m)
         /\ \A i \in set : \E k \in 1..Cardinality(set) : Nth(set, k) = i
<1> DEFINE Ahead == {p \in set \X set : p[1] < p[2]}
           size == Cardinality(set)
           rank(i) == Below(set, i)
<1>up. n \in Nat /\ set \subseteq 1..n
  BY DEF UpTo
<1>1. IsFiniteSet(set)
  <2>1. IsFiniteSet(1..n)
    BY <1>up, FS_Interval
  <2> QED BY <1>up, <2>1, FS_Subset
<1>2. \A i, j : <<i, j>> \in Ahead <=> i \in set /\ j \in set /\ i < j
  OBVIOUS
<1>3. \A i \in set : RankIn(set, Ahead, i) = rank(i)
  <2> SUFFICES ASSUME NEW i \in set PROVE RankIn(set, Ahead, i) = rank(i)
    OBVIOUS
  <2>1. {j \in set : <<j, i>> \in Ahead} = {j \in set : j < i}
    BY <1>2
  <2> QED BY <2>1 DEF RankIn, Below
<1> HIDE DEF Ahead
<1>4. /\ \A i, j \in set : <<i, j>> \in Ahead => <<j, i>> \notin Ahead
      /\ \A i, j \in set : i # j => <<i, j>> \in Ahead \/ <<j, i>> \in Ahead
      /\ \A i, j, k \in set : <<i, j>> \in Ahead /\ <<j, k>> \in Ahead => <<i, k>> \in Ahead
  <2>1. \A i \in set : i \in Nat
    BY <1>up
  <2> QED BY <1>2, <2>1
<1>5. /\ size \in Nat /\ (size = 0 <=> set = {})
      /\ \A i \in set : RankIn(set, Ahead, i) \in 0..(size - 1)
      /\ \A i, j \in set : <<i, j>> \in Ahead => RankIn(set, Ahead, i) < RankIn(set, Ahead, j)
      /\ \A k \in 1..size : \E i \in set : RankIn(set, Ahead, i) = k - 1
  BY <1>1, <1>4, RanksIn
<1> HIDE DEF size
<1>6. /\ \A i \in set : rank(i) \in 0..(size - 1)
      /\ \A i, j \in set : i < j => rank(i) < rank(j)
      /\ \A k \in 1..size : \E i \in set : rank(i) = k - 1
  <2> HIDE DEF rank
  <2> QED BY <1>2, <1>3, <1>5
<1>7. \A k \in 1..size : Nth(set, k) \in set /\ rank(Nth(set, k)) = k - 1
  BY <1>6 DEF Nth
<1>8. \A i \in set : i \in Nat
  BY <1>up
<1>10. ASSUME NEW k \in 1..size, NEW m \in 1..size, k < m PROVE Nth(set, k) < Nth(set, m)
  <2> DEFINE i == Nth(set, k)
             j == Nth(set, m)
  <2>1. i \in set /\ j \in set /\ rank(i) = k - 1 /\ rank(j) = m - 1
    BY <1>7
  <2> HIDE DEF i, j, rank
  <2>2. i # j /\ ~(j < i)
    BY <1>5, <1>6, <1>10, <2>1
  <2>3. i < j
    BY <1>8, <2>1, <2>2
  <2> QED BY <2>3 DEF i, j
<1>11. ASSUME NEW i \in set PROVE \E k \in 1..size : Nth(set, k) = i
  <2> DEFINE k == rank(i) + 1
             j == Nth(set, k)
  <2>1. k \in 1..size /\ k - 1 = rank(i)
    <3> HIDE DEF rank
    <3> QED BY <1>5, <1>6
  <2>2. j \in set /\ rank(j) = rank(i)
    BY <1>7, <2>1
  <2>3. j = i
    <3> HIDE DEF j, rank, k
    <3> QED BY <1>6, <1>8, <2>2
  <2> QED BY <2>1, <2>3
<1> QED BY <1>5, <1>7, <1>10, <1>11 DEF size

\* f lists the m members of a set in their order.
ListsAll(f, m, set) ==
  /\ m \in Nat /\ \A k \in 1..m : f[k] \in set
  /\ \A k, l \in 1..m : k < l => f[k] < f[l]
  /\ \A i \in set : \E k \in 1..m : f[k] = i

\* A set has one such list.
LEMMA OneOrder ==
  ASSUME NEW n, NEW set, UpTo(n, set),
         NEW m, NEW f, ListsAll(f, m, set)
  PROVE  Cardinality(set) = m /\ \A k \in 1..m : Nth(set, k) = f[k]
<1>list. /\ m \in Nat /\ \A k \in 1..m : f[k] \in set
         /\ \A k, l \in 1..m : k < l => f[k] < f[l]
         /\ \A i \in set : \E k \in 1..m : f[k] = i
  BY DEF ListsAll
<1> DEFINE rank(i) == Below(set, i)
<1>0. \A i \in set : i \in Nat
  BY DEF UpTo
<1>1. Cardinality(set) = m
  <2>1. \A k, l \in 1..m : k # l => f[k] # f[l]
    <3>1. \A k, l \in 1..m : k # l => k < l \/ l < k
      OBVIOUS
    <3>2. \A k \in 1..m : f[k] \in Nat
      BY <1>0, <1>list
    <3> QED BY <1>list, <3>1, <3>2
  <2> DEFINE h == [k \in 1..m |-> f[k]]
  <2>2. /\ h \in [1..m -> set]
        /\ \A k, l \in 1..m : k # l => h[k] # h[l]
        /\ \A i \in set : \E k \in 1..m : h[k] = i
    BY <1>list, <2>1
  <2> HIDE DEF h
  <2>3. h \in Bijection(1..m, set)
    BY <2>2, Zenon DEF Bijection, Injection, Surjection, IsInjective
  <2>4. ExistsBijection(1..m, set)
    BY <2>3 DEF ExistsBijection
  <2> QED BY <1>list, <2>4, FS_CountingElements
<1>2. ASSUME NEW k \in 1..m PROVE rank(f[k]) = k - 1
  <2> DEFINE front == {j \in set : j < f[k]}
             g == [x \in 1..(k - 1) |-> f[x]]
  <2>1. k - 1 \in Nat /\ \A x : x \in 1..(k - 1) <=> x \in 1..m /\ x < k
    BY <1>list
  <2>2. \A x \in 1..m : f[x] < f[k] <=> x < k
    <3>1. \A x \in 1..m : x < k \/ x = k \/ k < x
      OBVIOUS
    <3>2. \A x \in 1..m : f[x] \in Nat
      BY <1>0, <1>list
    <3> QED BY <1>list, <3>1, <3>2
  <2>3. \A x, y \in 1..m : x # y => f[x] # f[y]
    <3>1. \A x, y \in 1..m : x # y => x < y \/ y < x
      OBVIOUS
    <3>2. \A x \in 1..m : f[x] \in Nat
      BY <1>0, <1>list
    <3> QED BY <1>list, <3>1, <3>2
  <2>4. g \in [1..(k - 1) -> front]
    BY <1>list, <2>1, <2>2
  <2>5. \A x, y \in 1..(k - 1) : x # y => g[x] # g[y]
    BY <2>1, <2>3
  <2>6. \A i \in front : \E x \in 1..(k - 1) : g[x] = i
    BY <1>list, <2>1, <2>2
  <2> HIDE DEF front, g
  <2>7. g \in Bijection(1..(k - 1), front)
    BY <2>4, <2>5, <2>6, Zenon DEF Bijection, Injection, Surjection, IsInjective
  <2>8. ExistsBijection(1..(k - 1), front)
    BY <2>7 DEF ExistsBijection
  <2>9. Cardinality(front) = k - 1
    BY <2>1, <2>8, FS_CountingElements
  <2> QED BY <2>9 DEF front, Below
<1>3. ASSUME NEW k \in 1..m PROVE Nth(set, k) = f[k]
  <2>1. Nth(set, k) \in set /\ rank(Nth(set, k)) = k - 1
    BY <1>1, NthInOrder
  <2>2. PICK l \in 1..m : f[l] = Nth(set, k)
    BY <1>list, <2>1
  <2>3. l - 1 = k - 1
    BY <1>2, <2>1, <2>2
  <2>4. l = k
    BY <2>3
  <2> QED BY <2>2, <2>4
<1> QED BY <1>1, <1>3

\* Of the members, some are taken again: the order is that of all.
Those(set, again) == {Nth(set, k) : k \in again}

LEMMA PickedTwice ==
  ASSUME NEW n, NEW keep, UpTo(n, keep), NEW again, UpTo(Cardinality(keep), again)
  PROVE  /\ Cardinality(Those(keep, again)) = Cardinality(again)
         /\ \A x \in 1..Cardinality(again) : Nth(Those(keep, again), x) = Nth(keep, Nth(again, x))
<1> DEFINE both == Those(keep, again)
           size == Cardinality(keep)
           m == Cardinality(again)
           f == [x \in 1..m |-> Nth(keep, Nth(again, x))]
<1>1. /\ size \in Nat
      /\ \A k \in 1..size : Nth(keep, k) \in keep
      /\ \A k, l \in 1..size : k < l => Nth(keep, k) < Nth(keep, l)
  BY NthInOrder
<1>2. /\ m \in Nat
      /\ \A x \in 1..m : Nth(again, x) \in again
      /\ \A x, y \in 1..m : x < y => Nth(again, x) < Nth(again, y)
      /\ \A k \in again : \E x \in 1..m : Nth(again, x) = k
  BY NthInOrder
<1>3. both \subseteq 1..n /\ \A i : i \in both <=> \E k \in again : i = Nth(keep, k)
  <2>1. \A k \in again : k \in 1..size
    BY DEF UpTo
  <2>2. \A i \in keep : i \in 1..n
    BY DEF UpTo
  <2> HIDE DEF size
  <2> QED BY <1>1, <2>1, <2>2 DEF Those
<1> HIDE DEF size, m, both
<1>4. f \in [1..m -> both]
  BY <1>2, <1>3
<1>5. \A x, y \in 1..m : x < y => f[x] < f[y]
  <2>1. \A x \in 1..m : Nth(again, x) \in 1..size
    BY <1>2 DEF size, UpTo
  <2> QED BY <1>1, <1>2, <2>1
<1>6. \A i \in both : \E x \in 1..m : f[x] = i
  BY <1>2, <1>3
<1> HIDE DEF f
<1>7. Cardinality(both) = m /\ \A x \in 1..m : Nth(both, x) = f[x]
  <2>1. UpTo(n, both) /\ ListsAll(f, m, both)
    BY <1>2, <1>3, <1>4, <1>5, <1>6 DEF ListsAll, UpTo
  <2> QED BY <2>1, OneOrder
<1> QED BY <1>7 DEF f, m, both

\* A function on 1..n is a list of n.
IsList(f, n) == n \in Nat /\ f = [k \in 1..n |-> f[k]]

LEMMA ListOf ==
  ASSUME NEW n, NEW f, IsList(f, n)
  PROVE  f \in Seq({f[k] : k \in 1..n}) /\ Len(f) = n
<1>1. f \in [1..n -> {f[k] : k \in 1..n}]
  BY DEF IsList
<1>2. f \in Seq({f[k] : k \in 1..n})
  BY <1>1 DEF IsList
<1>3. DOMAIN f = 1..n /\ Len(f) \in Nat /\ DOMAIN f = 1..Len(f)
  BY <1>1, <1>2, LenProperties
<1> QED BY <1>2, <1>3 DEF IsList

LEMMA ShortLists ==
  ASSUME NEW f
  PROVE  /\ IsList(f, 0) => f = <<>>
         /\ IsList(f, 1) => f = <<f[1]>>
<1>1. ASSUME IsList(f, 0) PROVE f = <<>>
  <2>1. f \in Seq({f[k] : k \in 1..0}) /\ Len(f) = 0
    BY <1>1, ListOf
  <2> QED BY <2>1, EmptySeq
<1>2. ASSUME IsList(f, 1) PROVE f = <<f[1]>>
  <2> DEFINE S == {f[k] : k \in 1..1}
             one == <<f[1]>>
  <2>1. f \in Seq(S) /\ Len(f) = 1
    BY <1>2, ListOf
  <2>2. one \in Seq(S) /\ Len(one) = 1 /\ one[1] = f[1]
    <3>1. f[1] \in S
      OBVIOUS
    <3> HIDE DEF S
    <3> QED BY <3>1
  <2> HIDE DEF S, one
  <2>3. \A i \in 1..Len(f) : f[i] = one[i]
    BY <2>1, <2>2
  <2> QED BY <2>1, <2>2, <2>3, SeqEqual DEF one
<1> QED BY <1>1, <1>2
=============================================================================
