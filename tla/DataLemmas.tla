----------------------------- MODULE DataLemmas -----------------------------
(***************************************************************************)
(* Lemmas that say nothing of a state.  The first ones replace induction:  *)
(* what a step from i - 1 to i keeps holds up to n, and a recursive        *)
(* function that goes step by step exists.  The others say what the        *)
(* operators of Buffers return, for buffers of every length: the rank of a *)
(* position among the selected ones is a bijection to 1..n, so Select is a *)
(* permutation of the elements at the selected positions.                  *)
(***************************************************************************)
EXTENDS Buffers, FiniteSetTheorems, FunctionTheorems, SequenceTheorems,
        WellFoundedInduction, TLAPS

-----------------------------------------------------------------------------
(* Numbers.                                                                *)

LEMMA LeastExists ==
  ASSUME NEW T, T \subseteq Nat, T # {}
  PROVE  \E m \in T : \A k \in T : m <= k
<1>1. PICK R : R = OpToRel(<, Nat)
  OBVIOUS
<1>2. IsWellFoundedOn(R, Nat)
  BY <1>1, NatLessThanWellFounded
<1>3. PICK m \in T : \A k \in T : ~(<<k, m>> \in R)
  BY <1>2, WFMin
<1>4. \A a, b \in Nat : <<a, b>> \in R <=> a < b
  BY <1>1 DEF OpToRel
<1>5. m \in Nat /\ \A k \in T : k \in Nat /\ ~(k < m)
  BY <1>3, <1>4
<1>6. \A k \in T : m <= k
  BY <1>5
<1> QED BY <1>6

(* Induction over the first n numbers, for a set of them. *)
LEMMA UpToAll ==
  ASSUME NEW n \in Nat, NEW T, 0 \in T, \A i \in 1..n : i - 1 \in T => i \in T
  PROVE  0..n \subseteq T
<1> SUFFICES ASSUME ~(0..n \subseteq T)
             PROVE  FALSE
  OBVIOUS
<1> DEFINE outside == {i \in 0..n : i \notin T}
<1>1. outside \subseteq Nat /\ outside # {}
  OBVIOUS
<1> HIDE DEF outside
<1>2. PICK m \in outside : \A k \in outside : m <= k
  BY <1>1, LeastExists
<1>3. m \in 0..n /\ m \notin T
  BY <1>2 DEF outside
<1>4. m - 1 \in 0..n /\ m \in 1..n
  BY <1>3
<1>5. m - 1 \in T
  BY <1>2, <1>4 DEF outside
<1> QED
  BY <1>3, <1>4, <1>5

(* A function goes from a start by one step after the other. *)
GoesBy(f, n, S, base, step) ==
  f \in [0..n -> S] /\ f[0] = base /\ \A i \in 1..n : f[i] = step[<<i, f[i - 1]>>]

(* There is one, and it stays in a set that no step leaves. *)
LEMMA StepByStep ==
  ASSUME NEW n \in Nat, NEW S, NEW base \in S, NEW step \in [(1..n) \X S -> S]
  PROVE  \E f : GoesBy(f, n, S, base, step)
<1> DEFINE Steps(m, f) == f[0] = base /\ \A i \in 1..m : f[i] = step[<<i, f[i - 1]>>]
           T == {m \in 0..n : \E f \in [0..m -> S] : Steps(m, f)}
<1>1. 0 \in T
  <2>1. [i \in 0..0 |-> base] \in [0..0 -> S]
    OBVIOUS
  <2>2. Steps(0, [i \in 0..0 |-> base])
    OBVIOUS
  <2>3. 0 \in 0..n
    OBVIOUS
  <2> HIDE DEF Steps
  <2> QED
    BY <2>1, <2>2, <2>3
<1>2. ASSUME NEW m \in 1..n, m - 1 \in T
      PROVE  m \in T
  <2>1. PICK f \in [0..(m - 1) -> S] : Steps(m - 1, f)
    BY <1>2
  <2> DEFINE g == [i \in 0..m |-> IF i = m THEN step[<<m, f[m - 1]>>] ELSE f[i]]
  <2>2. f[m - 1] \in S
    BY <2>1
  <2>3. <<m, f[m - 1]>> \in (1..n) \X S
    BY <2>2
  <2>4. g \in [0..m -> S]
    BY <2>1, <2>3
  <2>5. Steps(m, g)
    <3>1. g[0] = base
      BY <2>1
    <3>2. ASSUME NEW i \in 1..m
          PROVE  g[i] = step[<<i, g[i - 1]>>]
      <4>1. CASE i = m
        <5>1. g[m] = step[<<m, f[m - 1]>>] /\ g[m - 1] = f[m - 1]
          BY m \in 1..n
        <5> QED
          BY <4>1, <5>1
      <4>2. CASE i # m
        <5>1. i \in 1..(m - 1) /\ i - 1 \in 0..(m - 1) /\ i - 1 # m
          BY <4>2
        <5>2. g[i] = f[i] /\ g[i - 1] = f[i - 1]
          BY <4>2, <5>1
        <5> QED
          BY <2>1, <5>1, <5>2
      <4> QED
        BY <4>1, <4>2
    <3> QED
      BY <3>1, <3>2
  <2>6. m \in 0..n
    OBVIOUS
  <2> HIDE DEF Steps, g
  <2> QED
    BY <2>4, <2>5, <2>6
<1> HIDE DEF T
<1>3. 0..n \subseteq T
  BY <1>1, <1>2, UpToAll
<1>4. n \in T
  BY <1>3
<1> QED
  BY <1>4 DEF T, GoesBy

-----------------------------------------------------------------------------
(* Buffers.                                                                *)

(* Sets of positions are finite. *)
LEMMA PositionsFinite ==
  ASSUME NEW n \in Nat, NEW S \in SUBSET (1..n)
  PROVE  /\ IsFiniteSet(S)
         /\ Cardinality(S) \in 0..n
<1>1. IsFiniteSet(1..n) /\ Cardinality(1..n) = n
  BY FS_Interval
<1>2. IsFiniteSet(S) /\ Cardinality(S) <= n
  BY <1>1, FS_Subset
<1>3. Cardinality(S) \in Nat
  BY <1>2, FS_CardinalityType
<1> QED BY <1>2, <1>3

(* A position has a rank from 1 to the number of positions, and a position *)
(* behind it has a greater one.                                            *)
LEMMA RankGrows ==
  ASSUME NEW n \in Nat, NEW S \in SUBSET (1..n), NEW i \in S
  PROVE  /\ Rank(S, i) \in 1..Cardinality(S)
         /\ \A j \in S : i < j => Rank(S, i) < Rank(S, j)
<1> DEFINE Upto(k) == {x \in S : x <= k}
<1>1. IsFiniteSet(S) /\ Cardinality(S) \in Nat
  BY PositionsFinite
<1>2. \A k \in S : /\ Upto(k) \in SUBSET S
                   /\ IsFiniteSet(Upto(k))
                   /\ Cardinality(Upto(k)) \in Nat
                   /\ Cardinality(Upto(k)) <= Cardinality(S)
  BY <1>1, FS_Subset, FS_CardinalityType
<1>3. Cardinality(Upto(i)) >= 1
  <2>1. i \in Upto(i)
    OBVIOUS
  <2>2. Cardinality(Upto(i)) # 0
    BY <2>1, <1>2, FS_EmptySet
  <2> QED BY <2>2, <1>2
<1>4. ASSUME NEW j \in S, i < j PROVE Cardinality(Upto(i)) < Cardinality(Upto(j))
  <2>1. Upto(i) \in SUBSET Upto(j)
    <3>1. i \in Nat /\ j \in Nat /\ \A x \in S : x \in Nat
      OBVIOUS
    <3>2. \A x \in S : x <= i => x <= j
      BY <3>1, <1>4
    <3> QED BY <3>2
  <2>2. j \in Upto(j) /\ j \notin Upto(i)
    BY <1>4
  <2>3. /\ Cardinality(Upto(i)) <= Cardinality(Upto(j))
        /\ Cardinality(Upto(j)) = Cardinality(Upto(i)) => Upto(j) = Upto(i)
    BY <2>1, <1>2, FS_Subset
  <2> QED BY <2>2, <2>3, <1>2
<1> QED BY <1>1, <1>2, <1>3, <1>4 DEF Rank

(* Every k up to the number of positions is the rank of one position.      *)
LEMMA NthExists ==
  ASSUME NEW n \in Nat, NEW S \in SUBSET (1..n), NEW k \in 1..Cardinality(S)
  PROVE  Nth(S, k) \in S /\ Rank(S, Nth(S, k)) = k
<1> DEFINE m == Cardinality(S)
           f == [i \in S |-> Rank(S, i)]
<1>1. IsFiniteSet(S) /\ m \in Nat
  BY PositionsFinite
<1>2. f \in [S -> 1..m]
  BY RankGrows
<1>3. ASSUME NEW i \in S, NEW j \in S, f[i] = f[j] PROVE i = j
  <2>1. i \in Nat /\ j \in Nat
    OBVIOUS
  <2>2. Rank(S, i) = Rank(S, j) /\ Rank(S, i) \in Nat
    BY <1>2, <1>3
  <2>3. i < j => Rank(S, i) < Rank(S, j)
    BY RankGrows
  <2>4. j < i => Rank(S, j) < Rank(S, i)
    BY RankGrows
  <2> QED BY <2>1, <2>2, <2>3, <2>4
<1>4. f \in Injection(S, 1..m)
  BY <1>2, <1>3 DEF Injection, IsInjective
<1>5. IsFiniteSet(1..m) /\ Cardinality(1..m) = m
  BY <1>1, FS_Interval
<1>6. f \in Surjection(S, 1..m)
  BY <1>4, <1>5, FS_Injection
<1>7. \E i \in S : f[i] = k
  BY <1>6 DEF Surjection
<1>8. \E i \in S : Rank(S, i) = k
  BY <1>7
<1> QED BY <1>8 DEF Nth

(* Select returns as many elements as positions are selected, each of them *)
(* from a selected position.                                               *)
LEMMA SelectElements ==
  ASSUME NEW E, NEW buf \in Seq(E), NEW S \in SUBSET DOMAIN buf
  PROVE  /\ Select(buf, S) \in Seq(E)
         /\ Len(Select(buf, S)) = Cardinality(S)
         /\ \A k \in 1..Cardinality(S) : \E i \in S : Select(buf, S)[k] = buf[i]
<1>1. Len(buf) \in Nat /\ DOMAIN buf = 1..Len(buf) /\ \A i \in DOMAIN buf : buf[i] \in E
  OBVIOUS
<1>2. Cardinality(S) \in Nat
  BY <1>1, PositionsFinite
<1>3. \A k \in 1..Cardinality(S) : Nth(S, k) \in S
  BY <1>1, NthExists
<1>4. \A k \in 1..Cardinality(S) : buf[Nth(S, k)] \in E
  BY <1>1, <1>3
<1>5. Select(buf, S) \in Seq(E) /\ Len(Select(buf, S)) = Cardinality(S)
  BY <1>2, <1>4 DEF Select
<1>6. \A k \in 1..Cardinality(S) : Select(buf, S)[k] = buf[Nth(S, k)]
  BY DEF Select
<1> QED BY <1>3, <1>5, <1>6

(* The elements of a session and those of the others are sequences of      *)
(* elements, together as many as before.                                   *)
LEMMA WithoutElements ==
  ASSUME NEW E, NEW buf \in Seq(E), NEW id
  PROVE  /\ Without(buf, id) \in Seq(E)
         /\ Only(buf, id) \in Seq(E)
         /\ Len(Without(buf, id)) + Len(Only(buf, id)) = Len(buf)
<1> DEFINE K == Kept(buf, id)
           O == Owned(buf, id)
<1>1. K \in SUBSET DOMAIN buf /\ O \in SUBSET DOMAIN buf
  BY DEF Kept, Owned
<1>2. Len(buf) \in Nat /\ DOMAIN buf = 1..Len(buf)
  OBVIOUS
<1>3. /\ Without(buf, id) \in Seq(E)
      /\ Len(Without(buf, id)) = Cardinality(K)
  BY <1>1, SelectElements DEF Without
<1>4. /\ Only(buf, id) \in Seq(E)
      /\ Len(Only(buf, id)) = Cardinality(O)
  BY <1>1, SelectElements DEF Only
<1>5. Cardinality(K) + Cardinality(O) = Len(buf)
  <2>1. IsFiniteSet(K) /\ IsFiniteSet(O) /\ Cardinality(K) \in Nat /\ Cardinality(O) \in Nat
    BY <1>1, <1>2, PositionsFinite
  <2>2. K \cup O = 1..Len(buf) /\ K \cap O = {}
    BY <1>2 DEF Kept, Owned
  <2>3. Cardinality(K \cup O) = Cardinality(K) + Cardinality(O) - Cardinality(K \cap O)
    BY <2>1, FS_Union
  <2>4. Cardinality(1..Len(buf)) = Len(buf)
    <3>1. 1 \in Int /\ Len(buf) \in Int /\ Len(buf) >= 0
      BY <1>2
    <3>2. Cardinality(1..Len(buf)) = IF 1 > Len(buf) THEN 0 ELSE Len(buf) - 1 + 1
      BY <3>1, FS_Interval
    <3> QED BY <3>1, <3>2
  <2>5. Cardinality(K \cap O) = 0
    BY <2>2, FS_EmptySet
  <2>6. Len(buf) = Cardinality(K) + Cardinality(O) - 0
    BY <2>2, <2>3, <2>4, <2>5
  <2> HIDE DEF K, O
  <2> QED BY <2>1, <2>6
<1> QED BY <1>3, <1>4, <1>5

(* Every element that is left was in the buffer and is of another session. *)
LEMMA WithoutOthers ==
  ASSUME NEW E, NEW buf \in Seq(E), NEW id, NEW k \in 1..Len(Without(buf, id))
  PROVE  \E i \in 1..Len(buf) : Without(buf, id)[k] = buf[i] /\ buf[i].id # id
<1> DEFINE K == Kept(buf, id)
<1>1. K \in SUBSET DOMAIN buf /\ DOMAIN buf = 1..Len(buf)
  BY DEF Kept
<1>2. Len(Select(buf, K)) = Cardinality(K) /\ k \in 1..Cardinality(K)
  BY <1>1, SelectElements DEF Without
<1>3. \E i \in K : Select(buf, K)[k] = buf[i]
  BY <1>1, <1>2, SelectElements
<1>4. \A i \in K : i \in 1..Len(buf) /\ buf[i].id # id
  BY <1>1 DEF Kept
<1> QED BY <1>3, <1>4 DEF Without

-----------------------------------------------------------------------------
(* Positions are naturals. *)
LEMMA PositionsNatural ==
  ASSUME NEW n \in Nat, NEW S \in SUBSET (1..n)
  PROVE  \A x \in S : x \in Nat /\ x >= 1 /\ x <= n
OBVIOUS

(* f enumerates the m members of S, which are positions 1 to n, in         *)
(* ascending order.                                                        *)
Enumerates(f, m, S, n) ==
  /\ n \in Nat /\ m \in Nat /\ S \in SUBSET (1..n)
  /\ \A i \in 1..m : f[i] \in S
  /\ \A i, j \in 1..m : i < j => f[i] < f[j]
  /\ \A x \in S : \E i \in 1..m : f[i] = x

(* There is one way only to enumerate positions in ascending order, so Nth *)
(* of a set of positions is known as soon as some enumeration of it is.    *)
LEMMA EnumerationIsNth ==
  ASSUME NEW n, NEW S, NEW m, NEW f, Enumerates(f, m, S, n)
  PROVE  Cardinality(S) = m /\ \A k \in 1..m : Nth(S, k) = f[k]
<1> USE DEF Enumerates
<1>0. \A i \in 1..m : f[i] \in Nat
  BY PositionsNatural
<1>1. ASSUME NEW i \in 1..m, NEW j \in 1..m
      PROVE  (f[i] = f[j] => i = j) /\ (f[i] <= f[j] <=> i <= j)
  <2>1. f[i] \in Nat /\ f[j] \in Nat /\ i \in Nat /\ j \in Nat
    BY <1>0
  <2>2. (i < j => f[i] < f[j]) /\ (j < i => f[j] < f[i])
    OBVIOUS
  <2> QED BY ONLY <2>1, <2>2
<1>2. ASSUME NEW k \in 0..m
      PROVE  Cardinality({x \in S : \E i \in 1..k : x = f[i]}) = k
  <2> DEFINE T == {x \in S : \E i \in 1..k : x = f[i]}
             g == [i \in 1..k |-> f[i]]
  <2>1. k \in Nat /\ \A i \in 1..k : i \in 1..m
    OBVIOUS
  <2>2. g \in [1..k -> T]
    BY <2>1
  <2>3. \A i, j \in 1..k : g[i] = g[j] => i = j
    BY <1>1, <2>1
  <2>4. \A x \in T : \E i \in 1..k : g[i] = x
    OBVIOUS
  <2> HIDE DEF T, g
  <2>5. g \in Surjection(1..k, T) /\ g \in Injection(1..k, T)
    BY <2>2, <2>3, <2>4 DEF Surjection, Injection, IsInjective
  <2>6. ExistsBijection(1..k, T)
    BY <2>5 DEF ExistsBijection, Bijection
  <2>7. IsFiniteSet(1..k) /\ Cardinality(1..k) = k
    BY <2>1, FS_Interval
  <2>8. Cardinality(T) = Cardinality(1..k)
    BY <2>6, <2>7, FS_Bijection
  <2> QED BY <2>7, <2>8 DEF T
<1>3. Cardinality(S) = m
  <2>1. {x \in S : \E i \in 1..m : x = f[i]} = S
    OBVIOUS
  <2>2. m \in 0..m
    OBVIOUS
  <2> QED BY <2>1, <2>2, <1>2
<1>4. ASSUME NEW k \in 1..m PROVE Nth(S, k) = f[k]
  <2>0. k \in 1..Cardinality(S) /\ f[k] \in S /\ f[k] \in Nat /\ k \in Nat
    BY <1>0, <1>3
  <2>1. Rank(S, f[k]) = k
    <3>1. ASSUME NEW x \in S PROVE x <= f[k] <=> \E i \in 1..k : x = f[i]
      <4>1. PICK i \in 1..m : f[i] = x
        OBVIOUS
      <4>2. x <= f[k] <=> i <= k
        BY <4>1, <1>1
      <4>3. i <= k => i \in 1..k
        BY <2>0
      <4>4. \A j \in 1..k : j \in 1..m /\ j <= k
        OBVIOUS
      <4>5. \A j \in 1..k : x = f[j] => i = j
        BY <4>1, <4>4, <1>1
      <4> QED BY <4>1, <4>2, <4>3, <4>4, <4>5
    <3>2. {x \in S : x <= f[k]} = {x \in S : \E i \in 1..k : x = f[i]}
      BY <3>1
    <3>3. k \in 0..m
      OBVIOUS
    <3> QED BY <3>2, <3>3, <1>2 DEF Rank
  <2>2. Nth(S, k) \in S /\ Rank(S, Nth(S, k)) = k
    BY <2>0, NthExists
  <2>3. /\ f[k] < Nth(S, k) => Rank(S, f[k]) < Rank(S, Nth(S, k))
        /\ Nth(S, k) < f[k] => Rank(S, Nth(S, k)) < Rank(S, f[k])
    BY <2>0, <2>2, RankGrows
  <2>4. Nth(S, k) \in Nat
    BY <2>2, PositionsNatural
  <2> QED BY ONLY <2>0, <2>1, <2>2, <2>3, <2>4
<1> QED BY <1>3, <1>4

(* Nth enumerates the positions in ascending order. *)
LEMMA NthEnumerates ==
  ASSUME NEW n \in Nat, NEW S \in SUBSET (1..n)
  PROVE  /\ Cardinality(S) \in Nat
         /\ Cardinality(S) <= n
         /\ \A k \in 1..Cardinality(S) : Nth(S, k) \in S /\ Nth(S, k) \in Nat
         /\ \A i, j \in 1..Cardinality(S) : i < j => Nth(S, i) < Nth(S, j)
         /\ \A x \in S : \E k \in 1..Cardinality(S) : Nth(S, k) = x
<1>1. Cardinality(S) \in Nat /\ Cardinality(S) <= n
  BY PositionsFinite
<1>2. \A k \in 1..Cardinality(S) :
        Nth(S, k) \in S /\ Rank(S, Nth(S, k)) = k /\ Nth(S, k) \in Nat
  BY NthExists, PositionsNatural
<1>3. ASSUME NEW i \in 1..Cardinality(S), NEW j \in 1..Cardinality(S), i < j
      PROVE  Nth(S, i) < Nth(S, j)
  <2>1. Nth(S, i) \in Nat /\ Nth(S, j) \in Nat /\ i \in Nat /\ j \in Nat
    BY <1>2
  <2>2. Nth(S, j) < Nth(S, i) => Rank(S, Nth(S, j)) < Rank(S, Nth(S, i))
    BY <1>2, RankGrows
  <2>3. Rank(S, Nth(S, i)) = i /\ Rank(S, Nth(S, j)) = j
    BY <1>2
  <2> QED BY ONLY <1>3, <2>1, <2>2, <2>3
<1>4. ASSUME NEW x \in S PROVE \E k \in 1..Cardinality(S) : Nth(S, k) = x
  <2> DEFINE y == Nth(S, Rank(S, x))
  <2>1. Rank(S, x) \in 1..Cardinality(S)
    BY RankGrows
  <2>2. y \in S /\ Rank(S, y) = Rank(S, x) /\ y \in Nat
    BY <2>1, <1>2
  <2>3. x < y => Rank(S, x) < Rank(S, y)
    BY <2>2, RankGrows
  <2>4. y < x => Rank(S, y) < Rank(S, x)
    BY <2>2, RankGrows
  <2>5. x \in Nat /\ Rank(S, x) \in Nat
    BY <2>1, PositionsNatural
  <2> HIDE DEF y
  <2>6. x = y
    BY ONLY <2>2, <2>3, <2>4, <2>5
  <2> QED BY <2>1, <2>6 DEF y
<1> QED BY <1>1, <1>2, <1>3, <1>4

(* A position behind all the others is the last one. *)
LEMMA NthOfAppended ==
  ASSUME NEW n \in Nat, NEW S \in SUBSET (1..n)
  PROVE  /\ Cardinality(S \cup {n + 1}) = Cardinality(S) + 1
         /\ \A k \in 1..Cardinality(S) : Nth(S \cup {n + 1}, k) = Nth(S, k)
         /\ Nth(S \cup {n + 1}, Cardinality(S) + 1) = n + 1
<1> DEFINE c == Cardinality(S)
           U == S \cup {n + 1}
           f == [k \in 1..(c + 1) |-> IF k = c + 1 THEN n + 1 ELSE Nth(S, k)]
<1>1. /\ c \in Nat
      /\ \A k \in 1..c : Nth(S, k) \in S /\ Nth(S, k) \in Nat
      /\ \A i, j \in 1..c : i < j => Nth(S, i) < Nth(S, j)
      /\ \A x \in S : \E k \in 1..c : Nth(S, k) = x
  BY NthEnumerates
<1> HIDE DEF c
<1>2. U \in SUBSET (1..(n + 1)) /\ n + 1 \in Nat /\ c + 1 \in Nat
  BY <1>1
<1>3. /\ \A k \in 1..c : k \in 1..(c + 1) /\ k # c + 1
      /\ c + 1 \in 1..(c + 1)
      /\ \A k \in 1..(c + 1) : k # c + 1 => k \in 1..c
  BY <1>1
<1>4. (\A k \in 1..c : f[k] = Nth(S, k)) /\ f[c + 1] = n + 1
  BY <1>3
<1> HIDE DEF f
<1>5. \A k \in 1..(c + 1) : f[k] \in U
  BY <1>1, <1>3, <1>4
<1>6. ASSUME NEW i \in 1..(c + 1), NEW j \in 1..(c + 1), i < j PROVE f[i] < f[j]
  <2>1. i \in 1..c
    BY <1>1, <1>6
  <2>2. CASE j = c + 1
    <3>1. f[i] \in S /\ f[j] = n + 1
      BY <2>1, <2>2, <1>1, <1>4
    <3>2. f[i] \in Nat /\ f[i] <= n
      BY <3>1, PositionsNatural
    <3> QED BY <3>1, <3>2
  <2>3. CASE j # c + 1
    <3>1. j \in 1..c
      BY <2>3, <1>3
    <3> QED BY <3>1, <2>1, <1>1, <1>4, <1>6
  <2> QED BY <2>2, <2>3
<1>7. ASSUME NEW x \in U PROVE \E i \in 1..(c + 1) : f[i] = x
  <2>1. CASE x = n + 1
    BY <2>1, <1>3, <1>4
  <2>2. CASE x \in S
    <3>1. PICK k \in 1..c : Nth(S, k) = x
      BY <1>1, <2>2
    <3> QED BY <3>1, <1>3, <1>4
  <2> QED BY <2>1, <2>2
<1> HIDE DEF U
<1>8. Cardinality(U) = c + 1 /\ \A k \in 1..(c + 1) : Nth(U, k) = f[k]
  <2>1. \A i, j \in 1..(c + 1) : i < j => f[i] < f[j]
    BY <1>6
  <2>2. \A x \in U : \E i \in 1..(c + 1) : f[i] = x
    BY <1>7
  <2>3. Enumerates(f, c + 1, U, n + 1)
    BY <2>1, <2>2, <1>2, <1>5 DEF Enumerates
  <2> QED BY <2>3, EnumerationIsNth
<1> QED BY <1>3, <1>4, <1>8 DEF c, U

(* Without the first of the positions the others move up one rank. *)
LEMMA NthOfRest ==
  ASSUME NEW n \in Nat, NEW S \in SUBSET (1..n), S # {}
  PROVE  /\ Cardinality(S) - 1 \in Nat
         /\ Nth(S, 1) \in S
         /\ \A x \in S : Nth(S, 1) <= x
         /\ Cardinality(S \ {Nth(S, 1)}) = Cardinality(S) - 1
         /\ \A k \in 1..(Cardinality(S) - 1) : Nth(S \ {Nth(S, 1)}, k) = Nth(S, k + 1)
<1> DEFINE c == Cardinality(S)
           T == S \ {Nth(S, 1)}
           f == [k \in 1..(c - 1) |-> Nth(S, k + 1)]
<1>1. /\ c \in Nat
      /\ \A k \in 1..c : Nth(S, k) \in S /\ Nth(S, k) \in Nat
      /\ \A i, j \in 1..c : i < j => Nth(S, i) < Nth(S, j)
      /\ \A x \in S : \E k \in 1..c : Nth(S, k) = x
  BY NthEnumerates
<1> HIDE DEF c
<1>2. c \in Nat /\ c >= 1
  <2>1. \E x \in S : TRUE
    OBVIOUS
  <2>2. \E k \in 1..c : TRUE
    BY <2>1, <1>1
  <2> QED BY <2>2, <1>1
<1>3. T \in SUBSET (1..n) /\ c - 1 \in Nat /\ 1 \in 1..c
  <2>1. T \in SUBSET (1..n)
    OBVIOUS
  <2>2. c - 1 \in Nat /\ 1 \in 1..c
    BY ONLY <1>2
  <2> QED BY <2>1, <2>2
<1>4. /\ \A k \in 1..(c - 1) : k \in Nat /\ k + 1 \in 1..c /\ 1 < k + 1
      /\ \A k \in 1..c : k # 1 => 1 < k /\ k - 1 \in 1..(c - 1) /\ (k - 1) + 1 = k
  BY <1>2
<1>5. \A k \in 1..(c - 1) : f[k] = Nth(S, k + 1)
  OBVIOUS
<1>6. \A x \in S : x \in Nat
  BY PositionsNatural
<1>7. ASSUME NEW k \in 1..(c - 1) PROVE f[k] \in T
  <2>1. Nth(S, 1) < Nth(S, k + 1) /\ Nth(S, k + 1) \in S
    BY <1>1, <1>3, <1>4
  <2>2. Nth(S, 1) \in Nat /\ Nth(S, k + 1) \in Nat
    BY <1>1, <1>3, <1>4
  <2>3. Nth(S, 1) # Nth(S, k + 1)
    BY ONLY <2>1, <2>2
  <2> QED BY <2>1, <2>3, <1>5
<1>8. ASSUME NEW i \in 1..(c - 1), NEW j \in 1..(c - 1), i < j PROVE f[i] < f[j]
  <2>1. i + 1 \in 1..c /\ j + 1 \in 1..c /\ i + 1 < j + 1
    BY <1>4, <1>8
  <2> QED BY <2>1, <1>1, <1>5
<1>9. ASSUME NEW x \in T PROVE \E i \in 1..(c - 1) : f[i] = x
  <2>1. PICK k \in 1..c : Nth(S, k) = x
    BY <1>1
  <2>2. k # 1
    BY <2>1
  <2>3. k - 1 \in 1..(c - 1) /\ (k - 1) + 1 = k
    BY <2>2, <1>4
  <2>4. f[k - 1] = x
    BY <2>1, <2>3, <1>5
  <2> QED BY <2>3, <2>4
<1>10. ASSUME NEW x \in S PROVE Nth(S, 1) <= x
  <2>1. PICK k \in 1..c : Nth(S, k) = x
    BY <1>1
  <2>2. Nth(S, 1) \in Nat /\ x \in Nat
    BY <1>1, <1>3, <1>6
  <2>3. CASE k = 1
    BY <2>1, <2>2, <2>3
  <2>4. CASE k # 1
    <3>1. Nth(S, 1) < x
      BY <2>1, <2>4, <1>1, <1>3, <1>4
    <3> QED BY <3>1, <2>2
  <2> QED BY <2>3, <2>4
<1> HIDE DEF f, T
<1>11. Cardinality(T) = c - 1 /\ \A k \in 1..(c - 1) : Nth(T, k) = f[k]
  <2>1. \A i \in 1..(c - 1) : f[i] \in T
    BY <1>7
  <2>2. \A i, j \in 1..(c - 1) : i < j => f[i] < f[j]
    BY <1>8
  <2>3. \A x \in T : \E i \in 1..(c - 1) : f[i] = x
    BY <1>9
  <2>4. Enumerates(f, c - 1, T, n)
    BY <1>3, <2>1, <2>2, <2>3 DEF Enumerates
  <2> QED BY <2>4, EnumerationIsNth
<1> QED BY <1>1, <1>3, <1>5, <1>10, <1>11 DEF c, T

(* When the first place goes, every position moves down by one. *)
LEMMA NthOfShifted ==
  ASSUME NEW n \in Nat, NEW S \in SUBSET (1..n), 1 \notin S
  PROVE  LET T == {i \in 1..(n - 1) : i + 1 \in S}
         IN  /\ Cardinality(T) = Cardinality(S)
             /\ \A k \in 1..Cardinality(S) : Nth(T, k) \in T /\ Nth(T, k) + 1 = Nth(S, k)
<1> DEFINE c == Cardinality(S)
           T == {i \in 1..(n - 1) : i + 1 \in S}
           f == [k \in 1..c |-> Nth(S, k) - 1]
<1>1. /\ c \in Nat
      /\ \A k \in 1..c : Nth(S, k) \in S /\ Nth(S, k) \in Nat
      /\ \A i, j \in 1..c : i < j => Nth(S, i) < Nth(S, j)
      /\ \A x \in S : \E k \in 1..c : Nth(S, k) = x
  BY NthEnumerates
<1> HIDE DEF c
<1>2. T \in SUBSET (1..n)
  OBVIOUS
<1>3. ASSUME NEW x \in S PROVE x - 1 \in T /\ x \in Nat /\ (x - 1) + 1 = x
  <2>1. x \in Nat /\ x <= n /\ x >= 1 /\ x # 1
    BY PositionsNatural
  <2>2. x - 1 \in 1..(n - 1) /\ (x - 1) + 1 = x
    BY <2>1
  <2> QED BY <2>1, <2>2
<1>4. \A k \in 1..c : f[k] = Nth(S, k) - 1 /\ f[k] \in T /\ f[k] + 1 = Nth(S, k)
  BY <1>1, <1>3
<1>5. ASSUME NEW i \in 1..c, NEW j \in 1..c, i < j PROVE f[i] < f[j]
  <2>1. Nth(S, i) \in Nat /\ Nth(S, j) \in Nat /\ Nth(S, i) < Nth(S, j)
    BY <1>1, <1>5
  <2>2. Nth(S, i) - 1 < Nth(S, j) - 1
    BY ONLY <2>1
  <2> QED BY <2>2, <1>4
<1>6. ASSUME NEW x \in T PROVE \E i \in 1..c : f[i] = x
  <2>1. x + 1 \in S /\ x \in Nat /\ (x + 1) - 1 = x
    OBVIOUS
  <2>2. PICK k \in 1..c : Nth(S, k) = x + 1
    BY <1>1, <2>1
  <2> QED BY <2>1, <2>2
<1> HIDE DEF f, T
<1>7. Cardinality(T) = c /\ \A k \in 1..c : Nth(T, k) = f[k]
  <2>1. \A i \in 1..c : f[i] \in T
    BY <1>4
  <2>2. \A i, j \in 1..c : i < j => f[i] < f[j]
    BY <1>5
  <2>3. \A x \in T : \E i \in 1..c : f[i] = x
    BY <1>6
  <2>4. n \in Nat /\ c \in Nat
    BY <1>1
  <2>5. Enumerates(f, c, T, n)
    BY <1>2, <2>1, <2>2, <2>3, <2>4 DEF Enumerates
  <2> QED BY <2>5, EnumerationIsNth
<1> QED BY <1>4, <1>7 DEF c, T

(* Among the kept positions K, some of which are the positions O, O is     *)
(* enumerated in the same order as before.                                 *)
LEMMA NthOfKept ==
  ASSUME NEW n \in Nat, NEW K \in SUBSET (1..n), NEW O \in SUBSET K
  PROVE  LET T == {k \in 1..Cardinality(K) : Nth(K, k) \in O}
         IN  /\ Cardinality(T) = Cardinality(O)
             /\ \A k \in 1..Cardinality(O) :
                  Nth(T, k) \in 1..Cardinality(K) /\ Nth(K, Nth(T, k)) = Nth(O, k)
<1> DEFINE c == Cardinality(K)
           d == Cardinality(O)
           T == {k \in 1..c : Nth(K, k) \in O}
           f == [k \in 1..d |-> Rank(K, Nth(O, k))]
<1>1. /\ c \in Nat
      /\ \A k \in 1..c : Nth(K, k) \in K
      /\ \A x \in K : \E k \in 1..c : Nth(K, k) = x
  BY NthEnumerates
<1>2. O \in SUBSET (1..n)
  OBVIOUS
<1>3. /\ d \in Nat
      /\ \A k \in 1..d : Nth(O, k) \in O
      /\ \A i, j \in 1..d : i < j => Nth(O, i) < Nth(O, j)
      /\ \A x \in O : \E k \in 1..d : Nth(O, k) = x
  BY <1>2, NthEnumerates
<1>4. \A x \in K : Rank(K, x) \in 1..c /\ \A y \in K : x < y => Rank(K, x) < Rank(K, y)
  BY RankGrows
<1>5. \A k \in 1..c : Rank(K, Nth(K, k)) = k
  BY NthExists
<1> HIDE DEF c, d
<1>6. ASSUME NEW x \in K PROVE Nth(K, Rank(K, x)) = x
  <2>1. PICK k \in 1..c : Nth(K, k) = x
    BY <1>1
  <2> QED BY <2>1, <1>5
<1>7. T \in SUBSET (1..c)
  OBVIOUS
<1>8. \A k \in 1..d : f[k] = Rank(K, Nth(O, k)) /\ Nth(O, k) \in K
  BY <1>3
<1> HIDE DEF f
<1>9. \A k \in 1..d : f[k] \in T /\ f[k] \in 1..c /\ Nth(K, f[k]) = Nth(O, k)
  BY <1>3, <1>4, <1>6, <1>8
<1>10. \A i, j \in 1..d : i < j => f[i] < f[j]
  BY <1>3, <1>4, <1>8
<1>11. ASSUME NEW x \in T PROVE \E i \in 1..d : f[i] = x
  <2>1. x \in 1..c /\ Nth(K, x) \in O
    OBVIOUS
  <2>2. PICK i \in 1..d : Nth(O, i) = Nth(K, x)
    BY <2>1, <1>3
  <2>3. f[i] = x
    BY <2>1, <2>2, <1>5, <1>8
  <2> QED BY <2>3
<1> HIDE DEF T
<1>12. Cardinality(T) = d /\ \A k \in 1..d : Nth(T, k) = f[k]
  <2>1. \A i \in 1..d : f[i] \in T
    BY <1>9
  <2>2. \A x \in T : \E i \in 1..d : f[i] = x
    BY <1>11
  <2>3. c \in Nat /\ d \in Nat
    BY <1>1, <1>3
  <2>4. Enumerates(f, d, T, c)
    BY <1>7, <1>10, <2>1, <2>2, <2>3 DEF Enumerates
  <2> QED BY <2>4, EnumerationIsNth
<1> QED BY <1>9, <1>12 DEF c, d, T

-----------------------------------------------------------------------------
(* The head and the tail of two sequences in a row. *)
LEMMA HeadTailOfConcat ==
  ASSUME NEW S, NEW s \in Seq(S), NEW t \in Seq(S), s # <<>>
  PROVE  /\ s \o t # <<>>
         /\ Head(s \o t) = s[1]
         /\ Tail(s \o t) = Tail(s) \o t
<1>1. /\ s \o t \in Seq(S) /\ Len(s \o t) = Len(s) + Len(t)
      /\ \A i \in 1..(Len(s) + Len(t)) : (s \o t)[i] = IF i <= Len(s) THEN s[i] ELSE t[i - Len(s)]
  BY ConcatProperties
<1>2. Len(s) \in Nat \ {0} /\ Len(t) \in Nat
  BY EmptySeq, LenProperties
<1>3. s \o t # <<>>
  <2>1. Len(s \o t) # 0
    BY <1>1, <1>2
  <2> QED BY <2>1, EmptySeq
<1>4. Head(s \o t) = s[1]
  <2>1. Head(s \o t) = (s \o t)[1]
    BY <1>1, <1>3
  <2> QED BY <2>1, <1>1, <1>2
<1>5. /\ Tail(s) \in Seq(S) /\ Len(Tail(s)) = Len(s) - 1
      /\ \A i \in 1..Len(Tail(s)) : Tail(s)[i] = s[i + 1]
  BY HeadTailProperties
<1>6. /\ Tail(s \o t) \in Seq(S) /\ Len(Tail(s \o t)) = Len(s) + Len(t) - 1
      /\ \A i \in 1..Len(Tail(s \o t)) : Tail(s \o t)[i] = (s \o t)[i + 1]
  BY <1>1, <1>3, HeadTailProperties
<1>7. /\ Tail(s) \o t \in Seq(S)
      /\ Len(Tail(s) \o t) = Len(Tail(s)) + Len(t)
      /\ \A i \in 1..(Len(Tail(s)) + Len(t)) :
           (Tail(s) \o t)[i] = IF i <= Len(Tail(s)) THEN Tail(s)[i] ELSE t[i - Len(Tail(s))]
  BY <1>5, ConcatProperties
<1>8. Tail(s \o t) = Tail(s) \o t
  <2>1. Len(Tail(s \o t)) = Len(Tail(s) \o t)
    BY <1>2, <1>5, <1>6, <1>7
  <2>2. ASSUME NEW i \in 1..Len(Tail(s \o t)) PROVE Tail(s \o t)[i] = (Tail(s) \o t)[i]
    <3>1. i \in 1..(Len(s) + Len(t) - 1) /\ i + 1 \in 1..(Len(s) + Len(t))
      BY <1>2, <1>6, <2>2
    <3>2. CASE i + 1 <= Len(s)
      <4>1. i <= Len(Tail(s)) /\ i \in 1..Len(Tail(s)) /\ i \in 1..(Len(Tail(s)) + Len(t))
        BY <3>1, <3>2, <1>2, <1>5
      <4>2. Tail(s \o t)[i] = s[i + 1]
        BY <3>1, <3>2, <1>1, <1>6
      <4>3. (Tail(s) \o t)[i] = s[i + 1]
        BY <4>1, <1>5, <1>7
      <4> QED BY <4>2, <4>3
    <3>3. CASE ~(i + 1 <= Len(s))
      <4>1. ~(i <= Len(Tail(s))) /\ i \in 1..(Len(Tail(s)) + Len(t))
            /\ i - Len(Tail(s)) = (i + 1) - Len(s)
        BY <3>1, <3>3, <1>2, <1>5
      <4>2. Tail(s \o t)[i] = t[(i + 1) - Len(s)]
        BY <3>1, <3>3, <1>1, <1>6
      <4>3. (Tail(s) \o t)[i] = t[i - Len(Tail(s))]
        BY <4>1, <1>7
      <4> QED BY <4>1, <4>2, <4>3
    <3> QED BY <3>2, <3>3
  <2> QED BY <2>1, <2>2, <1>6, <1>7, SeqEqual
<1> QED BY <1>3, <1>4, <1>8

(* The hashes of a session in a buffer are as many as its elements. *)
LEMMA HashesOfType ==
  ASSUME NEW E, NEW H, \A x \in E : x.hash \in H, NEW buf \in Seq(E), NEW id
  PROVE  /\ Owned(buf, id) \in SUBSET (1..Len(buf))
         /\ Cardinality(Owned(buf, id)) \in Nat
         /\ HashesOf(buf, id) \in Seq(H)
         /\ Len(HashesOf(buf, id)) = Cardinality(Owned(buf, id))
         /\ DOMAIN HashesOf(buf, id) = 1..Cardinality(Owned(buf, id))
<1>1. Len(buf) \in Nat /\ \A i \in 1..Len(buf) : buf[i] \in E
  OBVIOUS
<1>2. Owned(buf, id) \in SUBSET (1..Len(buf))
  BY DEF Owned
<1>3. /\ Cardinality(Owned(buf, id)) \in Nat
      /\ \A k \in 1..Cardinality(Owned(buf, id)) : Nth(Owned(buf, id), k) \in 1..Len(buf)
  BY <1>1, <1>2, NthEnumerates
<1>4. \A k \in 1..Cardinality(Owned(buf, id)) : buf[Nth(Owned(buf, id), k)].hash \in H
  BY <1>1, <1>3
<1> QED BY <1>2, <1>3, <1>4 DEF HashesOf

(* A buffer that has no element of the session has no hash of it. *)
LEMMA HashesOfNone ==
  ASSUME NEW buf, NEW id, \A i \in DOMAIN buf : buf[i].id # id
  PROVE  HashesOf(buf, id) = <<>>
<1>1. Owned(buf, id) = {}
  BY DEF Owned
<1>2. Cardinality(Owned(buf, id)) = 0
  BY <1>1, FS_EmptySet
<1> QED BY <1>2 DEF HashesOf

LEMMA HashesOfEmpty == \A id : HashesOf(<<>>, id) = <<>>
<1>1. DOMAIN <<>> = {}
  OBVIOUS
<1>2. ASSUME NEW id PROVE HashesOf(<<>>, id) = <<>>
  <2>1. Owned(<<>>, id) = {}
    BY <1>1 DEF Owned
  <2>2. Cardinality(Owned(<<>>, id)) = 0
    BY <2>1, FS_EmptySet
  <2> QED BY <2>2 DEF HashesOf
<1> QED BY <1>2

(* An element that is appended is the last one of its session. *)
LEMMA HashesOfAppended ==
  ASSUME NEW E, NEW buf \in Seq(E), NEW e \in E, NEW id
  PROVE  /\ e.id = id => HashesOf(Append(buf, e), id) = Append(HashesOf(buf, id), e.hash)
         /\ e.id # id => HashesOf(Append(buf, e), id) = HashesOf(buf, id)
<1> DEFINE H == {x.hash : x \in E}
           n == Len(buf)
           S == Owned(buf, id)
           c == Cardinality(S)
           b == Append(buf, e)
<1>0. \A x \in E : x.hash \in H
  OBVIOUS
<1> HIDE DEF H
<1>1. /\ n \in Nat /\ b \in Seq(E) /\ Len(b) = n + 1
      /\ \A i \in 1..n : b[i] = buf[i]
      /\ b[n + 1] = e
  OBVIOUS
<1>2. S \in SUBSET (1..n) /\ c \in Nat /\ HashesOf(buf, id) \in Seq(H) /\ Len(HashesOf(buf, id)) = c
  BY <1>0, HashesOfType
<1>3. \A k \in 1..c : Nth(S, k) \in S /\ Nth(S, k) \in 1..n
  BY <1>1, <1>2, NthEnumerates
<1>4. Owned(b, id) = IF e.id = id THEN S \cup {n + 1} ELSE S
  <2>1. DOMAIN b = 1..(n + 1) /\ DOMAIN buf = 1..n
    BY <1>1
  <2>2. \A i \in 1..(n + 1) : i \in 1..n \/ i = n + 1
    BY <1>1
  <2>3. \A i \in 1..n : i \in 1..(n + 1) /\ i # n + 1
    BY <1>1
  <2> HIDE DEF b, n
  <2> QED BY <1>1, <2>1, <2>2, <2>3 DEF Owned
<1>5. \A k \in 1..c : HashesOf(buf, id)[k] = buf[Nth(S, k)].hash
  BY DEF HashesOf
<1> HIDE DEF n, b, c
<1>6. CASE e.id # id
  <2>1. \A k \in 1..c : b[Nth(S, k)].hash = buf[Nth(S, k)].hash
    BY <1>1, <1>3
  <2>2. Owned(b, id) = S
    BY <1>4, <1>6
  <2>3. HashesOf(b, id) = [k \in 1..c |-> b[Nth(S, k)].hash]
    BY <2>2 DEF HashesOf, c
  <2>4. HashesOf(buf, id) = [k \in 1..c |-> buf[Nth(S, k)].hash]
    BY DEF HashesOf, c
  <2> HIDE DEF S
  <2>5. HashesOf(b, id) = HashesOf(buf, id)
    BY <2>1, <2>3, <2>4
  <2> QED BY <2>5, <1>6 DEF b
<1>7. CASE e.id = id
  <2> DEFINE U == S \cup {n + 1}
  <2>1. Owned(b, id) = U
    BY <1>4, <1>7
  <2>2. /\ Cardinality(U) = c + 1
        /\ \A k \in 1..c : Nth(U, k) = Nth(S, k)
        /\ Nth(U, c + 1) = n + 1
    BY <1>1, <1>2, NthOfAppended DEF c
  <2>3. HashesOf(b, id) = [k \in 1..(c + 1) |-> b[Nth(U, k)].hash]
    BY <2>1, <2>2 DEF HashesOf
  <2> HIDE DEF U, S
  <2>4. \A k \in 1..c : k \in 1..(c + 1) /\ HashesOf(b, id)[k] = HashesOf(buf, id)[k]
    <3>1. ASSUME NEW k \in 1..c
          PROVE  k \in 1..(c + 1) /\ HashesOf(b, id)[k] = HashesOf(buf, id)[k]
      <4>1. k \in 1..(c + 1)
        BY <1>2
      <4>2. HashesOf(b, id)[k] = b[Nth(U, k)].hash
        BY <4>1, <2>3
      <4>3. Nth(U, k) = Nth(S, k) /\ b[Nth(S, k)] = buf[Nth(S, k)]
        BY <2>2, <1>1, <1>3
      <4> QED BY <4>1, <4>2, <4>3, <1>5
    <3> QED BY <3>1
  <2>5. HashesOf(b, id)[c + 1] = e.hash /\ HashesOf(b, id) \in Seq(H)
        /\ Len(HashesOf(b, id)) = c + 1
    <3>1. c + 1 \in 1..(c + 1)
      BY <1>2
    <3>2. HashesOf(b, id)[c + 1] = e.hash
      BY <3>1, <2>2, <2>3, <1>1
    <3>3. HashesOf(b, id) \in Seq(H)
      BY <1>1, <1>0, HashesOfType
    <3>4. DOMAIN HashesOf(b, id) = 1..(c + 1)
      BY <2>3
    <3>5. c + 1 \in Nat
      BY <1>2
    <3> QED BY <3>2, <3>3, <3>4, <3>5
  <2>6. e.hash \in H
    BY <1>0
  <2>7. HashesOf(b, id) = Append(HashesOf(buf, id), e.hash)
    BY <1>2, <2>4, <2>5, <2>6, SeqEqual, AppendProperties
  <2> QED BY <2>7, <1>7 DEF b
<1> QED BY <1>6, <1>7

(* The first element goes: its session has one hash less, the oldest one.  *)
LEMMA HashesOfTail ==
  ASSUME NEW E, NEW buf \in Seq(E), buf # <<>>, NEW id
  PROVE  /\ buf[1].id = id => /\ HashesOf(buf, id) # <<>>
                              /\ Head(HashesOf(buf, id)) = buf[1].hash
                              /\ HashesOf(Tail(buf), id) = Tail(HashesOf(buf, id))
         /\ buf[1].id # id => HashesOf(Tail(buf), id) = HashesOf(buf, id)
<1> DEFINE H == {x.hash : x \in E}
           n == Len(buf)
           S == Owned(buf, id)
           c == Cardinality(S)
           b == Tail(buf)
           T(R) == {i \in 1..(n - 1) : i + 1 \in R}
<1>0. \A x \in E : x.hash \in H
  OBVIOUS
<1> HIDE DEF H
<1>1. /\ n \in Nat /\ n >= 1 /\ b \in Seq(E) /\ Len(b) = n - 1
      /\ \A i \in 1..(n - 1) : b[i] = buf[i + 1]
  OBVIOUS
<1>2. S \in SUBSET (1..n) /\ c \in Nat /\ HashesOf(buf, id) \in Seq(H) /\ Len(HashesOf(buf, id)) = c
  BY <1>0, HashesOfType, ZenonT(30)
<1>3. HashesOf(buf, id) = [k \in 1..c |-> buf[Nth(S, k)].hash]
  BY DEF HashesOf
<1>4. DOMAIN b = 1..(n - 1) /\ DOMAIN buf = 1..n /\ 1 \in 1..n
      /\ \A i \in 1..(n - 1) : i + 1 \in 1..n /\ i + 1 # 1
  BY <1>1
<1>5. Owned(b, id) = T(S)
  <2> HIDE DEF b, n
  <2> QED BY <1>1, <1>4 DEF Owned
<1>6. 1 \in S <=> buf[1].id = id
  BY <1>4 DEF Owned
<1> HIDE DEF n, b, c, S
<1>7. CASE buf[1].id # id
  <2>1. /\ Cardinality(T(S)) = c
        /\ \A k \in 1..c : Nth(T(S), k) \in T(S) /\ Nth(T(S), k) + 1 = Nth(S, k)
    <3>1. 1 \notin S
      BY <1>6, <1>7
    <3> QED BY <3>1, <1>1, <1>2, NthOfShifted DEF c
  <2>2. \A k \in 1..c : b[Nth(T(S), k)] = buf[Nth(S, k)]
    BY <2>1, <1>1
  <2>3. HashesOf(b, id) = [k \in 1..c |-> b[Nth(T(S), k)].hash]
    BY <1>5, <2>1 DEF HashesOf
  <2> HIDE DEF T
  <2>4. HashesOf(b, id) = HashesOf(buf, id)
    BY <2>2, <2>3, <1>3
  <2> QED BY <2>4, <1>7 DEF b
<1>8. CASE buf[1].id = id
  <2> DEFINE R == S \ {1}
  <2>1. 1 \in S
    BY <1>6, <1>8
  <2>2. /\ c - 1 \in Nat
        /\ Nth(S, 1) \in S /\ \A x \in S : Nth(S, 1) <= x
        /\ Cardinality(S \ {Nth(S, 1)}) = c - 1
        /\ \A k \in 1..(c - 1) : Nth(S \ {Nth(S, 1)}, k) = Nth(S, k + 1)
    <3>1. S # {}
      BY <2>1
    <3> QED BY <3>1, <1>1, <1>2, NthOfRest DEF c
  <2>3. Nth(S, 1) = 1
    <3>1. Nth(S, 1) \in Nat /\ Nth(S, 1) >= 1 /\ Nth(S, 1) <= 1
      BY <1>1, <1>2, <2>1, <2>2, PositionsNatural
    <3> QED BY ONLY <3>1
  <2>4. /\ R \in SUBSET (1..n) /\ 1 \notin R
        /\ Cardinality(R) = c - 1
        /\ \A k \in 1..(c - 1) : Nth(R, k) = Nth(S, k + 1)
    BY <2>2, <2>3, <1>2
  <2>5. T(R) = T(S)
    BY <1>4
  <2>6. /\ Cardinality(T(S)) = c - 1
        /\ \A k \in 1..(c - 1) : Nth(T(S), k) \in T(S) /\ Nth(T(S), k) + 1 = Nth(S, k + 1)
    <3> HIDE DEF R
    <3>1. /\ Cardinality(T(R)) = Cardinality(R)
          /\ \A k \in 1..Cardinality(R) : Nth(T(R), k) \in T(R) /\ Nth(T(R), k) + 1 = Nth(R, k)
      BY <1>1, <2>4, NthOfShifted
    <3> QED BY <3>1, <2>4, <2>5
  <2>7. \A k \in 1..(c - 1) : b[Nth(T(S), k)] = buf[Nth(S, k + 1)]
    BY <2>6, <1>1
  <2>8. HashesOf(b, id) = [k \in 1..(c - 1) |-> b[Nth(T(S), k)].hash]
    BY <1>5, <2>6 DEF HashesOf
  <2> HIDE DEF T, R
  <2>9. 1 \in 1..c /\ \A k \in 1..(c - 1) : k + 1 \in 1..c
    BY <1>2, <2>2
  <2>10. HashesOf(buf, id) # <<>> /\ Head(HashesOf(buf, id)) = buf[1].hash
    <3>1. HashesOf(buf, id)[1] = buf[1].hash
      BY <1>3, <2>3, <2>9
    <3>2. HashesOf(buf, id) # <<>>
      BY <1>2, <2>9
    <3> QED BY <3>1, <3>2, <1>2
  <2>11. /\ Tail(HashesOf(buf, id)) \in Seq(H)
         /\ Len(Tail(HashesOf(buf, id))) = c - 1
         /\ \A k \in 1..(c - 1) : Tail(HashesOf(buf, id))[k] = HashesOf(buf, id)[k + 1]
    BY <1>2, <2>10, HeadTailProperties
  <2>12. HashesOf(b, id) \in Seq(H) /\ Len(HashesOf(b, id)) = c - 1
    <3>1. HashesOf(b, id) \in Seq(H) /\ Len(HashesOf(b, id)) = Cardinality(Owned(b, id))
      BY <1>1, <1>0, HashesOfType
    <3> QED BY <3>1, <1>5, <2>6
  <2>13. \A k \in 1..(c - 1) : HashesOf(b, id)[k] = Tail(HashesOf(buf, id))[k]
    <3>1. ASSUME NEW k \in 1..(c - 1)
          PROVE  HashesOf(b, id)[k] = Tail(HashesOf(buf, id))[k]
      <4>1. HashesOf(b, id)[k] = b[Nth(T(S), k)].hash
        BY <2>8
      <4>2. HashesOf(buf, id)[k + 1] = buf[Nth(S, k + 1)].hash
        BY <1>3, <2>9
      <4> QED BY <4>1, <4>2, <2>7, <2>11
    <3> QED BY <3>1
  <2>14. HashesOf(b, id) = Tail(HashesOf(buf, id))
    BY <2>11, <2>12, <2>13, SeqEqual
  <2> QED BY <2>10, <2>14, <1>8 DEF b
<1> QED BY <1>7, <1>8

(* buffer_reset() takes all the hashes of one session and leaves those of  *)
(* the others in their order.                                              *)
LEMMA HashesOfWithout ==
  ASSUME NEW E, NEW buf \in Seq(E), NEW id, NEW j
  PROVE  /\ id = j => HashesOf(Without(buf, j), id) = <<>>
         /\ id # j => HashesOf(Without(buf, j), id) = HashesOf(buf, id)
<1> DEFINE n == Len(buf)
           K == Kept(buf, j)
           O == Owned(buf, id)
           W == Without(buf, j)
           T == {k \in 1..Cardinality(K) : Nth(K, k) \in O}
<1>1. n \in Nat /\ DOMAIN buf = 1..n /\ K \in SUBSET (1..n)
  BY DEF Kept
<1>2. W = [k \in 1..Cardinality(K) |-> buf[Nth(K, k)]]
  BY DEF Without, Select
<1>3. \A k \in 1..Cardinality(K) : Nth(K, k) \in K
  BY <1>1, NthEnumerates
<1>4. \A k \in 1..Cardinality(K) : Nth(K, k) \in DOMAIN buf /\ buf[Nth(K, k)].id # j
  BY <1>3 DEF Kept
<1>5. CASE id = j
  <2>1. DOMAIN W = 1..Cardinality(K) /\ \A k \in DOMAIN W : W[k].id # id
    BY <1>2, <1>4, <1>5
  <2> QED BY <2>1, <1>5, HashesOfNone
<1>6. CASE id # j
  <2>1. O \in SUBSET K
    BY <1>6 DEF Kept, Owned
  <2>2. \A k \in 1..Cardinality(K) : W[k].id = id <=> Nth(K, k) \in O
    BY <1>2, <1>4 DEF Owned
  <2>3. Owned(W, id) = T
    BY <1>2, <2>2 DEF Owned
  <2>4. /\ Cardinality(T) = Cardinality(O)
        /\ \A k \in 1..Cardinality(O) :
             Nth(T, k) \in 1..Cardinality(K) /\ Nth(K, Nth(T, k)) = Nth(O, k)
    <3> HIDE DEF K, O
    <3> QED BY <1>1, <2>1, NthOfKept
  <2> HIDE DEF T, W, K, O
  <2>5. HashesOf(W, id) = [k \in 1..Cardinality(O) |-> W[Nth(T, k)].hash]
    BY <2>3, <2>4 DEF HashesOf
  <2>6. \A k \in 1..Cardinality(O) : W[Nth(T, k)] = buf[Nth(O, k)]
    BY <1>2, <2>4
  <2>7. HashesOf(buf, id) = [k \in 1..Cardinality(O) |-> buf[Nth(O, k)].hash]
    BY DEF HashesOf, O
  <2>8. HashesOf(W, id) = HashesOf(buf, id)
    BY <2>5, <2>6, <2>7
  <2> QED BY <2>8, <1>6 DEF W
<1> QED BY <1>5, <1>6

(* When the oldest element of a session becomes the one of another session *)
(* its hash is no longer among those of the session, the others stay.      *)
LEMMA HashesOfReplaced ==
  ASSUME NEW E, NEW buf \in Seq(E), NEW id, Owned(buf, id) # {}, NEW e \in E, e.id # id
  PROVE  LET i == Nth(Owned(buf, id), 1)
         IN  /\ i \in Owned(buf, id)
             /\ \A x \in Owned(buf, id) : i <= x
             /\ HashesOf(buf, id) # <<>>
             /\ Head(HashesOf(buf, id)) = buf[i].hash
             /\ HashesOf([buf EXCEPT ![i] = e], id) = Tail(HashesOf(buf, id))
<1> DEFINE H == {x.hash : x \in E}
           n == Len(buf)
           S == Owned(buf, id)
           c == Cardinality(S)
           i == Nth(S, 1)
           b == [buf EXCEPT ![i] = e]
<1>0. \A x \in E : x.hash \in H
  OBVIOUS
<1> HIDE DEF H
<1>1. /\ n \in Nat /\ DOMAIN buf = 1..n /\ DOMAIN b = 1..n
      /\ S \in SUBSET (1..n)
  BY DEF Owned
<1>2. /\ c - 1 \in Nat
      /\ i \in S
      /\ \A x \in S : i <= x
      /\ Cardinality(S \ {i}) = c - 1
      /\ \A k \in 1..(c - 1) : Nth(S \ {i}, k) = Nth(S, k + 1)
  BY <1>1, NthOfRest
<1>3. /\ HashesOf(buf, id) \in Seq(H)
      /\ Len(HashesOf(buf, id)) = c
      /\ c \in Nat
  BY <1>0, HashesOfType, ZenonT(30)
<1>4. Owned(b, id) = S \ {i}
  BY <1>1, <1>2 DEF Owned
<1>5. /\ \A k \in 1..c : Nth(S, k) \in S /\ Nth(S, k) \in Nat
      /\ \A j, k \in 1..c : j < k => Nth(S, j) < Nth(S, k)
  BY <1>1, NthEnumerates
<1>6. 1 \in 1..c /\ \A k \in 1..(c - 1) : k + 1 \in 1..c /\ 1 < k + 1
  BY ONLY <1>2, <1>3
<1>7. \A k \in 1..(c - 1) : Nth(S, k + 1) # i /\ Nth(S, k + 1) \in 1..n
  <2>1. \A k \in 1..(c - 1) : i < Nth(S, k + 1) /\ Nth(S, k + 1) \in S /\ i \in Nat
    BY <1>5, <1>6
  <2>2. \A k \in 1..(c - 1) : Nth(S, k + 1) \in Nat
    BY <1>5, <1>6
  <2>3. \A k \in 1..(c - 1) : Nth(S, k + 1) # i
    BY <2>1, <2>2
  <2> QED BY <2>1, <2>3, <1>1
<1>8. /\ \A k \in 1..c : HashesOf(buf, id)[k] = buf[Nth(S, k)].hash
      /\ HashesOf(b, id) = [k \in 1..(c - 1) |-> b[Nth(S \ {i}, k)].hash]
  <2>1. HashesOf(buf, id) = [k \in 1..c |-> buf[Nth(S, k)].hash]
    BY DEF HashesOf
  <2>2. HashesOf(b, id) = [k \in 1..Cardinality(S \ {i}) |-> b[Nth(S \ {i}, k)].hash]
    <3> HIDE DEF b, S, i
    <3> QED BY <1>4 DEF HashesOf
  <2> HIDE DEF b, S, i, c
  <2> QED BY <2>1, <2>2, <1>2
<1>9. HashesOf(b, id) = [k \in 1..(c - 1) |-> HashesOf(buf, id)[k + 1]]
  <2>1. \A k \in 1..(c - 1) : b[Nth(S \ {i}, k)].hash = HashesOf(buf, id)[k + 1]
    <3>1. \A k \in 1..(c - 1) : b[Nth(S \ {i}, k)] = buf[Nth(S, k + 1)]
      BY <1>1, <1>2, <1>7
    <3> QED BY <3>1, <1>6, <1>8
  <2> QED BY <2>1, <1>8
<1> HIDE DEF S, c, b
<1>10. /\ HashesOf(buf, id) # <<>>
       /\ Head(HashesOf(buf, id)) = HashesOf(buf, id)[1]
       /\ Tail(HashesOf(buf, id)) = [k \in 1..(c - 1) |-> HashesOf(buf, id)[k + 1]]
  <2>1. Len(HashesOf(buf, id)) = c /\ c # 0
    BY <1>3, <1>2
  <2>2. HashesOf(buf, id) # <<>>
    BY <2>1
  <2>3. /\ Tail(HashesOf(buf, id)) \in Seq(H)
        /\ Len(Tail(HashesOf(buf, id))) = c - 1
        /\ \A k \in 1..(c - 1) : Tail(HashesOf(buf, id))[k] = HashesOf(buf, id)[k + 1]
    BY <1>3, <2>2, HeadTailProperties
  <2>4. Tail(HashesOf(buf, id)) = [k \in 1..(c - 1) |-> HashesOf(buf, id)[k + 1]]
    <3>1. \A t \in Seq(H) : t = [k \in 1..Len(t) |-> t[k]]
      OBVIOUS
    <3> QED BY <2>3, <3>1
  <2> QED BY <2>2, <2>4, <1>3
<1> QED BY <1>2, <1>6, <1>8, <1>9, <1>10 DEF S, b

=============================================================================
