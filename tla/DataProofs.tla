----------------------------- MODULE DataProofs -----------------------------
(***************************************************************************)
(* Lemmas about the data that components are made of: recency lists,       *)
(* finite sets, sums, and sequences that are sorted.                       *)
(*                                                                         *)
(* Each operation on a recency list is paired by its callers with one      *)
(* change to the map beside it; the lemmas say that the pair keeps list    *)
(* and map in step, and where the keys of the new list stood in the old.   *)
(*                                                                         *)
(* Induction is done with sets in the place of predicates: the induction   *)
(* theorems of the library have operators as parameters, but its theorem   *)
(* on minimal elements (WFMin) has a set.                                  *)
(***************************************************************************)
EXTENDS LRUList, Sums, FiniteSetTheorems, WellFoundedInduction, TLAPS

(* The iterator of a listed key points at the node that holds it.          *)
LEMMA PositionOfListed ==
    ASSUME NEW S, NEW l \in Seq(S), NEW D, IsListOf(l, D), NEW x \in D
    PROVE  Position(l, x) \in 1..Len(l) /\ l[Position(l, x)] = x
  BY DEF IsListOf, Position

(* push_front of a new key: the list of the map with that key inserted.    *)
LEMMA PushFrontLists ==
    ASSUME NEW S, NEW l \in Seq(S), NEW D, IsListOf(l, D), NEW x \in S, x \notin D
    PROVE  /\ PushFront(l, x) \in Seq(S)
           /\ Len(PushFront(l, x)) = Len(l) + 1
           /\ PushFront(l, x)[1] = x
           /\ \A j \in 2..Len(l) + 1 : PushFront(l, x)[j] = l[j - 1]
           /\ IsListOf(PushFront(l, x), D \cup {x})
<1> DEFINE m == PushFront(l, x)
<1>1. Len(l) \in Nat /\ \A i \in 1..Len(l) : l[i] \in S
  OBVIOUS
<1>2. m \in [1..Len(l) + 1 -> S]
  BY <1>1 DEF PushFront
<1>3. m \in Seq(S) /\ Len(m) = Len(l) + 1
  BY <1>1, <1>2
<1>4. m[1] = x /\ \A j \in 2..Len(l) + 1 : m[j] = l[j - 1]
  BY <1>1 DEF PushFront
<1>5. IsListOf(m, D \cup {x})
  <2>1. \A i \in 1..Len(m) : m[i] \in D \cup {x}
    BY <1>1, <1>3, <1>4 DEF IsListOf
  <2>2. ASSUME NEW y \in D PROVE \E i \in 1..Len(m) : m[i] = y
    <3>1. PICK i \in 1..Len(l) : l[i] = y
      BY DEF IsListOf
    <3>2. i + 1 \in 2..Len(l) + 1 /\ m[i + 1] = y
      BY <1>1, <1>4, <3>1
    <3> QED BY <1>1, <1>3, <3>2
  <2>3. \E i \in 1..Len(m) : m[i] = x
    BY <1>1, <1>3, <1>4
  <2>4. ASSUME NEW i \in 1..Len(m), NEW j \in 1..Len(m), m[i] = m[j] PROVE i = j
    <3>1. \A k \in 2..Len(l) + 1 : m[k] # x
      BY <1>1, <1>4 DEF IsListOf
    <3>2. CASE i = 1 \/ j = 1
      BY <1>1, <1>3, <1>4, <2>4, <3>1, <3>2
    <3>3. CASE i # 1 /\ j # 1
      <4>1. l[i - 1] = l[j - 1] /\ i - 1 \in 1..Len(l) /\ j - 1 \in 1..Len(l)
        BY <1>1, <1>3, <1>4, <2>4, <3>3
      <4> QED BY <4>1, <1>1, <1>3 DEF IsListOf
    <3> QED BY <3>2, <3>3
  <2> HIDE DEF m
  <2> QED BY <2>1, <2>2, <2>3, <2>4 DEF IsListOf
<1> QED BY <1>3, <1>4, <1>5

(* Splicing a listed key to the front permutes the list.                   *)
LEMMA MoveToFrontLists ==
    ASSUME NEW S, NEW l \in Seq(S), NEW D, IsListOf(l, D), NEW x \in D, x \in S
    PROVE  /\ MoveToFront(l, x) \in Seq(S)
           /\ Len(MoveToFront(l, x)) = Len(l)
           /\ MoveToFront(l, x)[1] = x
           /\ \A j \in 2..Len(l) : MoveToFront(l, x)[j] =
                 IF j <= Position(l, x) THEN l[j - 1] ELSE l[j]
           /\ IsListOf(MoveToFront(l, x), D)
<1> DEFINE m == MoveToFront(l, x)
           p == Position(l, x)
<1>1. Len(l) \in Nat /\ \A i \in 1..Len(l) : l[i] \in S
  OBVIOUS
<1>2. p \in 1..Len(l) /\ l[p] = x
  BY PositionOfListed
<1>3. m \in [1..Len(l) -> S]
  BY <1>1, <1>2 DEF MoveToFront
<1>4. m \in Seq(S) /\ Len(m) = Len(l)
  BY <1>1, <1>3
<1>5. m[1] = x /\ \A j \in 2..Len(l) : m[j] = IF j <= p THEN l[j - 1] ELSE l[j]
  BY <1>1, <1>2 DEF MoveToFront
<1> DEFINE old(j) == IF j = 1 THEN p ELSE IF j <= p THEN j - 1 ELSE j
<1>6. \A j \in 1..Len(l) : old(j) \in 1..Len(l) /\ m[j] = l[old(j)]
  BY <1>1, <1>2, <1>5
<1> HIDE DEF m, p
<1>7. IsListOf(m, D)
  <2>1. \A i \in 1..Len(m) : m[i] \in D
    BY <1>4, <1>6 DEF IsListOf
  <2>2. ASSUME NEW y \in D PROVE \E i \in 1..Len(m) : m[i] = y
    <3>1. PICK i \in 1..Len(l) : l[i] = y
      BY DEF IsListOf
    <3>2. CASE i = p
      BY <1>1, <1>2, <1>4, <1>5, <3>1, <3>2
    <3>3. CASE i < p
      <4>1. i + 1 \in 1..Len(l) /\ old(i + 1) = i
        BY <1>1, <1>2, <3>3
      <4> QED BY <4>1, <1>4, <1>6, <3>1
    <3>4. CASE i > p
      <4>1. old(i) = i
        BY <1>1, <1>2, <3>4
      <4> QED BY <4>1, <1>4, <1>6, <3>1
    <3> QED BY <1>1, <1>2, <3>2, <3>3, <3>4
  <2>3. ASSUME NEW i \in 1..Len(m), NEW j \in 1..Len(m), m[i] = m[j] PROVE i = j
    <3>1. /\ old(i) \in 1..Len(l) /\ old(j) \in 1..Len(l)
          /\ l[old(i)] = l[old(j)]
      BY <1>4, <1>6, <2>3
    <3>2. \A a, b \in 1..Len(l) : l[a] = l[b] => a = b
      BY DEF IsListOf
    <3>3. old(i) = old(j)
      BY <3>1, <3>2
    <3> QED BY <1>1, <1>2, <1>4, <3>3
  <2> QED BY <2>1, <2>2, <2>3 DEF IsListOf
<1> QED BY <1>4, <1>5, <1>7 DEF m, p

(* Unlinking a listed key: the list of the map without it.                 *)
LEMMA EraseLists ==
    ASSUME NEW S, NEW l \in Seq(S), NEW D, IsListOf(l, D), NEW x \in D
    PROVE  /\ Erase(l, x) \in Seq(S)
           /\ Len(Erase(l, x)) = Len(l) - 1
           /\ \A j \in 1..Len(l) - 1 : Erase(l, x)[j] =
                 IF j < Position(l, x) THEN l[j] ELSE l[j + 1]
           /\ IsListOf(Erase(l, x), D \ {x})
<1> DEFINE m == Erase(l, x)
           p == Position(l, x)
<1>1. Len(l) \in Nat /\ \A i \in 1..Len(l) : l[i] \in S
  OBVIOUS
<1>2. p \in 1..Len(l) /\ l[p] = x
  BY PositionOfListed
<1>3. m \in [1..Len(l) - 1 -> S] /\ Len(l) - 1 \in Nat
  BY <1>1, <1>2 DEF Erase
<1>4. m \in Seq(S) /\ Len(m) = Len(l) - 1
  BY <1>1, <1>3
<1>5. \A j \in 1..Len(l) - 1 : m[j] = IF j < p THEN l[j] ELSE l[j + 1]
  BY <1>1, <1>2 DEF Erase
<1> DEFINE old(j) == IF j < p THEN j ELSE j + 1
<1>6. \A j \in 1..Len(l) - 1 : old(j) \in 1..Len(l) /\ old(j) # p /\ m[j] = l[old(j)]
  BY <1>1, <1>2, <1>5
<1> HIDE DEF m, p
<1>7. IsListOf(m, D \ {x})
  <2>1. \A i \in 1..Len(m) : m[i] \in D \ {x}
    BY <1>2, <1>4, <1>6 DEF IsListOf
  <2>2. ASSUME NEW y \in D \ {x} PROVE \E i \in 1..Len(m) : m[i] = y
    <3>1. PICK i \in 1..Len(l) : l[i] = y
      BY DEF IsListOf
    <3>2. i # p
      BY <1>2, <3>1
    <3>3. CASE i < p
      <4>1. i \in 1..Len(l) - 1 /\ old(i) = i
        BY <1>1, <1>2, <3>3
      <4> QED BY <4>1, <1>4, <1>6, <3>1
    <3>4. CASE i > p
      <4>1. i - 1 \in 1..Len(l) - 1 /\ old(i - 1) = i
        BY <1>1, <1>2, <3>4
      <4> QED BY <4>1, <1>4, <1>6, <3>1
    <3> QED BY <1>1, <1>2, <3>2, <3>3, <3>4
  <2>3. ASSUME NEW i \in 1..Len(m), NEW j \in 1..Len(m), m[i] = m[j] PROVE i = j
    <3>1. /\ old(i) \in 1..Len(l) /\ old(j) \in 1..Len(l)
          /\ l[old(i)] = l[old(j)]
      BY <1>4, <1>6, <2>3
    <3>2. \A a, b \in 1..Len(l) : l[a] = l[b] => a = b
      BY DEF IsListOf
    <3>3. old(i) = old(j)
      BY <3>1, <3>2
    <3> QED BY <1>1, <1>2, <1>4, <3>3
  <2> QED BY <2>1, <2>2, <2>3 DEF IsListOf
<1> QED BY <1>4, <1>5, <1>7 DEF m, p

(* Popping the last key: the list of the map without it.                   *)
LEMMA PopBackLists ==
    ASSUME NEW S, NEW l \in Seq(S), NEW D, IsListOf(l, D), l # <<>>
    PROVE  /\ Back(l) \in D
           /\ PopBack(l) \in Seq(S)
           /\ Len(PopBack(l)) = Len(l) - 1
           /\ \A j \in 1..Len(l) - 1 : PopBack(l)[j] = l[j]
           /\ IsListOf(PopBack(l), D \ {Back(l)})
<1> DEFINE m == PopBack(l)
<1>1. Len(l) \in Nat \ {0} /\ \A i \in 1..Len(l) : l[i] \in S
  OBVIOUS
<1>2. m \in [1..Len(l) - 1 -> S] /\ Len(l) - 1 \in Nat
  BY <1>1 DEF PopBack
<1>3. m \in Seq(S) /\ Len(m) = Len(l) - 1
  BY <1>1, <1>2
<1>4. \A j \in 1..Len(l) - 1 : m[j] = l[j]
  BY <1>1 DEF PopBack
<1>5. Back(l) \in D
  BY <1>1 DEF Back, IsListOf
<1> HIDE DEF m
<1>6. IsListOf(m, D \ {Back(l)})
  BY <1>1, <1>3, <1>4 DEF IsListOf, Back
<1> QED BY <1>3, <1>4, <1>5, <1>6 DEF m

-----------------------------------------------------------------------------
(* A key used now goes to the front of the list and the order of use is    *)
(* kept: push_front for a new key, splice for a listed one.                *)
LEMMA PushFrontInOrder ==
    ASSUME NEW S, NEW l \in Seq(S), NEW D, IsListOf(l, D), NEW x \in S, x \notin D,
           NEW used \in [S -> Nat], InOrderOfUse(l, used), NEW t \in Nat,
           \A y \in S : used[y] <= t
    PROVE  InOrderOfUse(PushFront(l, x), [used EXCEPT ![x] = t])
<1> DEFINE m == PushFront(l, x)
           u == [used EXCEPT ![x] = t]
<1>1. Len(l) \in Nat /\ \A i \in 1..Len(l) : l[i] \in S /\ l[i] # x
  BY DEF IsListOf
<1>2. /\ Len(m) = Len(l) + 1 /\ m[1] = x
      /\ \A j \in 2..Len(l) + 1 : m[j] = l[j - 1]
  <2>1. Len(m) = Len(l) + 1
    BY PushFrontLists
  <2> QED BY <1>1, <2>1 DEF PushFront
<1>3. u[x] = t /\ \A y \in S : u[y] \in Nat /\ u[y] <= t /\ (y # x => u[y] = used[y])
  OBVIOUS
<1> HIDE DEF m, u
<1> SUFFICES ASSUME NEW i \in 1..Len(m), NEW j \in 1..Len(m), i < j
             PROVE  u[m[i]] >= u[m[j]]
  BY DEF InOrderOfUse, m, u
<1>4. j \in 2..Len(l) + 1 /\ j - 1 \in 1..Len(l) /\ m[j] = l[j - 1]
  BY <1>1, <1>2
<1>5. m[j] \in S /\ u[m[j]] = used[l[j - 1]] /\ u[m[j]] <= t
  BY <1>1, <1>3, <1>4
<1>6. CASE i = 1
  BY <1>2, <1>3, <1>5, <1>6
<1>7. CASE i # 1
  <2>1. i - 1 \in 1..Len(l) /\ m[i] = l[i - 1] /\ i - 1 < j - 1
    BY <1>1, <1>2, <1>7
  <2>2. u[m[i]] = used[l[i - 1]]
    BY <1>1, <1>3, <2>1
  <2>3. used[l[i - 1]] >= used[l[j - 1]]
    BY <1>4, <2>1 DEF InOrderOfUse
  <2> QED BY <1>5, <2>2, <2>3
<1> QED BY <1>6, <1>7

LEMMA MoveToFrontInOrder ==
    ASSUME NEW S, NEW l \in Seq(S), NEW D, IsListOf(l, D), NEW x \in D, x \in S,
           NEW used \in [S -> Nat], InOrderOfUse(l, used), NEW t \in Nat,
           \A y \in S : used[y] <= t
    PROVE  InOrderOfUse(MoveToFront(l, x), [used EXCEPT ![x] = t])
<1> DEFINE m == MoveToFront(l, x)
           u == [used EXCEPT ![x] = t]
           p == Position(l, x)
           old(j) == IF j <= p THEN j - 1 ELSE j
<1>1. Len(l) \in Nat /\ \A i \in 1..Len(l) : l[i] \in S
  BY DEF IsListOf
<1>2. p \in 1..Len(l) /\ \A i \in 1..Len(l) : i # p => l[i] # x
  <2>1. p \in 1..Len(l) /\ l[p] = x
    BY PositionOfListed
  <2> HIDE DEF p
  <2> QED BY <2>1 DEF IsListOf
<1>3. /\ Len(m) = Len(l) /\ m[1] = x
      /\ \A j \in 2..Len(l) : m[j] = l[old(j)]
  BY MoveToFrontLists
<1>4. u[x] = t /\ \A y \in S : u[y] \in Nat /\ u[y] <= t /\ (y # x => u[y] = used[y])
  OBVIOUS
<1> HIDE DEF m, u, p
<1>5. ASSUME NEW k \in 2..Len(l)
      PROVE  /\ old(k) \in 1..Len(l) /\ old(k) # p
             /\ m[k] \in S /\ u[m[k]] = used[l[old(k)]] /\ u[m[k]] <= t
  <2>1. old(k) \in 1..Len(l) /\ old(k) # p
    BY <1>1, <1>2
  <2>2. m[k] = l[old(k)]
    BY <1>3
  <2> HIDE DEF old
  <2>3. l[old(k)] \in S /\ l[old(k)] # x
    BY <1>1, <1>2, <2>1
  <2> QED BY <1>4, <2>1, <2>2, <2>3
<1> SUFFICES ASSUME NEW i \in 1..Len(m), NEW j \in 1..Len(m), i < j
             PROVE  u[m[i]] >= u[m[j]]
  BY DEF InOrderOfUse, m, u
<1>6. j \in 2..Len(l)
  BY <1>1, <1>3
<1>7. CASE i = 1
  BY <1>3, <1>4, <1>5, <1>6, <1>7
<1>8. CASE i # 1
  <2>1. i \in 2..Len(l)
    BY <1>1, <1>3, <1>8
  <2>2. old(i) < old(j)
    BY <1>1, <1>2, <1>6, <2>1
  <2>3. /\ old(i) \in 1..Len(l) /\ u[m[i]] = used[l[old(i)]]
        /\ old(j) \in 1..Len(l) /\ u[m[j]] = used[l[old(j)]]
    BY <1>5, <1>6, <2>1
  <2> HIDE DEF old
  <2>4. used[l[old(i)]] >= used[l[old(j)]]
    BY <2>2, <2>3 DEF InOrderOfUse
  <2> QED BY <2>3, <2>4
<1> QED BY <1>7, <1>8

(* Unlinking a node keeps the order of the others.                         *)
LEMMA EraseInOrder ==
    ASSUME NEW S, NEW l \in Seq(S), NEW D, IsListOf(l, D), NEW x \in D,
           NEW used, InOrderOfUse(l, used)
    PROVE  InOrderOfUse(Erase(l, x), used)
<1> DEFINE m == Erase(l, x)
           p == Position(l, x)
           old(j) == IF j < p THEN j ELSE j + 1
<1>1. Len(l) \in Nat /\ p \in 1..Len(l)
  BY PositionOfListed
<1>2. Len(m) = Len(l) - 1 /\ \A j \in 1..Len(l) - 1 : m[j] = l[old(j)]
  BY EraseLists
<1> HIDE DEF m, p
<1> SUFFICES ASSUME NEW i \in 1..Len(m), NEW j \in 1..Len(m), i < j
             PROVE  used[m[i]] >= used[m[j]]
  BY DEF InOrderOfUse, m
<1>3. old(i) \in 1..Len(l) /\ old(j) \in 1..Len(l) /\ old(i) < old(j)
  BY <1>1, <1>2
<1>4. m[i] = l[old(i)] /\ m[j] = l[old(j)]
  BY <1>1, <1>2
<1> HIDE DEF old
<1> QED BY <1>3, <1>4 DEF InOrderOfUse

LEMMA PopBackInOrder ==
    ASSUME NEW S, NEW l \in Seq(S), NEW D, IsListOf(l, D), l # <<>>,
           NEW used, InOrderOfUse(l, used)
    PROVE  InOrderOfUse(PopBack(l), used)
<1>1. /\ Len(PopBack(l)) = Len(l) - 1
      /\ \A j \in 1..Len(l) - 1 : PopBack(l)[j] = l[j]
  BY PopBackLists
<1>2. Len(l) \in Nat
  OBVIOUS
<1> QED BY <1>1, <1>2 DEF InOrderOfUse

(* What a list holds is finitely many.                                     *)
LEMMA ListedFinite ==
    ASSUME NEW S, NEW l \in Seq(S), NEW D, IsListOf(l, D)
    PROVE  IsFiniteSet(D)
<1>1. l \in Surjection(1..Len(l), D)
  BY DEF IsListOf, Surjection
<1>2. IsFiniteSet(1..Len(l))
  BY FS_Interval, Len(l) \in Int
<1> QED BY <1>1, <1>2, FS_Surjection

(* The front of a list lists what is left when the rest is taken away, and *)
(* keeps the order of use.                                                 *)
LEMMA FrontLists ==
    ASSUME NEW S, NEW l \in Seq(S), NEW D, IsListOf(l, D), NEW n \in 0..Len(l)
    PROVE  /\ SubSeq(l, 1, n) \in Seq(S)
           /\ Len(SubSeq(l, 1, n)) = n
           /\ \A i \in 1..n : SubSeq(l, 1, n)[i] = l[i]
           /\ IsListOf(SubSeq(l, 1, n), D \ {l[i] : i \in n + 1 .. Len(l)})
<1> DEFINE m == SubSeq(l, 1, n)
           E == D \ {l[i] : i \in n + 1 .. Len(l)}
<1>1. Len(l) \in Nat /\ m \in Seq(S) /\ Len(m) = n /\ \A i \in 1..n : m[i] = l[i]
  OBVIOUS
<1> HIDE DEF m
<1>2. \A i \in 1..n : m[i] \in E
  BY <1>1 DEF IsListOf
<1>3. ASSUME NEW x \in E PROVE \E i \in 1..n : m[i] = x
  <2>1. PICK i \in 1..Len(l) : l[i] = x
    BY DEF IsListOf
  <2>2. i \in 1..n
    BY <1>1, <2>1
  <2> QED BY <1>1, <2>1, <2>2
<1>4. \A i, j \in 1..n : m[i] = m[j] => i = j
  BY <1>1 DEF IsListOf
<1> HIDE DEF E
<1>5. IsListOf(m, E)
  BY <1>1, <1>2, <1>3, <1>4 DEF IsListOf
<1> QED BY <1>1, <1>5 DEF m, E

LEMMA FrontInOrder ==
    ASSUME NEW S, NEW l \in Seq(S), NEW n \in 0..Len(l), NEW used, InOrderOfUse(l, used)
    PROVE  InOrderOfUse(SubSeq(l, 1, n), used)
<1>1. Len(SubSeq(l, 1, n)) = n /\ Len(l) \in Nat /\ \A i \in 1..n : SubSeq(l, 1, n)[i] = l[i]
  OBVIOUS
<1> QED BY <1>1 DEF InOrderOfUse

-----------------------------------------------------------------------------
(* Every nonempty set of naturals has a least element.                     *)
LEMMA LeastNatural ==
    ASSUME NEW T, T \subseteq Nat, T # {}
    PROVE  \E k \in T : \A j \in T : k <= j
<1> DEFINE R == {p \in Nat \X Nat : p[1] < p[2]}
<1>1. OpToRel(<, Nat) = R
  BY Zenon DEF OpToRel
<1>2. IsWellFoundedOn(R, Nat)
  BY <1>1, NatLessThanWellFounded, Zenon
<1>3. PICK k \in T : \A j \in T : ~ (<<j, k>> \in R)
  <2> HIDE DEF R
  <2> QED BY <1>2, WFMin
<1>4. \A j \in T : ~ (j < k)
  BY <1>3
<1> QED BY <1>4

(* Induction over the naturals, with a set in the place of a predicate.    *)
LEMMA SetInduction ==
    ASSUME NEW G, 0 \in G, \A n \in Nat : n \in G => n + 1 \in G
    PROVE  \A n \in Nat : n \in G
<1> SUFFICES ASSUME Nat \ G # {} PROVE FALSE
  OBVIOUS
<1>1. PICK k \in Nat \ G : \A j \in Nat \ G : k <= j
  <2> DEFINE T == Nat \ G
  <2>1. T \subseteq Nat /\ T # {}
    OBVIOUS
  <2> HIDE DEF T
  <2>2. \E k \in T : \A j \in T : k <= j
    BY <2>1, LeastNatural
  <2> QED BY <2>2 DEF T
<1>2. k # 0 /\ k - 1 \in Nat
  OBVIOUS
<1>3. k - 1 \in G
  BY <1>1, <1>2
<1> QED BY <1>2, <1>3

(* Every nonempty bounded set of naturals has a greatest element.          *)
LEMMA GreatestNatural ==
    ASSUME NEW n \in Nat, NEW T, T \subseteq 0..n, T # {}
    PROVE  \E k \in T : \A j \in T : j <= k
<1> DEFINE U == {n - k : k \in T}
<1>1. PICK u \in U : \A v \in U : u <= v
  <2>1. \A k \in T : n - k \in Nat
    OBVIOUS
  <2>2. U \subseteq Nat
    BY <2>1
  <2>3. PICK k \in T : TRUE
    OBVIOUS
  <2>4. n - k \in U
    OBVIOUS
  <2> HIDE DEF U
  <2> QED BY <2>2, <2>4, LeastNatural
<1>2. PICK k \in T : u = n - k
  OBVIOUS
<1>3. \A j \in T : n - k <= n - j
  BY <1>1, <1>2
<1> QED BY <1>3

(* Induction over the subsets of a finite set, with a set G in the place   *)
(* of a predicate.                                                         *)
LEMMA SubsetInduction ==
    ASSUME NEW S, IsFiniteSet(S), NEW G,
           \A s \in SUBSET S : (\A u \in SUBSET s : u # s => u \in G) => s \in G
    PROVE  \A s \in SUBSET S : s \in G
<1> SUFFICES ASSUME (SUBSET S) \ G # {} PROVE FALSE
  OBVIOUS
<1> DEFINE T == (SUBSET S) \ G
<1>1. IsWellFoundedOn(StrictSubsetOrdering(S), SUBSET S)
  <2>1. FiniteSubsetsOf(S) = SUBSET S
    BY FS_FiniteSubsetsOfFinite
  <2>2. IsWellFoundedOn(StrictSubsetOrdering(S), FiniteSubsetsOf(S))
    BY FS_StrictSubsetOrderingWellFounded
  <2> QED BY <2>1, <2>2
<1>2. T \subseteq SUBSET S /\ T # {}
  OBVIOUS
<1> HIDE DEF T
<1>3. PICK s \in T : \A u \in T : ~ (<<u, s>> \in StrictSubsetOrdering(S))
  BY <1>1, <1>2, WFMin
<1>4. s \in SUBSET S /\ s \notin G
  BY DEF T
<1>5. ASSUME NEW u \in SUBSET s, u # s PROVE u \in G
  <2>1. u \in SUBSET S
    BY <1>4
  <2>2. <<u, s>> \in StrictSubsetOrdering(S)
    BY <1>4, <1>5, <2>1 DEF StrictSubsetOrdering
  <2> QED BY <1>3, <2>1, <2>2 DEF T
<1> QED BY <1>4, <1>5

-----------------------------------------------------------------------------
(* g solves the recursion that defines Total on the subsets of S.          *)
IsSumOn(f, S, g) ==
    g = [s \in SUBSET S |-> IF s = {} THEN 0
                            ELSE f[CHOOSE x \in s : TRUE] + g[s \ {CHOOSE x \in s : TRUE}]]

LEMMA TotalChosen ==
    ASSUME NEW f, NEW S
    PROVE  Total(f, S) = (CHOOSE g : IsSumOn(f, S, g))[S]
  BY DEF Total, MapThenSumSet, MapThenFoldSet, IsSumOn

LEMMA SumEquation ==
    ASSUME NEW f, NEW S, NEW g, IsSumOn(f, S, g)
    PROVE  /\ g[{}] = 0
           /\ \A s \in SUBSET S : s # {} =>
                 LET x == CHOOSE x \in s : TRUE
                 IN  x \in s /\ g[s] = f[x] + g[s \ {x}]
  BY Zenon DEF IsSumOn

(* The recursion has at most one solution, whatever set it is solved on,   *)
(* and it has one.                                                         *)
LEMMA SumUnique ==
    ASSUME NEW f, NEW S, IsFiniteSet(S), NEW g, IsSumOn(f, S, g),
           NEW T \in SUBSET S, NEW h, IsSumOn(f, T, h)
    PROVE  \A s \in SUBSET T : g[s] = h[s]
<1> DEFINE G == {s \in SUBSET T : g[s] = h[s]}
<1>1. ASSUME NEW s \in SUBSET T, \A u \in SUBSET s : u # s => u \in G
      PROVE  s \in G
  <2>1. CASE s = {}
    BY <2>1, SumEquation
  <2>2. CASE s # {}
    <3> DEFINE x == CHOOSE x \in s : TRUE
    <3>1. x \in s /\ g[s] = f[x] + g[s \ {x}]
      BY <2>2, SumEquation, s \in SUBSET S
    <3>2. h[s] = f[x] + h[s \ {x}]
      BY <2>2, SumEquation
    <3> HIDE DEF x
    <3>3. s \ {x} \in G
      BY <1>1, <3>1
    <3> QED BY <3>1, <3>2, <3>3
  <2> QED BY <2>1, <2>2
<1>2. IsFiniteSet(T)
  BY FS_Subset
<1> HIDE DEF G
<1>3. \A s \in SUBSET T : s \in G
  BY <1>1, <1>2, SubsetInduction
<1> QED BY <1>3 DEF G

LEMMA SumExists ==
    ASSUME NEW f, NEW S, IsFiniteSet(S)
    PROVE  \E g : IsSumOn(f, S, g)
<1> DEFINE G == {s \in SUBSET S : \E g : IsSumOn(f, s, g)}
<1>1. ASSUME NEW s \in SUBSET S, \A u \in SUBSET s : u # s => u \in G
      PROVE  s \in G
  <2> DEFINE sum(u) == CHOOSE g : IsSumOn(f, u, g)
             x(u)   == CHOOSE y \in u : TRUE
             h == [u \in SUBSET s |-> IF u = {} THEN 0
                     ELSE f[x(u)] + sum(u \ {x(u)})[u \ {x(u)}]]
  <2>1. ASSUME NEW u \in SUBSET s, u # s PROVE IsSumOn(f, u, sum(u))
    <3>1. \E g : IsSumOn(f, u, g)
      BY <1>1, <2>1
    <3> QED BY <3>1
  <2>2. \A u \in SUBSET s : u # {} => x(u) \in u
    OBVIOUS
  <2> HIDE DEF sum, x
  <2>3. ASSUME NEW u \in SUBSET s, u # s PROVE sum(u)[u] = h[u]
    <3>1. CASE u = {}
      <4>1. sum(u)[{}] = 0
        BY <2>1, <2>3, SumEquation
      <4> QED BY <3>1, <4>1
    <3>2. CASE u # {}
      <4>1. x(u) \in u
        BY <2>2, <3>2
      <4>2. sum(u)[u] = f[x(u)] + sum(u)[u \ {x(u)}]
        BY <2>1, <2>3, <3>2, SumEquation DEF x
      <4>3. IsSumOn(f, u, sum(u)) /\ IsSumOn(f, u \ {x(u)}, sum(u \ {x(u)}))
        <5>1. u \ {x(u)} \in SUBSET s /\ u \ {x(u)} # s
          BY <4>1
        <5> QED BY <2>1, <2>3, <5>1
      <4>4. IsFiniteSet(u) /\ u \ {x(u)} \in SUBSET u
        BY FS_Subset
      <4>5. sum(u)[u \ {x(u)}] = sum(u \ {x(u)})[u \ {x(u)}]
        BY <4>3, <4>4, SumUnique
      <4> QED BY <3>2, <4>2, <4>5
    <3> QED BY <3>1, <3>2
  <2>4. ASSUME NEW u \in SUBSET s
        PROVE  h[u] = IF u = {} THEN 0 ELSE f[x(u)] + h[u \ {x(u)}]
    <3>1. CASE u = {}
      BY <3>1
    <3>2. CASE u # {}
      <4>1. u \ {x(u)} \in SUBSET s /\ u \ {x(u)} # s
        BY <2>2, <3>2
      <4>2. sum(u \ {x(u)})[u \ {x(u)}] = h[u \ {x(u)}]
        BY <2>3, <4>1
      <4>3. h[u] = f[x(u)] + sum(u \ {x(u)})[u \ {x(u)}]
        BY <3>2
      <4> QED BY <3>2, <4>2, <4>3
    <3> QED BY <3>1, <3>2
  <2>5. h = [u \in SUBSET s |-> h[u]]
    OBVIOUS
  <2> HIDE DEF h
  <2>6. h = [u \in SUBSET s |-> IF u = {} THEN 0 ELSE f[x(u)] + h[u \ {x(u)}]]
    BY <2>4, <2>5, Zenon
  <2>7. IsSumOn(f, s, h)
    BY <2>6, Zenon DEF IsSumOn, x
  <2> QED BY <2>7
<1> HIDE DEF G
<1>2. S \in G
  BY <1>1, SubsetInduction
<1> QED BY <1>2 DEF G

(* Total is the solution.                                                  *)
LEMMA TotalSummed ==
    ASSUME NEW f, NEW S, IsFiniteSet(S), NEW g, IsSumOn(f, S, g)
    PROVE  \A s \in SUBSET S : Total(f, s) = g[s]
<1> SUFFICES ASSUME NEW s \in SUBSET S PROVE Total(f, s) = g[s]
  OBVIOUS
<1> DEFINE h == CHOOSE h : IsSumOn(f, s, h)
<1>1. IsFiniteSet(s)
  BY FS_Subset
<1>2. IsSumOn(f, s, h)
  BY <1>1, SumExists
<1>3. Total(f, s) = h[s]
  BY TotalChosen
<1> HIDE DEF h
<1> QED BY <1>2, <1>3, SumUnique

LEMMA TotalEmpty == ASSUME NEW f PROVE Total(f, {}) = 0
<1>1. IsFiniteSet({})
  BY FS_EmptySet
<1>2. PICK g : IsSumOn(f, {}, g)
  BY <1>1, SumExists
<1> QED BY <1>1, <1>2, TotalSummed, SumEquation

(* A sum may be taken apart at any element.                                *)
LEMMA TotalSplit ==
    ASSUME NEW S, IsFiniteSet(S), NEW f, \A x \in S : f[x] \in Int
    PROVE  /\ Total(f, S) \in Int
           /\ \A y \in S : Total(f, S) = f[y] + Total(f, S \ {y})
<1> PICK g : IsSumOn(f, S, g)
  BY SumExists
<1> DEFINE G == {s \in SUBSET S : g[s] \in Int /\ \A y \in s : g[s] = f[y] + g[s \ {y}]}
<1>1. ASSUME NEW s \in SUBSET S, \A u \in SUBSET s : u # s => u \in G
      PROVE  s \in G
  <2>1. CASE s = {}
    BY <2>1, SumEquation
  <2>2. CASE s # {}
    <3> DEFINE x == CHOOSE x \in s : TRUE
    <3>1. x \in s /\ g[s] = f[x] + g[s \ {x}]
      BY <2>2, SumEquation
    <3> HIDE DEF x
    <3>2. g[s \ {x}] \in Int /\ g[s] \in Int
      BY <1>1, <3>1
    <3>3. ASSUME NEW y \in s, y # x PROVE g[s] = f[y] + g[s \ {y}]
      <4>1. s \ {x} \in G /\ s \ {y} \in G
        BY <1>1, <3>1
      <4>2. y \in s \ {x} /\ x \in s \ {y} /\ (s \ {x}) \ {y} = (s \ {y}) \ {x}
        BY <3>1, <3>3
      <4>3. (s \ {x}) \ {y} \in G
        BY <1>1, <3>1
      <4> DEFINE a == g[(s \ {x}) \ {y}]
      <4>4. g[s \ {x}] = f[y] + a /\ g[s \ {y}] = f[x] + a
        BY <4>1, <4>2
      <4>5. a \in Int /\ f[x] \in Int /\ f[y] \in Int
        BY <3>1, <4>3
      <4> HIDE DEF a
      <4> QED BY <3>1, <4>4, <4>5
    <3> QED BY <3>1, <3>2, <3>3
  <2> QED BY <2>1, <2>2
<1> HIDE DEF G
<1>2. S \in G
  BY <1>1, SubsetInduction
<1>3. \A s \in SUBSET S : Total(f, s) = g[s]
  BY TotalSummed
<1> QED BY <1>2, <1>3 DEF G

(* A sum grows with its summands.                                          *)
LEMMA TotalMonotone ==
    ASSUME NEW S, IsFiniteSet(S), NEW f, NEW g,
           \A x \in S : f[x] \in Int /\ g[x] \in Int /\ f[x] <= g[x]
    PROVE  Total(f, S) <= Total(g, S)
<1> DEFINE G == {s \in SUBSET S : Total(f, s) <= Total(g, s)}
<1>1. ASSUME NEW s \in SUBSET S, \A u \in SUBSET s : u # s => u \in G
      PROVE  s \in G
  <2>1. CASE s = {}
    BY <2>1, TotalEmpty
  <2>2. CASE s # {}
    <3> PICK x \in s : TRUE
      BY <2>2
    <3>1. IsFiniteSet(s) /\ IsFiniteSet(s \ {x})
      BY FS_Subset
    <3>2. s \ {x} \in G
      BY <1>1
    <3>3. Total(f, s) = f[x] + Total(f, s \ {x}) /\ Total(f, s \ {x}) \in Int
      BY <3>1, TotalSplit
    <3>4. Total(g, s) = g[x] + Total(g, s \ {x}) /\ Total(g, s \ {x}) \in Int
      BY <3>1, TotalSplit
    <3> QED BY <3>2, <3>3, <3>4
  <2> QED BY <2>1, <2>2
<1> HIDE DEF G
<1>2. S \in G
  BY <1>1, SubsetInduction
<1> QED BY <1>2 DEF G

LEMMA TotalZero ==
    ASSUME NEW S, IsFiniteSet(S), NEW f, \A x \in S : f[x] = 0
    PROVE  Total(f, S) = 0
<1> DEFINE G == {s \in SUBSET S : Total(f, s) = 0}
<1>1. ASSUME NEW s \in SUBSET S, \A u \in SUBSET s : u # s => u \in G
      PROVE  s \in G
  <2>1. CASE s = {}
    BY <2>1, TotalEmpty
  <2>2. CASE s # {}
    <3> PICK x \in s : TRUE
      BY <2>2
    <3>1. IsFiniteSet(s) /\ s \ {x} \in G
      BY <1>1, FS_Subset
    <3>2. Total(f, s) = f[x] + Total(f, s \ {x})
      BY <3>1, TotalSplit
    <3> QED BY <3>1, <3>2
  <2> QED BY <2>1, <2>2
<1> HIDE DEF G
<1>2. S \in G
  BY <1>1, SubsetInduction
<1> QED BY <1>2 DEF G

(* Only the summands in the set matter.                                    *)
LEMMA TotalSame ==
    ASSUME NEW S, IsFiniteSet(S), NEW f, NEW g,
           \A x \in S : f[x] \in Int /\ f[x] = g[x]
    PROVE  Total(f, S) = Total(g, S)
<1>1. Total(f, S) <= Total(g, S)
  BY TotalMonotone
<1>2. Total(g, S) <= Total(f, S)
  BY TotalMonotone
<1>3. Total(f, S) \in Int /\ Total(g, S) \in Int
  BY TotalSplit
<1> QED BY <1>1, <1>2, <1>3

(* What a change of one summand does to a sum.                             *)
LEMMA TotalChanged ==
    ASSUME NEW S, IsFiniteSet(S), NEW f, NEW g, NEW y \in S, g[y] \in Int,
           \A x \in S : f[x] \in Int /\ (x # y => f[x] = g[x])
    PROVE  Total(g, S) = Total(f, S) - f[y] + g[y]
<1>1. Total(f, S) = f[y] + Total(f, S \ {y})
  BY TotalSplit
<1>2. Total(g, S) = g[y] + Total(g, S \ {y})
  BY TotalSplit
<1>3. IsFiniteSet(S \ {y})
  BY FS_Subset
<1>4. Total(f, S \ {y}) = Total(g, S \ {y}) /\ Total(f, S \ {y}) \in Int
  BY <1>3, TotalSame, TotalSplit
<1> QED BY <1>1, <1>2, <1>4

(* A sum is that of a part and of the rest.                                *)
LEMMA TotalParts ==
    ASSUME NEW S, IsFiniteSet(S), NEW B \in SUBSET S, NEW f, \A x \in S : f[x] \in Int
    PROVE  /\ Total(f, S) = Total(f, S \ B) + Total(f, B)
           /\ Total(f, S) \in Int /\ Total(f, S \ B) \in Int /\ Total(f, B) \in Int
<1>1. ASSUME NEW T \in SUBSET S PROVE IsFiniteSet(T) /\ Total(f, T) \in Int
  <2>1. IsFiniteSet(T)
    BY FS_Subset
  <2> QED BY <2>1, TotalSplit
<1> DEFINE G == {T \in SUBSET S : Total(f, S) = Total(f, S \ T) + Total(f, T)}
<1>2. ASSUME NEW T \in SUBSET S, \A u \in SUBSET T : u # T => u \in G
      PROVE  T \in G
  <2>1. CASE T = {}
    <3>1. S \ T = S
      BY <2>1
    <3> QED BY <1>1, <2>1, <3>1, TotalEmpty
  <2>2. CASE T # {}
    <3> PICK x \in T : TRUE
      BY <2>2
    <3>1. T \ {x} \in G
      BY <1>2
    <3>2. Total(f, T) = f[x] + Total(f, T \ {x})
      BY <1>1, TotalSplit
    <3>3. Total(f, S \ (T \ {x})) = f[x] + Total(f, S \ T)
      <4>1. x \in S \ (T \ {x}) /\ (S \ (T \ {x})) \ {x} = S \ T /\ S \ (T \ {x}) \in SUBSET S
        OBVIOUS
      <4>2. IsFiniteSet(S \ (T \ {x}))
        BY <1>1, <4>1
      <4>3. Total(f, S \ (T \ {x})) = f[x] + Total(f, (S \ (T \ {x})) \ {x})
        BY <4>1, <4>2, TotalSplit
      <4> QED BY <4>1, <4>3
    <3>4. Total(f, T \ {x}) \in Int /\ Total(f, S \ T) \in Int /\ f[x] \in Int
      BY <1>1
    <3> QED BY <3>1, <3>2, <3>3, <3>4
  <2> QED BY <2>1, <2>2
<1> HIDE DEF G
<1>3. B \in G
  BY <1>2, SubsetInduction
<1> QED BY <1>1, <1>3 DEF G

-----------------------------------------------------------------------------
LEMMA ElementsOf ==
    ASSUME NEW S, NEW q \in Seq(S)
    PROVE  Len(q) \in Nat /\ DOMAIN q = 1..Len(q) /\ \A i \in 1..Len(q) : q[i] \in S
  OBVIOUS

-----------------------------------------------------------------------------
(* p puts the first n elements of s into ascending order.                  *)
Sorts(p, s, n) ==
    /\ p \in [1..n -> 1..n]
    /\ \A i \in 1..n, j \in 1..n : p[i] = p[j] => i = j
    /\ \A x \in 1..n : \E i \in 1..n : p[i] = x
    /\ \A i \in 1..n, j \in 1..n : i <= j => s[p[i]] <= s[p[j]]

(* Sequences of n naturals can be sorted.                                  *)
Sortable == {n \in Nat : \A s \in [1..n -> Nat] : \E p : Sorts(p, s, n)}

(* The least element goes to the front, the last one takes its place.      *)
LEMMA SortStep ==
    ASSUME NEW n \in Sortable,
           NEW s \in [1..n + 1 -> Nat]
    PROVE  \E p : Sorts(p, s, n + 1)
<1> n \in Nat
  BY DEF Sortable
<1>1. PICK m \in 1..n + 1 : \A i \in 1..n + 1 : s[m] <= s[i]
  <2> DEFINE T == {s[i] : i \in 1..n + 1}
  <2>1. T \subseteq Nat /\ s[1] \in T
    OBVIOUS
  <2>2. \E k \in T : \A j \in T : k <= j
    <3> HIDE DEF T
    <3> QED BY <2>1, LeastNatural
  <2> QED BY <2>2
<1> DEFINE r == [i \in 1..n |-> IF i = m THEN s[n + 1] ELSE s[i]]
           Kept(j) == IF j = m THEN n + 1 ELSE j
<1>2. PICK q : Sorts(q, r, n)
  <2>1. r \in [1..n -> Nat]
    OBVIOUS
  <2> HIDE DEF r
  <2> QED BY <2>1 DEF Sortable
<1>3. \A j \in 1..n : Kept(j) \in 1..n + 1 /\ s[Kept(j)] = r[j] /\ Kept(j) # m
  OBVIOUS
<1>4. \A j \in 1..n, k \in 1..n : Kept(j) = Kept(k) => j = k
  OBVIOUS
<1>5. \A x \in 1..n + 1 : x # m => \E j \in 1..n : Kept(j) = x
  <2> SUFFICES ASSUME NEW x \in 1..n + 1, x # m PROVE \E j \in 1..n : Kept(j) = x
    OBVIOUS
  <2>1. CASE x = n + 1
    <3>1. m \in 1..n /\ Kept(m) = x
      BY <2>1
    <3> QED BY <3>1
  <2>2. CASE x # n + 1
    <3>1. x \in 1..n /\ Kept(x) = x
      BY <2>2
    <3> QED BY <3>1
  <2> QED BY <2>1, <2>2
<1> HIDE DEF r, Kept
<1> DEFINE p == [i \in 1..n + 1 |-> IF i = 1 THEN m ELSE Kept(q[i - 1])]
<1>6. /\ p[1] = m
      /\ \A i \in 2..n + 1 : i - 1 \in 1..n /\ q[i - 1] \in 1..n /\ p[i] = Kept(q[i - 1])
  <2>1. 1 \in 1..n + 1 /\ \A i \in 2..n + 1 : i \in 1..n + 1 /\ i # 1 /\ i - 1 \in 1..n
    OBVIOUS
  <2>2. \A i \in 1..n : q[i] \in 1..n
    BY <1>2 DEF Sorts
  <2> QED BY <2>1, <2>2
<1>7. p \in [1..n + 1 -> 1..n + 1]
  <2>1. \A i \in 1..n + 1 : i # 1 => i - 1 \in 1..n
    OBVIOUS
  <2>2. \A i \in 1..n : Kept(q[i]) \in 1..n + 1
    BY <1>2, <1>3 DEF Sorts
  <2> QED BY <2>1, <2>2
<1> HIDE DEF p
<1>8. ASSUME NEW i \in 1..n + 1, NEW j \in 1..n + 1, p[i] = p[j] PROVE i = j
  <2>1. \A k \in 1..n + 1 : p[k] = m => k = 1
    <3>1. \A k \in 2..n + 1 : p[k] # m
      BY <1>3, <1>6
    <3> QED BY <3>1
  <2>3. CASE i = 1 \/ j = 1
    BY <1>6, <1>8, <2>1, <2>3
  <2>2. CASE i # 1 /\ j # 1
    <3>1. i \in 2..n + 1 /\ j \in 2..n + 1
      BY <2>2
    <3>2. /\ q[i - 1] \in 1..n /\ p[i] = Kept(q[i - 1])
          /\ q[j - 1] \in 1..n /\ p[j] = Kept(q[j - 1])
      BY <1>6, <3>1
    <3>4. q[i - 1] = q[j - 1]
      BY <1>4, <1>8, <3>2
    <3>3. i - 1 = j - 1
      BY <1>2, <1>6, <3>1, <3>4 DEF Sorts
    <3> QED BY <3>1, <3>3
  <2> QED BY <2>2, <2>3
<1>9. ASSUME NEW x \in 1..n + 1 PROVE \E i \in 1..n + 1 : p[i] = x
  <2>1. CASE x = m
    BY <1>6, <2>1
  <2>2. CASE x # m
    <3>1. PICK j \in 1..n : Kept(j) = x
      BY <1>5, <2>2
    <3>2. PICK i \in 1..n : q[i] = j
      BY <1>2 DEF Sorts
    <3>3. i + 1 \in 2..n + 1 /\ (i + 1) - 1 = i
      OBVIOUS
    <3>4. p[i + 1] = x
      BY <1>6, <3>1, <3>2, <3>3
    <3> QED BY <3>3, <3>4
  <2> QED BY <2>1, <2>2
<1>10. ASSUME NEW i \in 1..n + 1, NEW j \in 1..n + 1, i <= j PROVE s[p[i]] <= s[p[j]]
  <2>1. CASE i = 1
    BY <1>1, <1>6, <1>7, <2>1
  <2>2. CASE i # 1
    <3>1. i \in 2..n + 1 /\ j \in 2..n + 1 /\ i - 1 <= j - 1
      BY <1>10, <2>2
    <3>2. r[q[i - 1]] <= r[q[j - 1]]
      BY <1>2, <1>6, <3>1 DEF Sorts
    <3> QED BY <1>3, <1>6, <3>1, <3>2
  <2> QED BY <2>1, <2>2
<1>11. Sorts(p, s, n + 1)
  BY <1>7, <1>8, <1>9, <1>10 DEF Sorts
<1> QED BY <1>11

(* Every sequence of naturals can be sorted.                               *)
LEMMA SortExists ==
    ASSUME NEW n \in Nat, NEW s \in [1..n -> Nat]
    PROVE  \E p : Sorts(p, s, n)
<1>1. 0 \in Sortable
  <2>1. \A r : Sorts(<<>>, r, 0)
    BY DEF Sorts
  <2> QED BY <2>1 DEF Sortable
<1>2. \A k \in Nat : k \in Sortable => k + 1 \in Sortable
  <2> SUFFICES ASSUME NEW k \in Sortable, k \in Nat PROVE k + 1 \in Sortable
    OBVIOUS
  <2>1. \A r \in [1..k + 1 -> Nat] : \E p : Sorts(p, r, k + 1)
    BY SortStep
  <2> QED BY <2>1 DEF Sortable
<1>3. n \in Sortable
  BY <1>1, <1>2, SetInduction
<1> QED BY <1>3 DEF Sortable

OneToOne(p, n) == \A i \in 1..n : \A j \in 1..n : p[i] = p[j] => i = j

(* An injective image of an interval is as large as the interval.          *)
LEMMA ImageOfInterval ==
    ASSUME NEW n \in Nat, NEW p, NEW a \in Nat, NEW b \in Nat, 1 <= a, b <= n, a <= b,
           OneToOne(p, n), NEW T, T \subseteq 1..n, \A i \in a..b : p[i] \in T
    PROVE  Cardinality(T) >= b - a + 1
<1> DEFINE f == [i \in a..b |-> p[i]]
<1>1. f \in Injection(a..b, T)
  <2>1. f \in [a..b -> T]
    OBVIOUS
  <2>2. a..b \subseteq 1..n
    OBVIOUS
  <2>3. \A i \in a..b, k \in a..b : f[i] = f[k] => i = k
    BY <2>2 DEF OneToOne
  <2> QED BY <2>1, <2>3 DEF Injection, IsInjective
<1>2. IsFiniteSet(T)
  <2>1. IsFiniteSet(1..n)
    BY FS_Interval
  <2> QED BY <2>1, FS_Subset
<1>3. Cardinality(a..b) <= Cardinality(T)
  BY <1>1, <1>2, FS_Injection
<1>4. Cardinality(a..b) = b - a + 1
  BY FS_Interval
<1>5. Cardinality(T) \in Nat
  BY <1>2, FS_CardinalityType
<1> QED BY <1>3, <1>4, <1>5

UpTo(s, n, v)   == {i \in 1..n : s[i] <= v}
FromOn(s, n, v) == {i \in 1..n : s[i] >= v}

(* The j-th of the sorted elements has j elements up to it and n - j + 1   *)
(* from it on.                                                             *)
LEMMA RankBounds ==
    ASSUME NEW n \in Nat, NEW s \in [1..n -> Nat], NEW j \in 1..n, NEW p, Sorts(p, s, n),
           NEW v, v = s[p[j]]
    PROVE  Cardinality(UpTo(s, n, v)) >= j /\ Cardinality(FromOn(s, n, v)) >= n - j + 1
<1>1. /\ \A i \in 1..n : p[i] \in 1..n
      /\ OneToOne(p, n)
      /\ \A i \in 1..n, k \in 1..n : i <= k => s[p[i]] <= s[p[k]]
  BY DEF Sorts, OneToOne
<1> DEFINE A == {i \in 1..n : s[i] <= v}
           B == {i \in 1..n : s[i] >= v}
<1>2. \A i \in 1..j : p[i] \in A
  <2>1. \A i \in 1..j : i \in 1..n /\ i <= j
    OBVIOUS
  <2> QED BY <1>1, <2>1
<1>3. \A i \in j..n : p[i] \in B
  <2>1. \A i \in j..n : i \in 1..n /\ j <= i
    OBVIOUS
  <2>2. \A i \in j..n : p[i] \in 1..n /\ s[p[i]] \in Nat /\ s[p[j]] \in Nat /\ s[p[j]] <= s[p[i]]
    BY <1>1, <2>1
  <2> QED BY <2>2
<1>4. A \subseteq 1..n /\ B \subseteq 1..n
  OBVIOUS
<1> HIDE DEF A, B
<1>5. Cardinality(A) >= j - 1 + 1
  <2>1. 1 \in Nat /\ 1 <= 1 /\ j \in Nat /\ 1 <= j /\ j <= n
    OBVIOUS
  <2> QED BY <1>1, <1>2, <1>4, <2>1, ImageOfInterval, Zenon
<1>6. Cardinality(B) >= n - j + 1
  <2>1. j \in Nat /\ 1 <= j /\ j <= n /\ n <= n
    OBVIOUS
  <2> QED BY <1>1, <1>3, <1>4, <2>1, ImageOfInterval, Zenon
<1>7. j - 1 + 1 = j
  OBVIOUS
<1> QED BY <1>5, <1>6, <1>7 DEF A, B, UpTo, FromOn
=============================================================================
