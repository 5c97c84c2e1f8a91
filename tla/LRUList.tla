------------------------------ MODULE LRUList ------------------------------
(***************************************************************************)
(* The recency list that RateLimiter (lru_list_) and CacheShard            *)
(* (cache_list_) keep beside their hash map: a std::list of keys, the most *)
(* recently used first, into which every map entry holds an iterator.      *)
(* A key occurs at most once, so the iterator of an entry is the position  *)
(* of its key.                                                             *)
(***************************************************************************)
EXTENDS Integers, Sequences

(* l lists every element of D exactly once.                                *)
IsListOf(l, D) ==
    /\ \A i \in 1..Len(l) : l[i] \in D
    /\ \A x \in D : \E i \in 1..Len(l) : l[i] = x
    /\ \A i, j \in 1..Len(l) : l[i] = l[j] => i = j

(* The keys of l stand in order of their last use.                         *)
InOrderOfUse(l, used) ==
    \A i, j \in 1..Len(l) : i < j => used[l[i]] >= used[l[j]]

(* The node an entry's iterator points to.                                 *)
Position(l, x) == CHOOSE i \in 1..Len(l) : l[i] = x

(* list.push_front(x)                                                      *)
PushFront(l, x) ==
    [j \in 1..Len(l) + 1 |-> IF j = 1 THEN x ELSE l[j - 1]]

(* Seeded error: the splice is left out.                                   *)
Unmoved(l, x) == l

(* list.splice(list.begin(), list, it): the node of x moves to the front.  *)
MoveToFront(l, x) ==
    [j \in 1..Len(l) |->
        IF j = 1 THEN x ELSE IF j <= Position(l, x) THEN l[j - 1] ELSE l[j]]

(* list.erase(it): the node of x is unlinked.                              *)
Erase(l, x) ==
    [j \in 1..Len(l) - 1 |-> IF j < Position(l, x) THEN l[j] ELSE l[j + 1]]

(* list.back() and list.pop_back()                                         *)
Back(l)    == l[Len(l)]
PopBack(l) == [j \in 1..Len(l) - 1 |-> l[j]]
=============================================================================
