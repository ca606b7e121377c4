------------------------------ MODULE LruSpec ------------------------------
(***************************************************************************)
(* "A least-recently-used cache with the given maximum size" (docstring of *)
(* lru_cache, helpers/cache.py): the cached keys in the order of their     *)
(* latest use, where only the least recently used one is ever dropped.     *)
(***************************************************************************)
EXTENDS Naturals, Sequences

CONSTANTS Keys,     \* the argument tuples of the cached function
          MaxSize   \* the given maximum size

VARIABLE recent     \* the cached keys, least recently used first

Init == recent = <<>>

WithoutPlace(i) ==
  SubSeq(recent, 1, i - 1) \o SubSeq(recent, i + 1, Len(recent))

(* A call that returns a value for k; earlier calls have made room. *)
Use(k) ==
  /\ Len(recent) <= MaxSize
  /\ \/ /\ \A i \in 1..Len(recent) : recent[i] # k
        /\ recent' = Append(recent, k)
     \/ \E i \in 1..Len(recent) : /\ recent[i] = k
                                  /\ recent' = Append(WithoutPlace(i), k)

(* The cache is over-full: the least recently used key is dropped. *)
Evict == /\ Len(recent) > MaxSize
         /\ recent' = Tail(recent)

Next == (\E k \in Keys : Use(k)) \/ Evict

Spec == Init /\ [][Next]_recent
=============================================================================
