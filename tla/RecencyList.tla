---------------------------- MODULE RecencyList ----------------------------
(***************************************************************************)
(* What the tables with a fixed number of entries per set promise (the     *)
(* branch target buffer, the sets of a cache with LRU replacement): a set  *)
(* holds the keys used last, each once, in the order of their last use.    *)
(***************************************************************************)
EXTENDS Integers, Sequences, FiniteSets, SequencesExt

CONSTANTS Blank      \* the key of an entry that was never used
VARIABLE lists       \* of each set, its keys, the one used last first

Keys(list) == ToSet(list) \ {Blank}

Init ==
  \A s \in DOMAIN lists : Keys(lists[s]) = {}

(* A key that is there moves to the front; one that is not takes the place *)
(* of the one whose use is longest ago.                                    *)
Used(list, key) ==
  IF key \in ToSet(list)
  THEN <<key>> \o SelectSeq(list, LAMBDA other : other # key)
  ELSE <<key>> \o SubSeq(list, 1, Len(list) - 1)

Use(s) ==
  \E key \in Keys(lists'[s]) : lists' = [lists EXCEPT ![s] = Used(@, key)]

Next == \E s \in DOMAIN lists : Use(s)

Spec == Init /\ [][Next]_lists
=============================================================================
