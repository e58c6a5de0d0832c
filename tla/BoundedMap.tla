----------------------------- MODULE BoundedMap -----------------------------
(***************************************************************************)
(* What a cache of strings promises to its users: a map that never holds   *)
(* more than MaxSize entries, keeps what is put into it, loses an entry    *)
(* only when a new key does not fit, and then only one.                    *)
(***************************************************************************)
EXTENDS Naturals, FiniteSets

CONSTANTS Keys, Values, MaxSize

VARIABLE map    \* a function from some of the keys to values

Init == map = [k \in {} |-> k]

Put(key, value) ==
    \E kept \in SUBSET DOMAIN map :
        /\ IF Cardinality(DOMAIN map \cup {key}) <= MaxSize
           THEN kept = DOMAIN map
           ELSE \E lost \in DOMAIN map \ {key} : kept = DOMAIN map \ {lost}
        /\ Cardinality(kept \cup {key}) <= MaxSize
        /\ map' = [k \in kept \cup {key} |-> IF k = key THEN value ELSE map[k]]

Clear == map' = [k \in {} |-> k]

Next == Clear \/ \E key \in Keys, value \in Values : Put(key, value)

Spec == Init /\ [][Next]_map
=============================================================================
