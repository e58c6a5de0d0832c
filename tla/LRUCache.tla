------------------------------ MODULE LRUCache ------------------------------
(***************************************************************************)
(* cache/lru.go: a map of strings of bounded size and the order in which   *)
(* its keys leave.  Every method holds the cache's mutex from its first    *)
(* statement to its last, so each is one action.                           *)
(*                                                                         *)
(* clock and lastPut are history variables: no action looks at them, they  *)
(* only say when each key was last put.                                    *)
(***************************************************************************)
EXTENDS Naturals, Sequences, FiniteSets

CONSTANTS
    Keys, Values,
    MaxSize,        \* maxCacheEntries, 200 in core/dispatcher.go
    MaxOps          \* bound: operations in one behaviour

ASSUME SizeAssumption == MaxSize \in Nat \ {0}
ASSUME OpsAssumption == MaxOps \in Nat

VARIABLES
    items,      \* the cached entries: a function from some of the keys
    order,      \* their keys, the next to leave first
    clock, lastPut

history == <<clock, lastPut>>
vars == <<items, order, history>>

TypeOK ==
    /\ DOMAIN items \subseteq Keys /\ items \in [DOMAIN items -> Values]
    /\ order \in Seq(Keys)
    /\ clock \in Nat
    /\ lastPut \in [Keys -> Nat]

Empty == [k \in {} |-> k]

Init ==
    /\ items = Empty /\ order = << >>
    /\ clock = 0
    /\ lastPut = [k \in Keys |-> 0]

\* One more operation; puts are the keys it puts.
Log(puts) ==
    /\ clock < MaxOps
    /\ clock' = clock + 1
    /\ lastPut' = [k \in Keys |-> IF k \in puts THEN clock' ELSE lastPut[k]]

\* The sequence without the first occurrence of key.
Without(s, key) ==
    IF \E i \in DOMAIN s : s[i] = key
    THEN LET i == CHOOSE i \in DOMAIN s : s[i] = key /\ \A j \in 1 .. i - 1 : s[j] # key
         IN  SubSeq(s, 1, i - 1) \o SubSeq(s, i + 1, Len(s))
    ELSE s

Updated(kept, key, value) ==
    [k \in kept \cup {key} |-> IF k = key THEN value ELSE items[k]]

\* Put of a key that is there: it goes to the end of the order.
\* (Mutant: its old place is not taken out of the order.)
RefreshKeepsPlace(key, value) ==
    /\ key \in DOMAIN items
    /\ items' = Updated(DOMAIN items, key, value)
    /\ order' = Append(order, key)
    /\ Log({key})

\* (Mutant: the order is left alone.)
RefreshInPlace(key, value) ==
    /\ key \in DOMAIN items
    /\ items' = Updated(DOMAIN items, key, value)
    /\ Log({key})
    /\ UNCHANGED order

Refresh(key, value) ==
    /\ key \in DOMAIN items
    /\ items' = Updated(DOMAIN items, key, value)
    /\ order' = Append(Without(order, key), key)
    /\ Log({key})

\* Put of a new key that fits ...
Insert(key, value) ==
    /\ key \notin DOMAIN items /\ Len(order) < MaxSize
    /\ items' = Updated(DOMAIN items, key, value)
    /\ order' = Append(order, key)
    /\ Log({key})

\* ... and of one that pushes another out.
\* (Mutant: the key leaves the order, its value stays.)
EvictForgetsKeyOnly(key, value) ==
    /\ key \notin DOMAIN items /\ Len(order) >= MaxSize
    /\ items' = Updated(DOMAIN items, key, value)
    /\ order' = Append(Tail(order), key)
    /\ Log({key})

Evict(key, value) ==
    /\ key \notin DOMAIN items /\ Len(order) >= MaxSize
    /\ items' = Updated(DOMAIN items \ {Head(order)}, key, value)
    /\ order' = Append(Tail(order), key)
    /\ Log({key})

Put(key, value) == Refresh(key, value) \/ Insert(key, value) \/ Evict(key, value)

\* A hit leaves the cache as it is.
Get(key) ==
    /\ Log({})
    /\ UNCHANGED <<items, order>>

Clear ==
    /\ items' = Empty /\ order' = << >>
    /\ clock < MaxOps
    /\ clock' = clock + 1
    /\ lastPut' = [k \in Keys |-> 0]

\* The bound on operations is used up.
Done == clock = MaxOps /\ UNCHANGED vars

Next ==
    \/ \E key \in Keys, value \in Values : Put(key, value)
    \/ \E key \in Keys : Get(key)
    \/ Clear \/ Done

Spec == Init /\ [][Next]_vars

-----------------------------------------------------------------------------
\* The order lists every cached key once, and there are at most MaxSize: an
\* eviction always has an entry to remove, and removes a whole entry.
NoDuplicates(s) == \A i, j \in DOMAIN s : s[i] = s[j] => i = j
Listed(s) == {s[i] : i \in DOMAIN s}
OrderMatchesItems ==
    /\ NoDuplicates(order) /\ Listed(order) = DOMAIN items
    /\ Len(order) <= MaxSize

\* The cache holds the keys that were put last: whatever it has lost was put
\* before everything it still holds.
KeepsLatestPuts ==
    \A k \in DOMAIN items, gone \in Keys \ DOMAIN items : lastPut[gone] < lastPut[k]

\* The cache is a bounded map that drops one entry when it must, never else.
Promise == INSTANCE BoundedMap WITH map <- items
ImplementsBoundedMap == Promise!Spec
=============================================================================
