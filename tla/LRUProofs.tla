----------------------------- MODULE LRUProofs -----------------------------
(***************************************************************************)
(* What TLAPS proves of LRUCache, for every set of keys and values, every  *)
(* size and every number of operations.                                    *)
(***************************************************************************)
EXTENDS LRUCache, SequenceTheorems, FiniteSetTheorems, TLAPS

-----------------------------------------------------------------------------
(* Lemmas about the order.                                                  *)

\* Without takes one element out and moves the later ones forward.
LEMMA WithoutType ==
    ASSUME NEW S, NEW s \in Seq(S), NoDuplicates(s), NEW i \in DOMAIN s
    PROVE  /\ Without(s, s[i]) \in Seq(S)
           /\ Len(Without(s, s[i])) = Len(s) - 1
           /\ \A j \in 1 .. Len(s) - 1 :
                 Without(s, s[i])[j] = IF j < i THEN s[j] ELSE s[j + 1]
<1> DEFINE p == CHOOSE p \in DOMAIN s : s[p] = s[i] /\ \A j \in 1 .. p - 1 : s[j] # s[i]
<1>0. i \in 1 .. Len(s) /\ i \in Nat /\ Len(s) \in Nat
  OBVIOUS
<1>1. \A j \in 1 .. i - 1 : j \in DOMAIN s /\ j # i
  BY <1>0
<1>2. s[i] = s[i] /\ \A j \in 1 .. i - 1 : s[j] # s[i]
  BY <1>1 DEF NoDuplicates
<1>3. p \in DOMAIN s /\ s[p] = s[i]
  BY <1>2
<1>4. p = i
  BY <1>3 DEF NoDuplicates
<1>5. Without(s, s[i]) = SubSeq(s, 1, i - 1) \o SubSeq(s, i + 1, Len(s))
  BY <1>4 DEF Without
<1>6. /\ SubSeq(s, 1, i - 1) \in Seq(S) /\ Len(SubSeq(s, 1, i - 1)) = i - 1
      /\ \A j \in 1 .. i - 1 : SubSeq(s, 1, i - 1)[j] = s[j]
  OBVIOUS
<1>7. /\ SubSeq(s, i + 1, Len(s)) \in Seq(S) /\ Len(SubSeq(s, i + 1, Len(s))) = Len(s) - i
      /\ \A j \in 1 .. Len(s) - i : SubSeq(s, i + 1, Len(s))[j] = s[i + j]
  OBVIOUS
<1> HIDE DEF p
<1> DEFINE a == SubSeq(s, 1, i - 1)
           b == SubSeq(s, i + 1, Len(s))
<1>8. /\ a \o b \in Seq(S) /\ Len(a \o b) = Len(a) + Len(b)
      /\ \A j \in 1 .. Len(a) + Len(b) :
            (a \o b)[j] = IF j <= Len(a) THEN a[j] ELSE b[j - Len(a)]
  BY <1>6, <1>7, ConcatProperties
<1> HIDE DEF a, b
<1>9. \A j \in 1 .. Len(s) - 1 : (a \o b)[j] = IF j < i THEN s[j] ELSE s[j + 1]
  <2> SUFFICES ASSUME NEW j \in 1 .. Len(s) - 1
               PROVE  (a \o b)[j] = IF j < i THEN s[j] ELSE s[j + 1]
    OBVIOUS
  <2>1. Len(a) = i - 1 /\ Len(b) = Len(s) - i
    BY <1>6, <1>7 DEF a, b
  <2>2. j \in 1 .. Len(a) + Len(b)
    BY <2>1, <1>0
  <2>3. CASE j < i
    <3>1. (a \o b)[j] = a[j]
      BY <2>1, <2>2, <2>3, <1>0, <1>8
    <3>2. j \in 1 .. i - 1
      BY <2>3, <1>0
    <3> QED
      BY <3>1, <3>2, <2>3, <1>6 DEF a
  <2>4. CASE ~(j < i)
    <3>1. (a \o b)[j] = b[j - (i - 1)]
      BY <2>1, <2>2, <2>4, <1>0, <1>8
    <3>2. j - (i - 1) \in 1 .. Len(s) - i /\ i + (j - (i - 1)) = j + 1
      BY <2>4, <1>0
    <3> QED
      BY <3>1, <3>2, <2>4, <1>7 DEF b
  <2> QED
    BY <2>3, <2>4
<1>10. Len(a) = i - 1 /\ Len(b) = Len(s) - i
  BY <1>6, <1>7 DEF a, b
<1>11. Len(a) + Len(b) = Len(s) - 1
  BY <1>0, <1>10
<1> QED
  BY <1>5, <1>8, <1>9, <1>11 DEF a, b

\* Sorted by a function of the elements.
Sorted(s, put) == \A i, j \in DOMAIN s : i < j => put[s[i]] < put[s[j]]

\* The key that is put gets the time of the operation, later than all others.
Stamped(put, putNow, now, key) ==
    \A k \in Keys : put[k] < now /\ putNow[k] = IF k = key THEN now ELSE put[k]

\* new is old with the i-th key taken out and key appended.
Requeued(old, new, i, key) ==
    /\ Len(new) = Len(old)
    /\ new[Len(old)] = key
    /\ \A j \in 1 .. Len(old) - 1 : new[j] = IF j < i THEN old[j] ELSE old[j + 1]

\* What Refresh (key is the i-th) and Evict (key is new, i = 1) do to the order.
LEMMA Requeue ==
    ASSUME NEW old \in Seq(Keys), NEW new \in Seq(Keys), NEW i \in DOMAIN old, NEW key \in Keys,
           NoDuplicates(old), Requeued(old, new, i, key),
           key \notin {old[j] : j \in DOMAIN old \ {i}},
           NEW put \in [Keys -> Nat], NEW putNow \in [Keys -> Nat], NEW now \in Nat,
           Stamped(put, putNow, now, key), Sorted(old, put)
    PROVE  /\ NoDuplicates(new)
           /\ Listed(new) = (Listed(old) \ {old[i]}) \cup {key}
           /\ Sorted(new, putNow)
<1> DEFINE n == Len(old)
           from(j) == IF j < i THEN j ELSE j + 1
<1>1. n \in Nat /\ i \in 1 .. n
  OBVIOUS
<1>d. DOMAIN old = 1 .. n /\ DOMAIN new = 1 .. n
  BY DEF Requeued
<1>e. /\ new[n] = key
      /\ \A j \in 1 .. n - 1 : new[j] = IF j < i THEN old[j] ELSE old[j + 1]
  BY DEF Requeued
<1>f. \A j \in 1 .. n : new[j] \in Keys
  BY <1>d
<1> HIDE DEF n
<1>2. n \in 1 .. n /\ new[n] = key
  BY <1>1, <1>e
<1>3. \A j \in 1 .. n - 1 : from(j) \in DOMAIN old /\ from(j) # i /\ new[j] = old[from(j)]
  <2> SUFFICES ASSUME NEW j \in 1 .. n - 1
               PROVE  from(j) \in DOMAIN old /\ from(j) # i /\ new[j] = old[from(j)]
    OBVIOUS
  <2>1. CASE j < i
    BY <2>1, <1>1, <1>d, <1>e
  <2>2. CASE ~(j < i)
    <3>1. from(j) = j + 1 /\ j + 1 \in 1 .. n /\ j + 1 # i
      BY <2>2, <1>1
    <3> QED
      BY <2>2, <3>1, <1>d, <1>e
  <2> QED
    BY <2>1, <2>2
<1>4. \A j \in 1 .. n - 1 : new[j] # key
  BY <1>3
<1>5. \A j, k \in 1 .. n - 1 : j < k => from(j) < from(k)
  <2> SUFFICES ASSUME NEW j \in 1 .. n - 1, NEW k \in 1 .. n - 1, j < k
               PROVE  from(j) < from(k)
    OBVIOUS
  <2> QED
    BY <1>1
<1>6. NoDuplicates(new)
  <2> SUFFICES ASSUME NEW j \in 1 .. n, NEW k \in 1 .. n, new[j] = new[k], j < k
               PROVE  FALSE
    BY <1>1, <1>d DEF NoDuplicates
  <2>1. k \in 1 .. n - 1
    <3>1. j \in 1 .. n - 1
      BY <1>1
    <3>2. new[j] # key
      BY <3>1, <1>4
    <3>3. k # n
      BY <3>2, <1>2
    <3> QED
      BY <3>3, <1>1
  <2>2. j \in 1 .. n - 1
    BY <1>1
  <2>3. old[from(j)] = old[from(k)] /\ from(j) \in DOMAIN old /\ from(k) \in DOMAIN old
    BY <2>1, <2>2, <1>3
  <2>4. from(j) = from(k)
    BY <2>3 DEF NoDuplicates
  <2> QED
    BY <2>1, <2>2, <2>4, <1>5, <1>1
<1>7. Listed(new) = (Listed(old) \ {old[i]}) \cup {key}
  <2>1. ASSUME NEW j \in 1 .. n PROVE new[j] \in (Listed(old) \ {old[i]}) \cup {key}
    <3>1. CASE j = n
      BY <3>1, <1>2
    <3>2. CASE j # n
      <4>1. j \in 1 .. n - 1
        BY <3>2, <1>1
      <4>2. from(j) \in DOMAIN old /\ from(j) # i /\ new[j] = old[from(j)]
        BY <4>1, <1>3
      <4> HIDE DEF from
      <4> QED
        BY <4>2 DEF Listed, NoDuplicates
    <3> QED
      BY <3>1, <3>2
  <2>2. ASSUME NEW j \in 1 .. n, j # i PROVE \E m \in 1 .. n : new[m] = old[j]
    <3>1. CASE j < i
      <4>1. j \in 1 .. n - 1
        BY <3>1, <1>1
      <4> QED
        BY <3>1, <4>1, <1>1, <1>e
    <3>2. CASE j > i
      <4>1. j - 1 \in 1 .. n - 1 /\ ~(j - 1 < i) /\ (j - 1) + 1 = j
        BY <3>2, <1>1
      <4>2. new[j - 1] = old[j]
        BY <4>1, <1>e
      <4> QED
        BY <4>1, <4>2, <1>1
    <3> QED
      BY <3>1, <3>2, <2>2, <1>1
  <2>3. key \in Listed(new)
    BY <1>2, <1>d DEF Listed
  <2>4. \A k \in Listed(old) \ {old[i]} : k \in Listed(new)
    BY <2>2, <1>1, <1>d DEF Listed
  <2>5. \A k \in Listed(new) : k \in (Listed(old) \ {old[i]}) \cup {key}
    BY <2>1, <1>1, <1>d DEF Listed
  <2> QED
    BY <2>3, <2>4, <2>5
<1>8. Sorted(new, putNow)
  <2> SUFFICES ASSUME NEW j \in 1 .. n, NEW k \in 1 .. n, j < k
               PROVE  putNow[new[j]] < putNow[new[k]]
    BY <1>d DEF Sorted
  <2>1. j \in 1 .. n - 1
    BY <1>1
  <2>2. from(j) \in DOMAIN old /\ new[j] = old[from(j)] /\ new[j] # key
    BY <2>1, <1>3, <1>4
  <2>3. new[j] \in Keys /\ putNow[new[j]] = put[new[j]] /\ put[new[j]] < now
    BY <2>2, <1>1, <1>f DEF Stamped
  <2>4. CASE k = n
    BY <2>3, <2>4, <1>2 DEF Stamped
  <2>5. CASE k # n
    <3>1. k \in 1 .. n - 1
      BY <2>5, <1>1
    <3>2. from(k) \in DOMAIN old /\ new[k] = old[from(k)] /\ new[k] # key /\ from(j) < from(k)
      BY <3>1, <2>1, <1>3, <1>4, <1>5
    <3>3. new[k] \in Keys /\ putNow[new[k]] = put[new[k]]
      BY <3>1, <3>2, <1>1, <1>f DEF Stamped
    <3>4. put[old[from(j)]] < put[old[from(k)]]
      <4> HIDE DEF from
      <4> QED
        BY <3>2, <2>2 DEF Sorted
    <3> QED
      BY <3>2, <3>3, <3>4, <2>2, <2>3
  <2> QED
    BY <2>4, <2>5
<1> QED
  BY <1>6, <1>7, <1>8

\* An order to which a new key is appended: what Insert makes of it.
LEMMA Enqueue ==
    ASSUME NEW old \in Seq(Keys), NEW key \in Keys, key \notin Listed(old),
           NoDuplicates(old),
           NEW put \in [Keys -> Nat], NEW putNow \in [Keys -> Nat], NEW now \in Nat,
           Stamped(put, putNow, now, key), Sorted(old, put)
    PROVE  /\ NoDuplicates(Append(old, key))
           /\ Listed(Append(old, key)) = Listed(old) \cup {key}
           /\ Sorted(Append(old, key), putNow)
<1> DEFINE n == Len(old)
           new == Append(old, key)
<1>1. /\ n \in Nat /\ DOMAIN old = 1 .. n /\ DOMAIN new = 1 .. n + 1
      /\ new[n + 1] = key
      /\ \A j \in 1 .. n : new[j] = old[j] /\ old[j] \in Keys /\ old[j] # key
  BY DEF Listed
<1> HIDE DEF n, new
<1>2. NoDuplicates(new)
  BY <1>1 DEF NoDuplicates
<1>3. Listed(new) = Listed(old) \cup {key}
  <2>1. \A k \in Listed(new) : k \in Listed(old) \cup {key}
    BY <1>1 DEF Listed
  <2>2. \A k \in Listed(old) : k \in Listed(new)
    BY <1>1 DEF Listed
  <2>3. n + 1 \in DOMAIN new
    BY <1>1
  <2>4. key \in Listed(new)
    BY <2>3, <1>1 DEF Listed
  <2> QED
    BY <2>1, <2>2, <2>4
<1>4. Sorted(new, putNow)
  <2> SUFFICES ASSUME NEW j \in 1 .. n + 1, NEW k \in 1 .. n + 1, j < k
               PROVE  putNow[new[j]] < putNow[new[k]]
    BY <1>1 DEF Sorted
  <2>1. j \in 1 .. n /\ putNow[new[j]] = put[old[j]] /\ put[old[j]] < now
    BY <1>1 DEF Stamped
  <2>2. CASE k = n + 1
    BY <2>1, <2>2, <1>1 DEF Stamped
  <2>3. CASE k # n + 1
    <3>1. k \in 1 .. n /\ putNow[new[k]] = put[old[k]]
      BY <2>3, <1>1 DEF Stamped
    <3> QED
      BY <3>1, <2>1, <1>1 DEF Sorted
  <2> QED
    BY <2>2, <2>3
<1> QED
  BY <1>2, <1>3, <1>4 DEF new

-----------------------------------------------------------------------------
(* What each action does to the order.                                      *)

LEMMA RefreshOrder ==
    ASSUME TypeOK, OrderMatchesItems, NEW key \in Keys, NEW value \in Values,
           Refresh(key, value)
    PROVE  /\ order' \in Seq(Keys)
           /\ \E i \in DOMAIN order : order[i] = key /\ Requeued(order, order', i, key)
<1>1. PICK i \in DOMAIN order : order[i] = key
  BY DEF Refresh, OrderMatchesItems, Listed
<1>2. order' = Append(Without(order, key), key)
  BY DEF Refresh
<1>0. order \in Seq(Keys) /\ Len(order) \in Nat /\ NoDuplicates(order)
  BY DEF TypeOK, OrderMatchesItems
<1> DEFINE w == Without(order, order[i])
<1>3. /\ order \in Seq(Keys) /\ Len(order) \in Nat
      /\ w \in Seq(Keys) /\ Len(w) = Len(order) - 1
      /\ \A j \in 1 .. Len(order) - 1 : w[j] = IF j < i THEN order[j] ELSE order[j + 1]
  BY <1>0, WithoutType
<1> HIDE DEF w
<1>4. /\ order' \in Seq(Keys) /\ Len(order') = Len(w) + 1
      /\ order'[Len(w) + 1] = key
      /\ \A j \in 1 .. Len(w) : order'[j] = w[j]
  BY <1>1, <1>2, <1>3, AppendProperties DEF w
<1>5. Len(w) + 1 = Len(order)
  BY <1>3
<1>6. Requeued(order, order', i, key)
  BY <1>3, <1>4, <1>5 DEF Requeued
<1> QED
  BY <1>1, <1>4, <1>6

LEMMA EvictOrder ==
    ASSUME TypeOK, OrderMatchesItems, NEW key \in Keys, NEW value \in Values,
           Evict(key, value)
    PROVE  /\ order' \in Seq(Keys)
           /\ 1 \in DOMAIN order /\ Head(order) = order[1]
           /\ Requeued(order, order', 1, key)
<1>1. order \in Seq(Keys) /\ order # << >> /\ Len(order) \in Nat /\ 1 \in DOMAIN order
  BY SizeAssumption DEF Evict, TypeOK
<1> DEFINE t == Tail(order)
<1>2. /\ t \in Seq(Keys) /\ Len(t) = Len(order) - 1
      /\ \A j \in 1 .. Len(t) : t[j] = order[j + 1]
  BY <1>1, HeadTailProperties
<1>3. order' = Append(t, key)
  BY DEF Evict
<1> HIDE DEF t
<1>4. /\ order' \in Seq(Keys) /\ Len(order') = Len(t) + 1
      /\ order'[Len(t) + 1] = key
      /\ \A j \in 1 .. Len(t) : order'[j] = t[j]
  BY <1>2, <1>3, AppendProperties
<1>5. Len(t) + 1 = Len(order)
  BY <1>1, <1>2
<1>6. Requeued(order, order', 1, key)
  BY <1>1, <1>2, <1>4, <1>5 DEF Requeued
<1>7. Head(order) = order[1]
  BY <1>1
<1> QED
  BY <1>1, <1>4, <1>6, <1>7

-----------------------------------------------------------------------------
(* The invariant.                                                           *)

\* The inductive invariant: the order is the order of the last puts.
OrderSorted == Sorted(order, lastPut)
NotLater == \A k \in Keys : lastPut[k] <= clock

CacheInv == TypeOK /\ OrderMatchesItems /\ OrderSorted /\ NotLater /\ KeepsLatestPuts

LEMMA CacheInit == Init => CacheInv
<1> SUFFICES ASSUME Init PROVE CacheInv
  OBVIOUS
<1> USE DEF Init
<1>1. TypeOK
  BY DEF TypeOK, Empty
<1>2. OrderMatchesItems
  BY SizeAssumption DEF OrderMatchesItems, NoDuplicates, Listed, Empty
<1>3. OrderSorted
  BY DEF OrderSorted, Sorted
<1>4. NotLater
  BY DEF NotLater
<1>5. KeepsLatestPuts
  BY DEF KeepsLatestPuts, Empty
<1> QED
  BY <1>1, <1>2, <1>3, <1>4, <1>5 DEF CacheInv

\* What Log notes of a put.
LEMMA PutLogged ==
    ASSUME TypeOK, NotLater, NEW key \in Keys, Log({key})
    PROVE  /\ clock' \in Nat /\ lastPut' \in [Keys -> Nat]
           /\ Stamped(lastPut, lastPut', clock', key)
           /\ NotLater'
<1>1. clock' \in Nat /\ clock' = clock + 1 /\ clock \in Nat
  BY DEF Log, TypeOK
<1>2. /\ lastPut' = [k \in Keys |-> IF k \in {key} THEN clock' ELSE lastPut[k]]
  BY DEF Log
<1>3. lastPut \in [Keys -> Nat]
  BY DEF TypeOK
<1>4. lastPut' \in [Keys -> Nat]
  BY <1>1, <1>2, <1>3
<1>5. \A k \in Keys : lastPut[k] < clock' /\ lastPut'[k] = IF k = key THEN clock' ELSE lastPut[k]
  BY <1>1, <1>2, <1>3 DEF NotLater
<1>6. \A k \in Keys : lastPut'[k] <= clock'
  BY <1>1, <1>3, <1>5
<1> QED
  BY <1>1, <1>4, <1>5, <1>6 DEF Stamped, NotLater

\* What a put leaves in the cache was put later than what it does not: the new
\* key is the latest, the rest was kept before, and only the first of the order
\* may have gone.
LEMMA LatestKept ==
    ASSUME CacheInv, NEW key \in Keys, NEW gone \in SUBSET Keys,
           Stamped(lastPut, lastPut', clock', key),
           DOMAIN items' = (DOMAIN items \ gone) \cup {key},
           lastPut' \in [Keys -> Nat],
           \A g \in gone : \A k \in DOMAIN items \ gone : lastPut[g] < lastPut[k]
    PROVE  KeepsLatestPuts'
<1> SUFFICES ASSUME NEW k \in DOMAIN items', NEW g \in Keys \ DOMAIN items'
             PROVE  lastPut'[g] < lastPut'[k]
  BY DEF KeepsLatestPuts
<1>1. g # key /\ g \in Keys /\ lastPut'[g] = lastPut[g] /\ lastPut[g] < clock'
  BY DEF Stamped
<1>2. CASE k = key
  BY <1>1, <1>2 DEF Stamped
<1>3. CASE k # key
  <2>1. k \in DOMAIN items \ gone /\ k \in Keys
    BY <1>3 DEF CacheInv, TypeOK
  <2>2. lastPut'[k] = lastPut[k]
    BY <1>3, <2>1 DEF Stamped
  <2>3. lastPut[g] < lastPut[k]
    BY <1>1, <2>1 DEF CacheInv, KeepsLatestPuts
  <2> QED
    BY <1>1, <2>2, <2>3
<1> QED
  BY <1>2, <1>3

LEMMA RefreshStep ==
    ASSUME CacheInv, NEW key \in Keys, NEW value \in Values, Refresh(key, value)
    PROVE  CacheInv'
<1>1. TypeOK /\ OrderMatchesItems /\ OrderSorted /\ NotLater /\ clock \in Nat
  BY DEF CacheInv, TypeOK
<1>2. /\ clock' \in Nat /\ lastPut' \in [Keys -> Nat]
      /\ Stamped(lastPut, lastPut', clock', key) /\ NotLater'
  BY <1>1, PutLogged DEF Refresh
<1>3. DOMAIN items' = DOMAIN items /\ key \in DOMAIN items
      /\ items' \in [DOMAIN items' -> Values]
  BY <1>1 DEF Refresh, Updated, TypeOK
<1>4. PICK i \in DOMAIN order : order[i] = key /\ Requeued(order, order', i, key)
  BY <1>1, RefreshOrder
<1>5. order' \in Seq(Keys)
  BY <1>1, RefreshOrder
<1>6. NoDuplicates(order) /\ Listed(order) = DOMAIN items /\ Sorted(order, lastPut)
      /\ order \in Seq(Keys) /\ lastPut \in [Keys -> Nat] /\ Len(order) <= MaxSize
  BY <1>1 DEF OrderMatchesItems, OrderSorted, TypeOK
<1>7. key \notin {order[j] : j \in DOMAIN order \ {i}}
  BY <1>4, <1>6 DEF NoDuplicates
<1>a. Requeued(order, order', i, key)
  BY <1>4
<1>8. /\ NoDuplicates(order')
      /\ Listed(order') = (Listed(order) \ {order[i]}) \cup {key}
      /\ Sorted(order', lastPut')
  BY <1>2, <1>a, <1>5, <1>6, <1>7, Requeue
<1>9. TypeOK'
  BY <1>1, <1>2, <1>3, <1>5 DEF TypeOK
<1>10. OrderMatchesItems'
  BY <1>3, <1>4, <1>6, <1>8 DEF OrderMatchesItems, Requeued
<1>11. KeepsLatestPuts'
  <2>1. {} \in SUBSET Keys /\ DOMAIN items' = (DOMAIN items \ {}) \cup {key}
    BY <1>3
  <2> QED
    BY <1>2, <2>1, LatestKept
<1> QED
  BY <1>2, <1>8, <1>9, <1>10, <1>11 DEF CacheInv, OrderSorted

LEMMA InsertStep ==
    ASSUME CacheInv, NEW key \in Keys, NEW value \in Values, Insert(key, value)
    PROVE  CacheInv'
<1>1. TypeOK /\ OrderMatchesItems /\ OrderSorted /\ NotLater /\ clock \in Nat
  BY DEF CacheInv, TypeOK
<1>2. /\ clock' \in Nat /\ lastPut' \in [Keys -> Nat]
      /\ Stamped(lastPut, lastPut', clock', key) /\ NotLater'
  BY <1>1, PutLogged DEF Insert
<1>3. /\ DOMAIN items' = DOMAIN items \cup {key} /\ key \notin DOMAIN items
      /\ items' \in [DOMAIN items' -> Values]
  BY <1>1 DEF Insert, Updated, TypeOK
<1>4. NoDuplicates(order) /\ Listed(order) = DOMAIN items /\ Sorted(order, lastPut)
      /\ order \in Seq(Keys) /\ lastPut \in [Keys -> Nat]
  BY <1>1 DEF OrderMatchesItems, OrderSorted, TypeOK
<1>5. order' = Append(order, key) /\ Len(order) < MaxSize
  BY DEF Insert
<1>6. /\ NoDuplicates(order')
      /\ Listed(order') = Listed(order) \cup {key}
      /\ Sorted(order', lastPut')
  BY <1>2, <1>3, <1>4, <1>5, Enqueue
<1>7. order' \in Seq(Keys) /\ Len(order') = Len(order) + 1
  BY <1>4, <1>5, AppendProperties
<1>8. TypeOK'
  BY <1>1, <1>2, <1>3, <1>7 DEF TypeOK
<1>9. Len(order') <= MaxSize
  BY <1>4, <1>5, <1>7, SizeAssumption
<1>10. OrderMatchesItems'
  BY <1>3, <1>4, <1>6, <1>9 DEF OrderMatchesItems
<1>11. KeepsLatestPuts'
  <2>1. {} \in SUBSET Keys /\ DOMAIN items' = (DOMAIN items \ {}) \cup {key}
    BY <1>3
  <2> QED
    BY <1>2, <2>1, LatestKept
<1> QED
  BY <1>2, <1>6, <1>8, <1>10, <1>11 DEF CacheInv, OrderSorted

LEMMA EvictStep ==
    ASSUME CacheInv, NEW key \in Keys, NEW value \in Values, Evict(key, value)
    PROVE  CacheInv'
<1>1. TypeOK /\ OrderMatchesItems /\ OrderSorted /\ NotLater /\ clock \in Nat
  BY DEF CacheInv, TypeOK
<1>2. /\ clock' \in Nat /\ lastPut' \in [Keys -> Nat]
      /\ Stamped(lastPut, lastPut', clock', key) /\ NotLater'
  BY <1>1, PutLogged DEF Evict
<1>3. /\ order' \in Seq(Keys) /\ 1 \in DOMAIN order /\ Head(order) = order[1]
      /\ Requeued(order, order', 1, key)
  BY <1>1, EvictOrder
<1> DEFINE gone == order[1]
<1>4. NoDuplicates(order) /\ Listed(order) = DOMAIN items /\ Sorted(order, lastPut)
      /\ order \in Seq(Keys) /\ lastPut \in [Keys -> Nat] /\ Len(order) <= MaxSize
  BY <1>1 DEF OrderMatchesItems, OrderSorted, TypeOK
<1>5. /\ DOMAIN items' = (DOMAIN items \ {gone}) \cup {key} /\ key \notin DOMAIN items
      /\ items' \in [DOMAIN items' -> Values]
  BY <1>1, <1>3 DEF Evict, Updated, TypeOK
<1>6. key \notin {order[j] : j \in DOMAIN order \ {1}}
  BY <1>4, <1>5 DEF Listed
<1>7. /\ NoDuplicates(order')
      /\ Listed(order') = (Listed(order) \ {gone}) \cup {key}
      /\ Sorted(order', lastPut')
  BY <1>2, <1>3, <1>4, <1>6, Requeue
<1>8. TypeOK'
  BY <1>1, <1>2, <1>3, <1>5 DEF TypeOK
<1>9. OrderMatchesItems'
  BY <1>3, <1>4, <1>5, <1>7 DEF OrderMatchesItems, Requeued
<1>10. gone \in Keys /\ \A k \in DOMAIN items \ {gone} : lastPut[gone] < lastPut[k]
  <2>1. gone \in Keys
    BY <1>3, <1>4
  <2>2. ASSUME NEW k \in DOMAIN items \ {gone} PROVE lastPut[gone] < lastPut[k]
    <3>1. PICK j \in DOMAIN order : order[j] = k
      BY <1>4 DEF Listed
    <3>2. 1 < j
      BY <3>1, <1>4
    <3> QED
      BY <3>1, <3>2, <1>3, <1>4 DEF Sorted
  <2> QED
    BY <2>1, <2>2
<1>11. KeepsLatestPuts'
  <2>1. {gone} \in SUBSET Keys /\
        \A g \in {gone} : \A k \in DOMAIN items \ {gone} : lastPut[g] < lastPut[k]
    BY <1>10
  <2> HIDE DEF gone
  <2> QED
    BY <1>2, <1>5, <2>1, LatestKept
<1> QED
  BY <1>2, <1>7, <1>8, <1>9, <1>11 DEF CacheInv, OrderSorted

LEMMA GetStep ==
    ASSUME CacheInv, NEW key \in Keys, Get(key)
    PROVE  CacheInv'
<1>1. TypeOK /\ OrderMatchesItems /\ OrderSorted /\ NotLater /\ KeepsLatestPuts
  BY DEF CacheInv
<1>2. /\ items' = items /\ order' = order
      /\ clock' = clock + 1 /\ clock \in Nat
      /\ lastPut' = [k \in Keys |-> IF k \in {} THEN clock' ELSE lastPut[k]]
      /\ lastPut \in [Keys -> Nat]
  BY <1>1 DEF Get, Log, TypeOK
<1>3. lastPut' = lastPut
  BY <1>2
<1>5. TypeOK'
  BY <1>1, <1>2, <1>3 DEF TypeOK
<1>6. OrderMatchesItems'
  BY <1>1, <1>2 DEF OrderMatchesItems
<1>7. OrderSorted'
  BY <1>1, <1>2, <1>3 DEF OrderSorted
<1>8. NotLater'
  BY <1>1, <1>2, <1>3 DEF NotLater
<1>9. KeepsLatestPuts'
  BY <1>1, <1>2, <1>3 DEF KeepsLatestPuts
<1> QED
  BY <1>5, <1>6, <1>7, <1>8, <1>9 DEF CacheInv

LEMMA ClearStep == CacheInv /\ Clear => CacheInv'
<1> SUFFICES ASSUME CacheInv, Clear PROVE CacheInv'
  OBVIOUS
<1>1. /\ items' = [k \in {} |-> k] /\ order' = << >>
      /\ clock' \in Nat
      /\ lastPut' = [k \in Keys |-> 0]
  BY DEF Clear, Empty, CacheInv, TypeOK
<1>2. TypeOK'
  BY <1>1 DEF TypeOK
<1>3. OrderMatchesItems'
  BY <1>1, SizeAssumption DEF OrderMatchesItems, NoDuplicates, Listed
<1>4. OrderSorted'
  BY <1>1 DEF OrderSorted, Sorted
<1>5. NotLater'
  BY <1>1 DEF NotLater
<1>6. KeepsLatestPuts'
  BY <1>1 DEF KeepsLatestPuts
<1> QED
  BY <1>2, <1>3, <1>4, <1>5, <1>6 DEF CacheInv

LEMMA CacheStep == CacheInv /\ [Next]_vars => CacheInv'
<1> SUFFICES ASSUME CacheInv, [Next]_vars PROVE CacheInv'
  OBVIOUS
<1>1. ASSUME NEW key \in Keys, NEW value \in Values, Put(key, value) PROVE CacheInv'
  BY <1>1, RefreshStep, InsertStep, EvictStep DEF Put
<1>2. ASSUME NEW key \in Keys, Get(key) PROVE CacheInv'
  BY <1>2, GetStep
<1>3. CASE Clear
  BY <1>3, ClearStep
<1>4. CASE UNCHANGED vars
  BY <1>4 DEF vars, history, CacheInv, TypeOK, OrderMatchesItems, OrderSorted, NotLater,
              KeepsLatestPuts
<1> QED
  BY <1>1, <1>2, <1>3, <1>4 DEF Next, Done

-----------------------------------------------------------------------------
(* The theorems.                                                            *)

\* lru.go: the map and the slice stay what NewLRUCache made them.
THEOREM CacheTypeCorrect == Spec => []TypeOK
<1>1. CacheInv => TypeOK
  BY DEF CacheInv
<1> QED
  BY CacheInit, CacheStep, <1>1, PTL DEF Spec

\* LRUCache.Put: the slice lists every key of the map once and never outgrows
\* maxSize, so an eviction finds an entry and removes it entirely.
THEOREM OrderCorrect == Spec => []OrderMatchesItems
<1>1. CacheInv => OrderMatchesItems
  BY DEF CacheInv
<1> QED
  BY CacheInit, CacheStep, <1>1, PTL DEF Spec

\* LRUCache.Put: what was evicted had been put before everything that is left.
THEOREM LatestPutsKept == Spec => []KeepsLatestPuts
<1>1. CacheInv => KeepsLatestPuts
  BY DEF CacheInv
<1> QED
  BY CacheInit, CacheStep, <1>1, PTL DEF Spec

-----------------------------------------------------------------------------
(* The refinement of BoundedMap.                                            *)

\* As many entries as places in the order.
LEMMA EntriesCounted ==
    TypeOK /\ OrderMatchesItems =>
        /\ IsFiniteSet(DOMAIN items) /\ Cardinality(DOMAIN items) = Len(order)
        /\ Len(order) \in Nat
<1> SUFFICES ASSUME TypeOK, OrderMatchesItems
             PROVE  /\ IsFiniteSet(DOMAIN items) /\ Cardinality(DOMAIN items) = Len(order)
                    /\ Len(order) \in Nat
  OBVIOUS
<1>1. order \in Seq(Keys) /\ Len(order) \in Nat /\ NoDuplicates(order)
      /\ Listed(order) = DOMAIN items
  BY DEF TypeOK, OrderMatchesItems
<1>2. order \in Bijection(1 .. Len(order), DOMAIN items)
  <2>1. DOMAIN order = 1 .. Len(order) /\ order = [i \in 1 .. Len(order) |-> order[i]]
    BY <1>1
  <2>2. order \in [1 .. Len(order) -> DOMAIN items]
    BY <1>1, <2>1 DEF Listed
  <2>3. \A i, j \in 1 .. Len(order) : order[i] = order[j] => i = j
    BY <1>1, <2>1 DEF NoDuplicates
  <2>4. \A k \in DOMAIN items : \E i \in 1 .. Len(order) : order[i] = k
    BY <1>1, <2>1 DEF Listed
  <2> QED
    BY <2>2, <2>3, <2>4 DEF Bijection, Injection, IsInjective, Surjection
<1>3. ExistsBijection(1 .. Len(order), DOMAIN items)
  BY <1>2 DEF ExistsBijection
<1> QED
  BY <1>1, <1>3, FS_CountingElements, FS_NatBijection

\* BoundedMap counts with its own instance of FiniteSets.
LEMMA SameCardinality == ASSUME NEW S PROVE Promise!Cardinality(S) = Cardinality(S)
BY DEF Promise!Cardinality, Cardinality

LEMMA PutPromise ==
    ASSUME CacheInv, CacheInv', NEW key \in Keys, NEW value \in Values, Put(key, value)
    PROVE  Promise!Put(key, value)
<1> SUFFICES \E kept \in SUBSET DOMAIN items :
                /\ IF Cardinality(DOMAIN items \cup {key}) <= MaxSize
                   THEN kept = DOMAIN items
                   ELSE \E lost \in DOMAIN items \ {key} : kept = DOMAIN items \ {lost}
                /\ Cardinality(kept \cup {key}) <= MaxSize
                /\ items' = [k \in kept \cup {key} |-> IF k = key THEN value ELSE items[k]]
  BY SameCardinality DEF Promise!Put
<1>1. /\ TypeOK /\ OrderMatchesItems
      /\ IsFiniteSet(DOMAIN items) /\ Cardinality(DOMAIN items) = Len(order)
      /\ Len(order) <= MaxSize /\ Len(order) \in Nat
  BY EntriesCounted DEF CacheInv, OrderMatchesItems
<1>2. (TypeOK /\ OrderMatchesItems)' =>
         (Cardinality(DOMAIN items) = Len(order))'
  BY EntriesCounted, PTL
<1>3. Cardinality(DOMAIN items') <= MaxSize
  BY <1>2 DEF CacheInv, OrderMatchesItems
<1>4. Cardinality(DOMAIN items \cup {key}) =
         IF key \in DOMAIN items THEN Len(order) ELSE Len(order) + 1
  BY <1>1, FS_AddElement
<1>5. CASE Refresh(key, value)
  <2>1. /\ DOMAIN items' = DOMAIN items \cup {key}
        /\ items' = [k \in DOMAIN items \cup {key} |-> IF k = key THEN value ELSE items[k]]
        /\ Cardinality(DOMAIN items \cup {key}) <= MaxSize
    BY <1>5, <1>1, <1>4 DEF Refresh, Updated
  <2> WITNESS DOMAIN items \in SUBSET DOMAIN items
  <2> QED
    BY <2>1
<1>6. CASE Insert(key, value)
  <2>1. /\ items' = [k \in DOMAIN items \cup {key} |-> IF k = key THEN value ELSE items[k]]
        /\ Cardinality(DOMAIN items \cup {key}) <= MaxSize
    BY <1>6, <1>1, <1>4, SizeAssumption DEF Insert, Updated
  <2> WITNESS DOMAIN items \in SUBSET DOMAIN items
  <2> QED
    BY <2>1
<1>7. CASE Evict(key, value)
  <2> DEFINE kept == DOMAIN items \ {order[1]}
  <2>1. order[1] \in DOMAIN items \ {key} /\ Head(order) = order[1]
    BY <1>7, <1>1, EvictOrder DEF Evict, OrderMatchesItems, Listed
  <2>2. items' = [k \in kept \cup {key} |-> IF k = key THEN value ELSE items[k]]
    BY <1>7, <2>1 DEF Evict, Updated
  <2>3. kept \in SUBSET DOMAIN items /\ Cardinality(kept \cup {key}) <= MaxSize
    BY <1>3, <2>2
  <2>4. ~(Cardinality(DOMAIN items \cup {key}) <= MaxSize)
    BY <1>7, <1>1, <1>4, SizeAssumption DEF Evict
  <2> WITNESS kept \in SUBSET DOMAIN items
  <2> QED
    BY <2>1, <2>2, <2>3, <2>4
<1> QED
  BY <1>5, <1>6, <1>7 DEF Put

\* BoundedMap is what a caller of Get and Put may rely on: entries are what
\* was put, never more than maxSize, and one is lost only for a new key.
THEOREM CacheImplementsBoundedMap == Spec => ImplementsBoundedMap
<1>1. Init => Promise!Init
  BY DEF Init, Empty, Promise!Init
<1>2. CacheInv /\ CacheInv' /\ [Next]_vars => [Promise!Next]_items
  <2> SUFFICES ASSUME CacheInv, CacheInv', [Next]_vars PROVE [Promise!Next]_items
    OBVIOUS
  <2>1. ASSUME NEW key \in Keys, NEW value \in Values, Put(key, value) PROVE Promise!Next
    BY <2>1, PutPromise DEF Promise!Next
  <2>2. ASSUME NEW key \in Keys, Get(key) PROVE items' = items
    BY <2>2 DEF Get
  <2>3. CASE Clear
    BY <2>3 DEF Clear, Empty, Promise!Next, Promise!Clear
  <2>4. CASE UNCHANGED vars
    BY <2>4 DEF vars
  <2> QED
    BY <2>1, <2>2, <2>3, <2>4 DEF Next, Done
<1> QED
  BY CacheInit, CacheStep, <1>1, <1>2, PTL DEF Spec, ImplementsBoundedMap, Promise!Spec
=============================================================================
