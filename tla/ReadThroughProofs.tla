-------------------------- MODULE ReadThroughProofs --------------------------
(***************************************************************************)
(* A cache in front of a slow service keeps what it promises, for any keys, *)
(* callers and times, however the callers overlap.                          *)
(***************************************************************************)
EXTENDS ReadThrough, TLAPS

-----------------------------------------------------------------------------
(* The invariant.                                                           *)

\* An entry is about its key, was asked for a life and a service call before it
\* expires, and is a failure only where failures are kept.
SoundEntry(k) ==
    cache[k] # Nothing =>
        /\ cache[k].answer.key = k
        /\ cache[k].expires <= cache[k].answer.asked + MaxFetch + TTL
        /\ cache[k].answer.ok \/ k \in KeepsFailure

\* A service call in progress began when it says, and has not taken too long.
SoundFetch(c) ==
    call[c].phase \in {"fetching", "fetched"} =>
        /\ call[c].answer.key = call[c].key
        /\ call[c].answer.asked = call[c].since
        /\ call[c].since <= now /\ now <= call[c].since + MaxFetch
        /\ call[c].phase = "fetched" => call[c].answer.ok \/ call[c].key \in KeepsFailure

SoundCall(c) == SoundFetch(c) /\ RecentAnswer(c)

CachesInv ==
    /\ TypeOK
    /\ \A k \in Keys : SoundEntry(k)
    /\ \A c \in Callers : SoundCall(c)

-----------------------------------------------------------------------------
LEMMA WaitingIsCall ==
    ASSUME NEW phase \in Phases, NEW k \in Keys, NEW t \in Time
    PROVE  Waiting(phase, k, t) \in Call
BY DEF Waiting, Call, Answer

\* What a step does to the one call it is about, to the cache and to nothing else.
LEMMA OneCallChanges ==
    ASSUME CachesInv, NEW c \in Callers, NEW new \in Call, call' = [call EXCEPT ![c] = new],
           UNCHANGED <<now, cache>>, SoundCall(c)'
    PROVE  CachesInv'
<1>1. TypeOK'
    BY DEF CachesInv, TypeOK
<1>2. \A k \in Keys : SoundEntry(k)'
    BY DEF CachesInv, SoundEntry
<1>3. ASSUME NEW d \in Callers PROVE SoundCall(d)'
  <2>1. CASE d = c
      BY <2>1
  <2>2. CASE d # c
    <3>1. call'[d] = call[d] /\ now' = now
        BY <2>2 DEF CachesInv, TypeOK
    <3>. QED  BY <3>1 DEF CachesInv, SoundCall, SoundFetch, RecentAnswer
  <2>. QED  BY <2>1, <2>2
<1>. QED  BY <1>1, <1>2, <1>3 DEF CachesInv

LEMMA HitPreserves ==
    ASSUME CachesInv, NEW c \in Callers, NEW k \in Keys, Hit(c, k)
    PROVE  CachesInv'
<1>. DEFINE new == [phase |-> "answered", key |-> k, since |-> now, answer |-> cache[k].answer]
<1>1. cache[k] \in Entry /\ SoundEntry(k) /\ now < cache[k].expires /\ now \in Time
    BY DEF Hit, Live, CachesInv, TypeOK
<1>2. new \in Call
    BY <1>1 DEF Call, Phases, Entry
<1>3. call'[c] = new /\ call' = [call EXCEPT ![c] = new] /\ UNCHANGED <<now, cache>>
    BY DEF Hit, CachesInv, TypeOK
<1>4. now < cache[k].answer.asked + MaxFetch + TTL
  <2>1. /\ cache[k].expires \in Nat /\ cache[k].answer.asked \in Nat
        /\ MaxFetch \in Nat /\ TTL \in Nat /\ now \in Nat
      BY <1>1, ReadThroughAssumption DEF Entry, Answer, Time
  <2>2. cache[k].expires <= cache[k].answer.asked + MaxFetch + TTL
      BY <1>1 DEF SoundEntry, Hit, Live
  <2>. QED  BY <1>1, <2>1, <2>2
<1>5. RecentAnswer(c)'
    BY <1>1, <1>3, <1>4 DEF RecentAnswer, SoundEntry, Hit, Live
<1>6. SoundFetch(c)'
    BY <1>3 DEF SoundFetch
<1>. QED  BY <1>2, <1>3, <1>5, <1>6, OneCallChanges DEF SoundCall

LEMMA MissPreserves ==
    ASSUME CachesInv, NEW c \in Callers, NEW k \in Keys, Miss(c, k)
    PROVE  CachesInv'
<1>. DEFINE new == Waiting("fetching", k, now)
<1>1. now \in Time /\ now \in Nat /\ MaxFetch \in Nat
    BY ReadThroughAssumption DEF CachesInv, TypeOK, Time
<1>2. new \in Call
    BY <1>1, WaitingIsCall DEF Phases
<1>3. call'[c] = new /\ call' = [call EXCEPT ![c] = new] /\ UNCHANGED <<now, cache>>
    BY DEF Miss, CachesInv, TypeOK
<1>4. SoundFetch(c)' /\ RecentAnswer(c)'
    BY <1>1, <1>3 DEF SoundFetch, RecentAnswer, Waiting
<1>. QED  BY <1>2, <1>3, <1>4, OneCallChanges DEF SoundCall

LEMMA FetchPreserves ==
    ASSUME CachesInv, NEW c \in Callers, Fetch(c)
    PROVE  CachesInv'
<1>1. PICK ok \in BOOLEAN : call' = [call EXCEPT ![c] = Fetched(call[c], ok)]
    BY DEF Fetch
<1>. DEFINE old == call[c]
            new == Fetched(old, ok)
<1>2. old \in Call /\ SoundFetch(c) /\ old.phase = "fetching" /\ UNCHANGED <<now, cache>>
    BY DEF Fetch, CachesInv, TypeOK, SoundCall
<1>3. new \in Call
    BY <1>2 DEF Call, Answer, Phases, Fetched
<1>4. call'[c] = new
    BY <1>1 DEF CachesInv, TypeOK
<1>5. old.since <= now /\ now <= old.since + MaxFetch
    BY <1>2 DEF SoundFetch
<1>6. old.since \in Nat /\ MaxFetch \in Nat /\ TTL \in Nat \ {0}
    BY <1>2, ReadThroughAssumption DEF Call, Time
<1>7. SoundFetch(c)'
    BY <1>2, <1>4, <1>5 DEF SoundFetch, Fetched
<1>8. RecentAnswer(c)'
    BY <1>4, <1>6 DEF RecentAnswer, Fetched
<1>. QED  BY <1>1, <1>2, <1>3, <1>7, <1>8, OneCallChanges DEF SoundCall

LEMMA StorePreserves ==
    ASSUME CachesInv, NEW c \in Callers, Store(c)
    PROVE  CachesInv'
<1>. DEFINE old == call[c]
            entry == [answer |-> old.answer, expires |-> now + TTL]
            new == [old EXCEPT !.phase = "answered"]
<1>1. /\ old \in Call /\ SoundFetch(c) /\ old.phase = "fetched" /\ now \in Time
      /\ cache' = [cache EXCEPT ![old.key] = entry] /\ call' = [call EXCEPT ![c] = new] /\ now' = now
    BY DEF Store, CachesInv, TypeOK, SoundCall
<1>2. now \in Nat /\ TTL \in Nat \ {0} /\ MaxFetch \in Nat
    BY <1>1, ReadThroughAssumption DEF Time
<1>3. old.key \in Keys /\ old.answer \in Answer /\ entry \in Entry
    BY <1>1, <1>2 DEF Call, Entry
<1>4. new \in Call
    BY <1>1 DEF Call, Phases
<1>5. /\ old.answer.key = old.key /\ old.answer.asked = old.since
      /\ old.since <= now /\ now <= old.since + MaxFetch
      /\ old.answer.ok \/ old.key \in KeepsFailure
    BY <1>1 DEF SoundFetch
<1>6. TypeOK'
    BY <1>1, <1>3, <1>4 DEF CachesInv, TypeOK
<1>7. old.since \in Nat
    BY <1>1 DEF Call, Time
<1>8. now + TTL <= old.since + MaxFetch + TTL
    BY <1>2, <1>5, <1>7
<1>9. ASSUME NEW k \in Keys PROVE SoundEntry(k)'
  <2>1. CASE k = old.key
    <3>1. cache'[k] = entry
        BY <1>1, <2>1 DEF CachesInv, TypeOK
    <3>. QED  BY <1>5, <1>8, <2>1, <3>1 DEF SoundEntry
  <2>2. CASE k # old.key
    <3>1. cache'[k] = cache[k]
        BY <1>1, <2>2 DEF CachesInv, TypeOK
    <3>. QED  BY <3>1 DEF CachesInv, SoundEntry
  <2>. QED  BY <2>1, <2>2
<1>10. ASSUME NEW d \in Callers PROVE SoundCall(d)'
  <2>1. CASE d = c
    <3>1. call'[d] = new
        BY <1>1, <2>1 DEF CachesInv, TypeOK
    <3>2. new.phase = "answered" /\ new.key = old.key /\ new.since = old.since /\ new.answer = old.answer
        BY <1>1 DEF Call
    <3>3. SoundFetch(d)'
        BY <3>1, <3>2 DEF SoundFetch
    <3>4. RecentAnswer(d)'
        BY <1>2, <1>5, <1>7, <3>1, <3>2 DEF RecentAnswer
    <3>. QED  BY <3>3, <3>4 DEF SoundCall
  <2>2. CASE d # c
    <3>1. call'[d] = call[d] /\ now' = now
        BY <1>1, <2>2 DEF CachesInv, TypeOK
    <3>. QED  BY <3>1 DEF CachesInv, SoundCall, SoundFetch, RecentAnswer
  <2>. QED  BY <2>1, <2>2
<1>. QED  BY <1>6, <1>9, <1>10 DEF CachesInv

LEMMA ReturnPreserves ==
    ASSUME CachesInv, NEW c \in Callers, Return(c)
    PROVE  CachesInv'
<1>. DEFINE new == Waiting("idle", call[c].key, 0)
<1>1. call[c].key \in Keys /\ 0 \in Time
    BY ReadThroughAssumption DEF CachesInv, TypeOK, Call, Time
<1>2. new \in Call
    BY <1>1, WaitingIsCall DEF Phases
<1>3. call'[c] = new /\ call' = [call EXCEPT ![c] = new] /\ UNCHANGED <<now, cache>>
    BY DEF Return, CachesInv, TypeOK
<1>4. SoundFetch(c)' /\ RecentAnswer(c)'
    BY <1>3 DEF SoundFetch, RecentAnswer, Waiting
<1>. QED  BY <1>2, <1>3, <1>4, OneCallChanges DEF SoundCall

LEMMA TickPreserves ==
    ASSUME CachesInv, Tick
    PROVE  CachesInv'
<1>1. TypeOK'
    BY ReadThroughAssumption DEF Tick, CachesInv, TypeOK, Time
<1>2. \A k \in Keys : SoundEntry(k)'
    BY DEF Tick, CachesInv, SoundEntry
<1>3. ASSUME NEW c \in Callers PROVE SoundCall(c)'
  <2>1. call[c] \in Call /\ now \in Nat /\ MaxFetch \in Nat
      BY ReadThroughAssumption DEF CachesInv, TypeOK, Time
  <2>2. call[c].since \in Nat
      BY <2>1 DEF Call, Time
  <2>3. SoundFetch(c)'
      BY <2>1, <2>2 DEF Tick, CachesInv, SoundCall, SoundFetch
  <2>4. RecentAnswer(c)'
      BY DEF Tick, CachesInv, SoundCall, RecentAnswer
  <2>. QED  BY <2>3, <2>4 DEF SoundCall
<1>. QED  BY <1>1, <1>2, <1>3 DEF CachesInv

-----------------------------------------------------------------------------
LEMMA CachesInit == Init => CachesInv
<1>. SUFFICES ASSUME Init PROVE CachesInv
    OBVIOUS
<1>1. 0 \in Time /\ now = 0
    BY ReadThroughAssumption DEF Init, Time
<1>2. \A k \in Keys : Waiting("idle", k, 0) \in Call
    BY <1>1, WaitingIsCall DEF Phases
<1>3. TypeOK
    BY <1>1, <1>2 DEF Init, TypeOK
<1>4. \A k \in Keys : SoundEntry(k)
    BY DEF Init, SoundEntry
<1>5. ASSUME NEW c \in Callers PROVE SoundCall(c)
  <2>1. call[c].phase = "idle"
      BY DEF Init, Waiting
  <2>. QED  BY <2>1 DEF SoundCall, SoundFetch, RecentAnswer
<1>. QED  BY <1>3, <1>4, <1>5 DEF CachesInv

LEMMA CachesStep == CachesInv /\ [Next]_vars => CachesInv'
<1>. SUFFICES ASSUME CachesInv, [Next]_vars PROVE CachesInv'
    OBVIOUS
<1>1. ASSUME NEW c \in Callers, Step(c) PROVE CachesInv'
  <2>1. CASE \E k \in Keys : Hit(c, k)
      BY <2>1, HitPreserves
  <2>2. CASE \E k \in Keys : Miss(c, k)
      BY <2>2, MissPreserves
  <2>3. CASE Fetch(c)
      BY <2>3, FetchPreserves
  <2>4. CASE Store(c)
      BY <2>4, StorePreserves
  <2>5. CASE Return(c)
      BY <2>5, ReturnPreserves
  <2>. QED  BY <1>1, <2>1, <2>2, <2>3, <2>4, <2>5 DEF Step
<1>2. CASE Tick
    BY <1>2, TickPreserves
<1>3. CASE UNCHANGED vars
    BY <1>3 DEF vars, CachesInv, TypeOK, SoundEntry, SoundCall, SoundFetch, RecentAnswer
<1>. QED  BY <1>1, <1>2, <1>3 DEF Next

LEMMA CachesSound == Spec => []CachesInv
<1>. QED  BY CachesInit, CachesStep, PTL DEF Spec

\* The state of the caches and of their callers is what it should be, whatever the
\* keys and the callers are.
THEOREM ReadThroughTyped == Spec => []TypeOK
<1>1. CachesInv => TypeOK
    BY DEF CachesInv
<1>. QED  BY <1>1, CachesSound, PTL

\* However many callers miss together and in whatever order they store, nobody is
\* given an answer about another key, a failure that is not kept, or an answer
\* older than an entry's life and one service call (service.go GetReport, media.go
\* FetchFavicon and FetchProxiedImage, registry.go LoadDocumentWithMetadata).
THEOREM AnswersAlwaysRecent == Spec => []AnswersAreRecent
<1>1. CachesInv => AnswersAreRecent
    BY DEF CachesInv, SoundCall, AnswersAreRecent
<1>. QED  BY <1>1, CachesSound, PTL
=============================================================================
