---------------------------- MODULE ReadThrough ----------------------------
(***************************************************************************)
(* What a cache in front of a slow service promises.  Five caches of the   *)
(* server have this shape: reports (worldnews/service.go), favicons and     *)
(* pictures (worldnews/media.go), documents (tools/registry/registry.go).   *)
(* The entry is looked up under a read lock, the service is asked with no   *)
(* lock held, the answer is stored under the write lock: callers that miss  *)
(* together all ask, and store in the order in which they finish.           *)
(***************************************************************************)
EXTENDS Integers

CONSTANTS
    Keys, Callers,
    TTL,            \* life of an entry
    MaxFetch,       \* no service call takes longer (the HTTP client's timeout)
    KeepsFailure,   \* the keys whose failures are stored too: documents
    MaxTime

ASSUME ReadThroughAssumption ==
    /\ TTL \in Nat \ {0}
    /\ MaxFetch \in Nat
    /\ MaxTime \in Nat
    /\ KeepsFailure \subseteq Keys

VARIABLES
    now,
    cache,      \* the entry of each key
    call        \* where each caller is, and the answer it holds

vars == <<now, cache, call>>

Time == 0 .. MaxTime

\* `asked`: when the service was; what it says may be as old as that.
Answer == [key : Keys, asked : Time, ok : BOOLEAN]
Nothing == [none |-> TRUE]
Entry == [answer : Answer, expires : Nat]

Phases == {"idle", "fetching", "fetched", "answered"}
Call == [phase : Phases, key : Keys, since : Time, answer : Answer]

TypeOK ==
    /\ now \in Time
    /\ cache \in [Keys -> Entry \cup {Nothing}]
    /\ call \in [Callers -> Call]

\* Where a call is that has no answer yet.
Waiting(phase, k, t) ==
    [phase |-> phase, key |-> k, since |-> t, answer |-> [key |-> k, asked |-> t, ok |-> FALSE]]

Init ==
    /\ now = 0
    /\ cache = [k \in Keys |-> Nothing]
    /\ call \in [Callers -> {Waiting("idle", k, 0) : k \in Keys}]

\* The mutant keeps an entry one tick too long.
LiveForLonger(k) == cache[k] # Nothing /\ now <= cache[k].expires
Live(k) == cache[k] # Nothing /\ now < cache[k].expires

Hit(c, k) ==
    /\ call[c].phase = "idle"
    /\ Live(k)
    /\ call' = [call EXCEPT ![c] =
            [phase |-> "answered", key |-> k, since |-> now, answer |-> cache[k].answer]]
    /\ UNCHANGED <<now, cache>>

Miss(c, k) ==
    /\ call[c].phase = "idle"
    /\ ~Live(k)
    /\ call' = [call EXCEPT ![c] = Waiting("fetching", k, now)]
    /\ UNCHANGED <<now, cache>>

\* A failure that is not kept is returned at once.
Fetched(old, ok) ==
    [phase |-> IF ok \/ old.key \in KeepsFailure THEN "fetched" ELSE "answered",
     key |-> old.key, since |-> old.since,
     answer |-> [key |-> old.key, asked |-> old.since, ok |-> ok]]

Fetch(c) ==
    /\ call[c].phase = "fetching"
    /\ \E ok \in BOOLEAN :
         call' = [call EXCEPT ![c] = Fetched(call[c], ok)]
    /\ UNCHANGED <<now, cache>>

Store(c) ==
    /\ call[c].phase = "fetched"
    /\ cache' = [cache EXCEPT ![call[c].key] =
                    [answer |-> call[c].answer, expires |-> now + TTL]]
    /\ call' = [call EXCEPT ![c].phase = "answered"]
    /\ UNCHANGED now

Return(c) ==
    /\ call[c].phase = "answered"
    /\ call' = [call EXCEPT ![c] = Waiting("idle", call[c].key, 0)]
    /\ UNCHANGED <<now, cache>>

\* Time passes, but a service call ends in time.
Tick ==
    /\ now < MaxTime
    /\ \A c \in Callers :
         call[c].phase \in {"fetching", "fetched"} => now < call[c].since + MaxFetch
    /\ now' = now + 1
    /\ UNCHANGED <<cache, call>>

Step(c) ==
    \/ \E k \in Keys : Hit(c, k)
    \/ \E k \in Keys : Miss(c, k)
    \/ Fetch(c)
    \/ Store(c)
    \/ Return(c)

Next ==
    \/ \E c \in Callers : Step(c)
    \/ Tick

Spec == Init /\ [][Next]_vars

-----------------------------------------------------------------------------
\* An answer is about the key that was asked for, and nothing in it is older
\* than an entry's life and one service call, however calls overlap.  A failure
\* is the caller's own, unless failures are kept.
RecentAnswer(c) ==
    call[c].phase = "answered" =>
        /\ call[c].answer.key = call[c].key
        /\ call[c].since < call[c].answer.asked + MaxFetch + TTL
        /\ call[c].answer.ok \/ call[c].key \in KeepsFailure \/ call[c].answer.asked = call[c].since

AnswersAreRecent == \A c \in Callers : RecentAnswer(c)
=============================================================================
