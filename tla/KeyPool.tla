------------------------------ MODULE KeyPool ------------------------------
(***************************************************************************)
(* Requests to Gemini with a pool of API keys: SimpleGeminiProvider         *)
(* (providers/simple_gemini_pool.go) over SimpleKeyPool                      *)
(* (utils/simple_key_pool.go).  Every attempt takes the next key of the one  *)
(* index that all requests share, under the pool's lock; the attempt itself  *)
(* is made with no lock held.                                                *)
(***************************************************************************)
EXTENDS Integers, FiniteSets

CONSTANTS
    Senders,        \* the requests that send a message
    KeysCount,      \* keys that are not blank
    MaxRetries,
    MaxUses         \* bound: keys taken in a behaviour

VARIABLES
    index,      \* of the key that the next attempt takes
    uses,       \* how often each key was taken
    doing,      \* where each request is
    attempt,    \* its attempts
    before      \* the uses of each key when the request began

poolVars == <<index, uses, doing, attempt, before>>

PoolKeys == 0 .. KeysCount - 1

Total == LET sum[n \in 0 .. KeysCount] == IF n = 0 THEN 0 ELSE sum[n - 1] + uses[n - 1]
         IN  sum[KeysCount]

PoolTypeOK ==
    /\ index \in PoolKeys
    /\ uses \in [PoolKeys -> Nat]
    /\ doing \in [Senders -> {"ready", "calling", "answered", "failed"}]
    /\ attempt \in [Senders -> 0 .. MaxRetries * KeysCount]
    /\ before \in [Senders -> [PoolKeys -> Nat]]

\* A pool is not built without keys.
PoolInit ==
    /\ KeysCount > 0
    /\ index = 0
    /\ uses = [k \in PoolKeys |-> 0]
    /\ doing = [r \in Senders |-> "ready"]
    /\ attempt = [r \in Senders |-> 0]
    /\ before = [r \in Senders |-> [k \in PoolKeys |-> 0]]

\* (Mutant: after a failure the key is taken again.)
SameIndex == index
NextIndex == (index + 1) % KeysCount

\* (Mutant: the retries do not grow with the pool.)
FewAttempts == MaxRetries
AllAttempts == MaxRetries * KeysCount

GetRoundRobinKey(r) ==
    /\ doing[r] = "ready"
    /\ attempt[r] < AllAttempts
    /\ Total < MaxUses
    /\ uses' = [uses EXCEPT ![index] = @ + 1]
    /\ doing' = [doing EXCEPT ![r] = "calling"]
    /\ attempt' = [attempt EXCEPT ![r] = @ + 1]
    /\ before' = [before EXCEPT ![r] = IF attempt[r] = 0 THEN uses ELSE @]
    /\ index' = NextIndex

\* Whatever the error is, a bad key or another, the next key is tried.
Called(r) ==
    /\ doing[r] = "calling"
    /\ \E next \in {"ready", "answered"} : doing' = [doing EXCEPT ![r] = next]
    /\ UNCHANGED <<index, uses, attempt, before>>

GiveUp(r) ==
    /\ doing[r] = "ready"
    /\ attempt[r] = AllAttempts
    /\ doing' = [doing EXCEPT ![r] = "failed"]
    /\ UNCHANGED <<index, uses, attempt, before>>

SendMessage(r) == GetRoundRobinKey(r) \/ Called(r) \/ GiveUp(r)

PoolNext == \E r \in Senders : SendMessage(r)

PoolSpec == PoolInit /\ [][PoolNext]_poolVars

-----------------------------------------------------------------------------
\* However requests interleave, no key is used twice more than another: the load
\* is shared.
KeysShared == \A j, k \in PoolKeys : uses[j] <= uses[k] + 1

\* A request gives up only after every key has had its turn MaxRetries times since
\* it began, though some of the turns may have been another request's.
GivesUpLate ==
    \A r \in Senders : doing[r] = "failed" =>
        \A k \in PoolKeys : uses[k] >= before[r][k] + MaxRetries
=============================================================================
