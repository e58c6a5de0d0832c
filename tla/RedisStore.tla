----------------------------- MODULE RedisStore -----------------------------
(***************************************************************************)
(* The session store with Redis behind it: the other half of every function *)
(* of store/session_store.go, as the handlers of api/handlers.go call it.    *)
(* A save is SET and SADD, a deletion DEL and SREM, in a pipeline that is no *)
(* transaction: the commands of others come between the two, and a lost      *)
(* connection or a timeout cuts it short.  A save writes the whole chat that *)
(* its request read before the model answered.                               *)
(***************************************************************************)
EXTENDS Naturals, FiniteSets

CONSTANTS
    Chats,
    MaxRequests     \* bound: requests in a behaviour

VARIABLES
    stored,     \* the chats that have a key
    turns,      \* the requests whose turns each chat holds
    listed,     \* chat:sessions:list
    step,       \* where each request is
    work,       \* its kind, its chat, the turns it read, whether it could and when
    wrote,      \* when it wrote or deleted its chat's key, if it did
    unlisted,   \* when it took its chat off the list, if it did
    expired,    \* when each chat's 24 hours last ended, if they did
    commands    \* the number of reads, writes and expiries so far

redisVars == <<stored, turns, listed, step, work, wrote, unlisted, expired, commands>>

Requests == 1 .. MaxRequests
Kinds == {"turn", "reset", "create", "delete"}
Steps == {"none", "set", "sadd", "srem", "over", "broken"}
Work == [kind : Kinds, chat : Chats, turns : SUBSET Requests, failed : BOOLEAN, readAt : Nat]

RedisTypeOK ==
    /\ stored \subseteq Chats
    /\ turns \in [Chats -> SUBSET Requests]
    /\ listed \subseteq Chats
    /\ step \in [Requests -> Steps]
    /\ work \in [Requests -> Work]
    /\ wrote \in [Requests -> Nat]
    /\ unlisted \in [Requests -> Nat]
    /\ expired \in [Chats -> Nat]
    /\ commands \in Nat

Fresh(k, c) == [kind |-> k, chat |-> c, turns |-> {}, failed |-> FALSE, readAt |-> 0]

RedisInit ==
    /\ stored = {} /\ listed = {}
    /\ turns = [c \in Chats |-> {}]
    /\ step = [r \in Requests |-> "none"]
    /\ \E c \in Chats : work = [r \in Requests |-> Fresh("turn", c)]  \* none yet
    /\ wrote = [r \in Requests |-> 0] /\ unlisted = [r \in Requests |-> 0]
    /\ expired = [c \in Chats |-> 0]
    /\ commands = 0

Goto(r, s) == step' = [step EXCEPT ![r] = s]
Now == commands + 1

Named(r, c) == step[r] # "none" /\ work[r].chat = c

\* Requests are numbered as they begin.
Begins(r) == step[r] = "none" /\ \A q \in 1 .. r - 1 : step[q] # "none"

\* POST /api/chats draws an id that nobody uses.
Create(r) ==
    /\ Begins(r)
    /\ \E c \in Chats :
         /\ \A q \in Requests : ~Named(q, c)
         /\ work' = [work EXCEPT ![r] = Fresh("create", c)]
    /\ Goto(r, "set")
    /\ UNCHANGED <<stored, turns, listed, wrote, unlisted, expired, commands>>

Creating(c) == \E q \in Requests : Named(q, c) /\ work[q].kind = "create" /\ step[q] \in {"set", "sadd"}

Session(k, c, read, failed) ==
    [kind |-> k, chat |-> c, turns |-> read, failed |-> failed, readAt |-> Now]

\* A request to answer, or to reset the chat, begins with GetSession.  A key that is
\* missing reads as an empty session.
Read(r, c) ==
    /\ Begins(r) /\ ~Creating(c)
    /\ \E k \in {"turn", "reset"} : work' = [work EXCEPT ![r] = Session(k, c, turns[c], FALSE)]
    /\ Goto(r, "set")
    /\ commands' = Now
    /\ UNCHANGED <<stored, turns, listed, wrote, unlisted, expired>>

\* An error of Redis or of the decoder: a chat request goes on with an empty session
\* (resolveChatSession).  A reset would be over, and nothing changed.
ReadFails(r, c) ==
    /\ Begins(r) /\ ~Creating(c)
    /\ work' = [work EXCEPT ![r] = Session("turn", c, {}, TRUE)]
    /\ Goto(r, "set")
    /\ commands' = Now
    /\ UNCHANGED <<stored, turns, listed, wrote, unlisted, expired>>

\* (Mutant: only the new turn is saved.)
NewTurnOnly(r) == {r}
UpdatedHistory(r) == IF work[r].kind = "turn" THEN work[r].turns \cup {r} ELSE {}

-----------------------------------------------------------------------------
(* The pipelines.                                                            *)

\* (Mutant: a chat that was there is not listed again.)
ListIfNew(r) == IF work[r].turns = {} THEN "sadd" ELSE "over"
ListAlways(r) == "sadd"

Set(r) ==
    /\ step[r] = "set"
    /\ stored' = stored \cup {work[r].chat}
    /\ turns' = [turns EXCEPT ![work[r].chat] = UpdatedHistory(r)]
    /\ Goto(r, ListAlways(r))
    /\ wrote' = [wrote EXCEPT ![r] = Now]
    /\ commands' = Now
    /\ UNCHANGED <<listed, work, unlisted, expired>>

SAdd(r) ==
    /\ step[r] = "sadd"
    /\ listed' = listed \cup {work[r].chat}
    /\ Goto(r, "over")
    /\ UNCHANGED <<stored, turns, work, wrote, unlisted, expired, commands>>

Del(r, c) ==
    /\ Begins(r) /\ ~Creating(c)
    /\ stored' = stored \ {c}
    /\ turns' = [turns EXCEPT ![c] = {}]
    /\ work' = [work EXCEPT ![r] = Fresh("delete", c)]
    /\ Goto(r, "srem")
    /\ wrote' = [wrote EXCEPT ![r] = Now]
    /\ commands' = Now
    /\ UNCHANGED <<listed, unlisted, expired>>

SRem(r) ==
    /\ step[r] = "srem"
    /\ listed' = listed \ {work[r].chat}
    /\ Goto(r, "over")
    /\ unlisted' = [unlisted EXCEPT ![r] = Now]
    /\ commands' = Now
    /\ UNCHANGED <<stored, turns, work, wrote, expired>>

\* The request fails before it saves, or the rest of its pipeline is lost, which whoever
\* saved a chat only logs.
Break(r) ==
    /\ step[r] \in {"set", "sadd", "srem"}
    /\ Goto(r, "broken")
    /\ UNCHANGED <<stored, turns, listed, work, wrote, unlisted, expired, commands>>

\* Redis drops the key 24 hours after it was set; the list keeps the id.
Expire(c) ==
    /\ c \in stored
    /\ stored' = stored \ {c}
    /\ turns' = [turns EXCEPT ![c] = {}]
    /\ expired' = [expired EXCEPT ![c] = Now]
    /\ commands' = Now
    /\ UNCHANGED <<listed, step, work, wrote, unlisted>>

Request(r) ==
    \/ Create(r)
    \/ \E c \in Chats : Read(r, c)
    \/ \E c \in Chats : ReadFails(r, c)
    \/ \E c \in Chats : Del(r, c)
    \/ Set(r) \/ SAdd(r) \/ SRem(r) \/ Break(r)

RedisNext ==
    \/ \E r \in Requests : Request(r)
    \/ \E c \in Chats : Expire(c)

RedisSpec == RedisInit /\ [][RedisNext]_redisVars

-----------------------------------------------------------------------------
\* Why the turn that t saved may be gone: its chat expired, was reset or deleted, or
\* another request saved over it that had read the chat before, or could not read it.
OverwrittenBy(t, r) ==
    /\ work[r].chat = work[t].chat
    /\ wrote[r] > wrote[t]
    /\ work[r].kind # "create"
    /\ work[r].kind = "turn" => work[r].failed \/ work[r].readAt < wrote[t]

Excused(t) ==
    \/ expired[work[t].chat] > wrote[t]
    \/ \E r \in Requests : OverwrittenBy(t, r)

\* A turn that was saved stays in its chat, whatever else is read and saved, however
\* pipelines interleave or break, unless one of these excuses it.
TurnsKept ==
    \A t \in Requests :
        work[t].kind = "turn" /\ wrote[t] > 0 => t \in turns[work[t].chat] \/ Excused(t)

\* The latest request that saved the chat.
LastSave(c, s) ==
    /\ work[s].chat = c /\ work[s].kind # "delete" /\ wrote[s] > 0
    /\ \A q \in Requests :
         work[q].chat = c /\ work[q].kind # "delete" => wrote[q] <= wrote[s]

\* A chat that has a key is on the list, or its latest save has not listed it yet, or
\* lost its pipeline, or came between the two commands of a deletion.
StoredIsListed ==
    \A c \in stored \ listed : \A s \in Requests : LastSave(c, s) =>
        \/ step[s] \in {"sadd", "broken"}
        \/ \E d \in Requests :
             /\ work[d].chat = c /\ work[d].kind = "delete"
             /\ wrote[d] < wrote[s] /\ wrote[s] < unlisted[d]
=============================================================================
