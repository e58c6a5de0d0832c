---------------------------- MODULE SessionStore ----------------------------
(***************************************************************************)
(* store/session_store.go with its in-memory backend, as the chat handlers *)
(* of api/handlers.go use it.                                              *)
(*                                                                         *)
(* The table maps a chat to a pointer.  A handler reads the session behind *)
(* the pointer after it has given memMu back, works on an object of its    *)
(* own, and hands that object's pointer to the table when it saves.  So    *)
(* objects have an identity here: request n owns object n.                 *)
(***************************************************************************)
EXTENDS Naturals, Sequences, FiniteSets

CONSTANTS
    Ids,            \* chat ids
    Clients,        \* request goroutines
    MaxSessions,    \* maxMemSessions, 1000
    MaxAge,         \* maxSessionAge, 24 h
    MaxTurns,       \* bound: requests in one behaviour
    MaxTime         \* bound: when the clock stops

ASSUME IdsAssumption == IsFiniteSet(Ids) /\ Ids # {}
ASSUME SessionsAssumption == MaxSessions \in Nat \ {0}
ASSUME LimitAssumption == MaxAge \in Nat /\ MaxTurns \in Nat /\ MaxTime \in Nat

VARIABLES
    now,      \* the clock
    table,    \* memSessions: id -> object, or Nil
    heap,     \* object -> ChatSession
    pc,       \* where each request is
    frame,    \* the locals of each request
    turns     \* requests so far

vars == <<now, table, heap, pc, frame, turns>>

Nil == 0
Objects == 1 .. MaxTurns

\* A message that make has left room for and no loop has copied: a zero Message.
\* The reads it comes from race with a write; what a torn slice header would
\* show in its place is this token too.
Lost == 0

\* turns: the requests whose messages the session holds.
Messages == Seq(Objects \cup {Lost})
Zeroed(messages) == [i \in DOMAIN messages |-> Lost]
ChatSession == [turns : Messages, at : Nat]
Blank == [turns |-> << >>, at |-> 0]

\* sess: the request's own object.  seen: the pointer it found in the table.
\* found: what that pointer showed at the time (history, no action reads it).
Frame == [id : Ids, sess : Objects \cup {Nil}, seen : Objects \cup {Nil},
          found : Messages]
NoFrame == [id |-> CHOOSE id \in Ids : TRUE, sess |-> Nil, seen |-> Nil, found |-> << >>]

Places == {"idle", "check", "copy", "make", "fill", "reset", "work", "save"}

TypeOK ==
    /\ now \in Nat
    /\ table \in [Ids -> 0 .. turns]
    /\ heap \in [Objects -> ChatSession]
    /\ pc \in [Clients -> Places]
    /\ frame \in [Clients -> Frame]
    /\ turns \in 0 .. MaxTurns

Init ==
    /\ now = 0
    /\ table = [id \in Ids |-> Nil]
    /\ heap = [o \in Objects |-> Blank]
    /\ pc = [c \in Clients |-> "idle"]
    /\ frame = [c \in Clients |-> NoFrame]
    /\ turns = 0

Goto(c, from, to) == pc[c] = from /\ pc' = [pc EXCEPT ![c] = to]
Set(object, session) == heap' = [heap EXCEPT ![object] = session]

Stored == {id \in Ids : table[id] # Nil}
At(id) == heap[table[id]].at

\* What the table shows to everybody.
Chats == [id \in Stored |-> heap[table[id]]]

-----------------------------------------------------------------------------
(* A chat request: get, work, save.                                         *)

Open(c, id, found) ==
    /\ turns < MaxTurns
    /\ turns' = turns + 1
    /\ frame' = [frame EXCEPT ![c] = [id |-> id, sess |-> turns', seen |-> table[id],
                                      found |-> found]]

\* GetSession finds nothing: a new empty session.
GetMissing(c) ==
    /\ Goto(c, "idle", "work")
    /\ \E id \in Ids \ Stored : Open(c, id, << >>)
    /\ UNCHANGED <<now, table, heap>>

\* GetSession finds a pointer, and unlocks.
GetFound(c) ==
    /\ Goto(c, "idle", "check")
    /\ \E id \in Stored : Open(c, id, heap[table[id]].turns)
    /\ UNCHANGED <<now, table, heap>>

Old(session) == now - session.at > MaxAge

FindFresh(c) ==
    /\ Goto(c, "check", "copy")
    /\ ~Old(heap[frame[c].seen])
    /\ UNCHANGED <<now, table, heap, frame, turns>>

FindOld(c) ==
    /\ Goto(c, "check", "reset")
    /\ Old(heap[frame[c].seen])
    /\ UNCHANGED <<now, table, heap, frame, turns>>

\* GetSession reads the session it found three times, without the lock: the
\* struct, the length of its messages, and the messages.
CopyStruct(c) ==
    /\ Goto(c, "copy", "make")
    /\ Set(frame[c].sess, heap[frame[c].seen])
    /\ UNCHANGED <<now, table, frame, turns>>

MakeRoom(c) ==
    /\ Goto(c, "make", "fill")
    /\ heap' = [heap EXCEPT ![frame[c].sess].turns = Zeroed(heap[frame[c].seen].turns)]
    /\ UNCHANGED <<now, table, frame, turns>>

\* (Mutant: the table's own object is returned.)
CopyPointer(c) ==
    /\ Goto(c, "fill", "work")
    /\ frame' = [frame EXCEPT ![c].sess = frame[c].seen]
    /\ UNCHANGED <<now, table, heap, turns>>

\* (Mutant: the loop stops one message short.)
CopyShort(c) ==
    /\ Goto(c, "fill", "work")
    /\ LET found == heap[frame[c].seen].turns IN
       heap' = [heap EXCEPT ![frame[c].sess].turns =
                   [i \in DOMAIN @ |-> IF i < Len(found) THEN found[i] ELSE @[i]]]
    /\ UNCHANGED <<now, table, frame, turns>>

\* The loop goes over what the session holds by now.
CopyMessages(c) ==
    /\ Goto(c, "fill", "work")
    /\ LET found == heap[frame[c].seen].turns IN
       heap' = [heap EXCEPT ![frame[c].sess].turns =
                   [i \in DOMAIN @ |-> IF i \in DOMAIN found THEN found[i] ELSE @[i]]]
    /\ UNCHANGED <<now, table, frame, turns>>

\* ResetSession empties, in place, whatever the table now holds for the chat;
\* the request goes on with an empty session of its own.
\* (Mutant: it does not look whether the session is still there.)
ResetMissing(c) ==
    /\ Goto(c, "reset", "work")
    /\ heap' = [o \in Objects \cup {table[frame[c].id]} |->
                   IF o = table[frame[c].id] THEN [turns |-> << >>, at |-> now] ELSE heap[o]]
    /\ UNCHANGED <<now, table, frame, turns>>

ResetSession(c) ==
    /\ Goto(c, "reset", "work")
    /\ heap' = [o \in Objects |-> IF o = table[frame[c].id]
                                  THEN [turns |-> << >>, at |-> now] ELSE heap[o]]
    /\ UNCHANGED <<now, table, frame, turns>>

\* The agent has answered: the handler adds the turn, and SaveSession stamps
\* the session before it locks.
Stamp(c) ==
    /\ Goto(c, "work", "save")
    /\ LET sess == frame[c].sess IN
       Set(sess, [turns |-> Append(heap[sess].turns, sess), at |-> now])
    /\ UNCHANGED <<now, table, frame, turns>>

\* Nothing is saved: the agent has failed, or the request was a GET of the
\* history, which only looks.
Fail(c) ==
    /\ Goto(c, "work", "idle")
    /\ frame' = [frame EXCEPT ![c] = NoFrame]
    /\ UNCHANGED <<now, table, heap, turns>>

\* POST /api/chats: an empty session under a new id.
Create(c) ==
    /\ Goto(c, "idle", "save")
    /\ turns < MaxTurns
    /\ turns' = turns + 1
    /\ Set(turns', [turns |-> << >>, at |-> now])
    /\ \E id \in Ids \ (Stored \cup {frame[d].id : d \in {d \in Clients : pc[d] # "idle"}}) :
          frame' = [frame EXCEPT ![c] = [id |-> id, sess |-> turns', seen |-> Nil,
                                         found |-> << >>]]
    /\ UNCHANGED <<now, table>>

-----------------------------------------------------------------------------
(* SaveSession under memMu.                                                 *)

\* (Mutant: off by one.)
RoomForOneMore == Cardinality(Stored) <= MaxSessions
Room == Cardinality(Stored) < MaxSessions

\* (Mutant: the comparison is the wrong way round.)
NewestStored == {id \in Stored : \A other \in Stored : At(id) >= At(other)}
OldestStored == {id \in Stored : \A other \in Stored : At(id) <= At(other)}

Put(c, kept) ==
    /\ Goto(c, "save", "idle")
    /\ table' = [id \in Ids |-> IF id = frame[c].id THEN frame[c].sess
                                ELSE IF id \in kept THEN table[id] ELSE Nil]
    /\ frame' = [frame EXCEPT ![c] = NoFrame]
    /\ UNCHANGED <<now, heap, turns>>

Save(c) == Room /\ Put(c, Stored)

\* A full table loses its oldest session, even when the saved one is in it.
SaveEvicting(c) == ~Room /\ \E old \in OldestStored : Put(c, Stored \ {old})

DeleteSession(id) ==
    /\ id \in Stored
    /\ table' = [table EXCEPT ![id] = Nil]
    /\ UNCHANGED <<now, heap, pc, frame, turns>>

Tick ==
    /\ now < MaxTime
    /\ now' = now + 1
    /\ UNCHANGED <<table, heap, pc, frame, turns>>

Get(c) ==
    \/ GetMissing(c) \/ GetFound(c) \/ FindFresh(c) \/ FindOld(c)
    \/ CopyStruct(c) \/ MakeRoom(c) \/ CopyMessages(c) \/ ResetSession(c)

Answer(c) == Stamp(c) \/ Fail(c) \/ Create(c) \/ Save(c) \/ SaveEvicting(c)

\* The bounds are used up.
Done ==
    /\ now = MaxTime /\ turns = MaxTurns /\ Stored = {}
    /\ \A c \in Clients : pc[c] = "idle"
    /\ UNCHANGED vars

Next ==
    \/ \E c \in Clients : Get(c) \/ Answer(c)
    \/ \E id \in Ids : DeleteSession(id)
    \/ Tick \/ Done

Spec == Init /\ [][Next]_vars

-----------------------------------------------------------------------------
\* GetSession returns "a copy to prevent external modifications": no request
\* works on an object that the table or another request can reach for writing,
\* and no two chats share one.
OwnCopies ==
    /\ \A c \in Clients : pc[c] # "idle" =>
          /\ \A id \in Ids : table[id] # frame[c].sess
          /\ \A d \in Clients \ {c} : pc[d] # "idle" => frame[d].sess # frame[c].sess
    /\ \A id, other \in Ids : table[id] = table[other] /\ table[id] # Nil => id = other

\* What a request is about to save is all that its chat held when it asked, and
\* then its own turn; or its own turn alone, and that only if what it found was
\* emptied meanwhile or was too old.  Emptied between the copy's reads, a chat
\* may also leave its length behind: nothing but lost messages before the turn.
\* Never a part of the chat, and never a turn that came in between.
Emptied(c) ==
    frame[c].seen # Nil /\ (heap[frame[c].seen].turns = << >> \/ Old(heap[frame[c].seen]))

AllOrNothing ==
    \A c \in Clients : pc[c] = "save" =>
        LET kept  == heap[frame[c].sess].turns
            found == frame[c].found
        IN  \/ kept = Append(found, frame[c].sess)
            \/ kept = Append(Zeroed(found), frame[c].sess) /\ Emptied(c)
            \/ kept = <<frame[c].sess>> /\ Emptied(c)
            \/ kept = << >> /\ frame[c].seen = Nil

\* Seen from outside, the store is SessionTable: unfinished work does not show,
\* and only a full table loses a chat, one of the oldest.
Table == INSTANCE SessionTable WITH chats <- Chats
ImplementsSessionTable == Table!Spec
=============================================================================
