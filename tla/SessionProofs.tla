---------------------------- MODULE SessionProofs ----------------------------
(***************************************************************************)
(* What TLAPS proves of SessionStore, for every set of chats and clients,  *)
(* every capacity and age limit, and any number of requests.               *)
(***************************************************************************)
EXTENDS SessionStore, FiniteSetTheorems, TLAPS

-----------------------------------------------------------------------------
(* The inductive invariant.                                                 *)

\* A request under way owns an object, and a lookup that found a session
\* points to one.
Reading == {"check", "copy", "make", "fill"}

Locals ==
    \A c \in Clients :
        /\ pc[c] # "idle" => frame[c].sess \in 1 .. turns
        /\ pc[c] \in Reading => frame[c].seen \in Objects

USE DEF Places, Reading

Capacity == Cardinality(Stored) <= MaxSessions

StoreInv == TypeOK /\ Locals /\ OwnCopies /\ Capacity

\* What a request does to its own locals and the table leaves the invariant.
LEMMA NoFrameType == NoFrame \in Frame
BY IdsAssumption DEF Messages, NoFrame, Frame, Nil

LEMMA StoredFinite ==
    IsFiniteSet(Stored) /\ Cardinality(Stored) \in Nat
BY IdsAssumption, FS_Subset, FS_CardinalityType DEF Stored

LEMMA StoreInit == Init => StoreInv
<1> SUFFICES ASSUME Init PROVE StoreInv
  OBVIOUS
<1>1. TypeOK
  BY NoFrameType, LimitAssumption
     DEF Messages, Init, TypeOK, Nil, Blank, ChatSession, Objects
<1>2. Locals
  BY DEF Init, Locals
<1>3. OwnCopies
  BY DEF Init, OwnCopies, Nil
<1>4. Stored = {}
  BY DEF Init, Stored, Nil
<1>5. Capacity
  BY <1>4, FS_EmptySet, SessionsAssumption DEF Capacity
<1> QED
  BY <1>1, <1>2, <1>3, <1>5 DEF StoreInv

\* A request enters with an object nobody has.
LEMMA OpenStep ==
    ASSUME StoreInv, NEW c \in Clients, NEW id \in Ids, NEW found \in Messages,
           NEW place \in {"check", "work"}, Goto(c, "idle", place), Open(c, id, found),
           place = "check" => id \in Stored,
           UNCHANGED <<now, table, heap>>
    PROVE  TypeOK' /\ Locals' /\ OwnCopies'
<1> USE DEF StoreInv
<1>1. /\ turns' = turns + 1 /\ turns \in Nat /\ turns' \in 1 .. MaxTurns
      /\ turns' \in Objects /\ MaxTurns \in Nat
  BY LimitAssumption DEF Open, TypeOK, Objects
<1>2. table[id] \in Objects \cup {Nil}
  BY <1>1 DEF TypeOK, Objects, Nil
<1> DEFINE new == [id |-> id, sess |-> turns', seen |-> table[id], found |-> found]
<1>3. frame' = [frame EXCEPT ![c] = new] /\ new \in Frame
  BY <1>1, <1>2 DEF Open, Frame
<1>4. pc' = [pc EXCEPT ![c] = place] /\ pc[c] = "idle"
  BY DEF Goto
<1>5. TypeOK'
  BY <1>1, <1>3, <1>4 DEF TypeOK
<1>6. /\ frame'[c].sess = turns + 1 /\ frame'[c].seen = table[id]
      /\ \A d \in Clients \ {c} : frame'[d] = frame[d] /\ pc'[d] = pc[d]
      /\ pc'[c] = place
  BY <1>1, <1>3, <1>4 DEF TypeOK
<1>7. Locals'
  BY <1>1, <1>2, <1>6 DEF Locals, Stored, Nil
<1>8. OwnCopies'
  <2>1. \A i \in Ids : table[i] \in 0 .. turns
    BY DEF TypeOK
  <2>2. \A d \in Clients \ {c} : pc[d] # "idle" => frame[d].sess \in 1 .. turns
    BY DEF Locals
  <2> QED
    BY <2>1, <2>2, <1>1, <1>6 DEF OwnCopies, Nil
<1> QED
  BY <1>5, <1>7, <1>8

\* A request goes from one place to another and keeps its locals.
LEMMA MoveStep ==
    ASSUME StoreInv, NEW c \in Clients, NEW from, NEW to, Goto(c, from, to),
           from # "idle", to \in Places \ {"idle"}, to \in Reading => from \in Reading,
           heap' \in [Objects -> ChatSession],
           UNCHANGED <<now, table, frame, turns>>
    PROVE  TypeOK' /\ Locals' /\ OwnCopies'
<1> USE DEF StoreInv
<1>1. /\ pc' = [pc EXCEPT ![c] = to] /\ pc[c] = from
      /\ pc' \in [Clients -> Places]
  BY DEF Goto, TypeOK
<1>2. TypeOK'
  BY <1>1 DEF TypeOK
<1>3. \A d \in Clients : d # c => pc'[d] = pc[d]
  BY <1>1 DEF TypeOK
<1>4. pc'[c] = to
  BY <1>1 DEF TypeOK
<1>5. \A d \in Clients : pc'[d] # "idle" => pc[d] # "idle"
  BY <1>1, <1>3
<1>6. Locals'
  BY <1>1, <1>3, <1>4, <1>5 DEF Locals
<1>7. OwnCopies'
  BY <1>5 DEF OwnCopies
<1> QED
  BY <1>2, <1>6, <1>7

\* The object a request works on.
LEMMA OwnObject ==
    ASSUME StoreInv, NEW c \in Clients, pc[c] # "idle"
    PROVE  /\ frame[c].sess \in Objects /\ heap[frame[c].sess] \in ChatSession
           /\ frame[c].sess \in 1 .. turns
           /\ \A id \in Ids : table[id] # frame[c].sess
<1>1. frame[c].sess \in 1 .. turns /\ turns \in 0 .. MaxTurns
  BY DEF StoreInv, Locals, TypeOK
<1>2. frame[c].sess \in Objects
  BY <1>1, LimitAssumption DEF Objects
<1> QED
  BY <1>1, <1>2 DEF StoreInv, TypeOK, OwnCopies

LEMMA SetType ==
    ASSUME heap \in [Objects -> ChatSession], NEW object \in Objects, NEW session \in ChatSession,
           Set(object, session)
    PROVE  heap' \in [Objects -> ChatSession]
BY DEF Set

LEMMA ZeroedType ==
    ASSUME NEW messages \in Messages
    PROVE  Zeroed(messages) \in Messages /\ DOMAIN Zeroed(messages) = DOMAIN messages
BY DEF Zeroed, Messages

LEMMA CopyStep ==
    ASSUME StoreInv, NEW c \in Clients, CopyStruct(c) \/ MakeRoom(c) \/ CopyMessages(c)
    PROVE  TypeOK' /\ Locals' /\ OwnCopies'
<1> DEFINE sess  == frame[c].sess
           own   == heap[sess].turns
           found == heap[frame[c].seen].turns
<1>1. pc[c] \in Reading
  BY DEF CopyStruct, MakeRoom, CopyMessages, Goto
<1>2. /\ sess \in Objects /\ heap[sess] \in ChatSession /\ heap[frame[c].seen] \in ChatSession
      /\ heap \in [Objects -> ChatSession]
  BY <1>1, OwnObject DEF StoreInv, Locals, TypeOK
<1>3. own \in Messages /\ found \in Messages
  BY <1>2 DEF ChatSession
<1>4. ASSUME NEW messages \in Messages, heap' = [heap EXCEPT ![sess].turns = messages]
      PROVE  heap' \in [Objects -> ChatSession]
  BY <1>2, <1>4 DEF ChatSession
<1>5. CASE CopyStruct(c)
  BY <1>2, <1>5, SetType, MoveStep DEF CopyStruct
<1>6. CASE MakeRoom(c)
  BY <1>3, <1>4, <1>6, ZeroedType, MoveStep DEF MakeRoom
<1>7. CASE CopyMessages(c)
  <2> DEFINE filled == [i \in DOMAIN own |-> IF i \in DOMAIN found THEN found[i] ELSE own[i]]
  <2>1. filled \in Messages
    BY <1>3 DEF Messages
  <2>2. heap' = [heap EXCEPT ![sess].turns = filled]
    BY <1>2, <1>7 DEF CopyMessages
  <2> QED
    BY <2>1, <2>2, <1>4, <1>7, MoveStep DEF CopyMessages
<1> QED
  BY <1>5, <1>6, <1>7

LEMMA ResetStep ==
    ASSUME StoreInv, NEW c \in Clients, ResetSession(c)
    PROVE  TypeOK' /\ Locals' /\ OwnCopies'
<1>1. [turns |-> << >>, at |-> now] \in ChatSession
  BY DEF Messages, StoreInv, TypeOK, ChatSession
<1>2. heap' \in [Objects -> ChatSession]
  BY <1>1 DEF ResetSession, StoreInv, TypeOK
<1> QED
  BY <1>2, MoveStep DEF ResetSession

LEMMA StampStep ==
    ASSUME StoreInv, NEW c \in Clients, Stamp(c)
    PROVE  TypeOK' /\ Locals' /\ OwnCopies'
<1> DEFINE sess == frame[c].sess
           stamped == [turns |-> Append(heap[sess].turns, sess), at |-> now]
<1>1. pc[c] = "work"
  BY DEF Stamp, Goto
<1>2. sess \in Objects /\ heap[sess].turns \in Messages
  BY <1>1, OwnObject DEF Messages, ChatSession
<1>3. stamped \in ChatSession
  BY <1>2 DEF Messages, StoreInv, TypeOK, ChatSession
<1>4. heap' \in [Objects -> ChatSession]
  BY <1>2, <1>3, SetType DEF Stamp, StoreInv, TypeOK
<1> QED
  BY <1>4, MoveStep DEF Stamp

LEMMA FailStep ==
    ASSUME StoreInv, NEW c \in Clients, Fail(c)
    PROVE  TypeOK' /\ Locals' /\ OwnCopies'
<1> USE DEF StoreInv
<1>1. /\ pc' = [pc EXCEPT ![c] = "idle"] /\ frame' = [frame EXCEPT ![c] = NoFrame]
      /\ UNCHANGED <<now, table, heap, turns>>
  BY DEF Fail, Goto
<1>2. TypeOK'
  BY <1>1, NoFrameType DEF TypeOK
<1>3. \A d \in Clients : pc'[d] # "idle" => d # c /\ pc'[d] = pc[d] /\ frame'[d] = frame[d]
  BY <1>1 DEF TypeOK
<1>4. Locals'
  <2>1. \A d \in Clients : pc'[d] \in Reading => pc'[d] # "idle"
    OBVIOUS
  <2> QED
    BY <1>1, <1>3, <2>1 DEF Locals
<1>5. OwnCopies'
  BY <1>1, <1>3 DEF OwnCopies
<1> QED
  BY <1>2, <1>4, <1>5

LEMMA CreateStep ==
    ASSUME StoreInv, NEW c \in Clients, Create(c)
    PROVE  TypeOK' /\ Locals' /\ OwnCopies'
<1> USE DEF StoreInv
<1>1. /\ turns' = turns + 1 /\ turns \in Nat /\ turns' \in 1 .. MaxTurns
      /\ turns' \in Objects /\ MaxTurns \in Nat
  BY LimitAssumption DEF Create, TypeOK, Objects
<1>2. [turns |-> << >>, at |-> now] \in ChatSession
  BY DEF Messages, TypeOK, ChatSession
<1>3. heap' \in [Objects -> ChatSession]
  BY <1>1, <1>2, SetType DEF Create, TypeOK
<1>4. PICK id \in Ids : frame' = [frame EXCEPT ![c] = [id |-> id, sess |-> turns', seen |-> Nil,
                                                      found |-> << >>]]
  BY DEF Create
<1> DEFINE new == [id |-> id, sess |-> turns', seen |-> Nil, found |-> << >>]
<1>5. new \in Frame
  BY <1>1 DEF Messages, Frame
<1>6. pc' = [pc EXCEPT ![c] = "save"] /\ pc[c] = "idle" /\ UNCHANGED <<now, table>>
  BY DEF Create, Goto
<1>7. TypeOK'
  BY <1>1, <1>3, <1>4, <1>5, <1>6 DEF TypeOK
<1>8. /\ frame'[c].sess = turns + 1 /\ pc'[c] = "save"
      /\ \A d \in Clients \ {c} : frame'[d] = frame[d] /\ pc'[d] = pc[d]
  BY <1>1, <1>4, <1>6 DEF TypeOK
<1>9. Locals'
  BY <1>1, <1>8 DEF Locals
<1>10. OwnCopies'
  <2>1. \A i \in Ids : table[i] \in 0 .. turns
    BY DEF TypeOK
  <2>2. \A d \in Clients \ {c} : pc[d] # "idle" => frame[d].sess \in 1 .. turns
    BY DEF Locals
  <2> QED
    BY <2>1, <2>2, <1>1, <1>6, <1>8 DEF OwnCopies, Nil
<1> QED
  BY <1>7, <1>9, <1>10

LEMMA PutStep ==
    ASSUME StoreInv, NEW c \in Clients, NEW kept \in SUBSET Stored, Put(c, kept)
    PROVE  TypeOK' /\ Locals' /\ OwnCopies'
<1> USE DEF StoreInv
<1>1. /\ pc' = [pc EXCEPT ![c] = "idle"] /\ pc[c] = "save"
      /\ frame' = [frame EXCEPT ![c] = NoFrame]
      /\ UNCHANGED <<now, heap, turns>>
  BY DEF Put, Goto
<1>2. \A id \in Ids : table'[id] = IF id = frame[c].id THEN frame[c].sess
                                   ELSE IF id \in kept THEN table[id] ELSE Nil
  BY DEF Put
<1>3. frame[c].sess \in 1 .. turns /\ \A id \in Ids : table[id] # frame[c].sess
  BY <1>1, OwnObject
<1>4. table' \in [Ids -> 0 .. turns]
  BY <1>3 DEF Put, TypeOK, Nil
<1>5. TypeOK'
  BY <1>1, <1>4, NoFrameType DEF TypeOK
<1>6. \A d \in Clients : pc'[d] # "idle" => d # c /\ pc'[d] = pc[d] /\ frame'[d] = frame[d]
  BY <1>1 DEF TypeOK
<1>7. Locals'
  <2>1. \A d \in Clients : pc'[d] \in Reading => pc'[d] # "idle"
    OBVIOUS
  <2> QED
    BY <1>1, <1>6, <2>1 DEF Locals
<1>8. \A id \in Ids : table'[id] \in {frame[c].sess, table[id], Nil}
  BY <1>2
<1>9. OwnCopies'
  <2>1. ASSUME NEW d \in Clients, (pc[d] # "idle")'
        PROVE  /\ \A id \in Ids : table'[id] # frame'[d].sess
               /\ \A e \in Clients \ {d} : pc'[e] # "idle" => frame'[e].sess # frame'[d].sess
    <3>1. d # c /\ pc[d] # "idle" /\ frame'[d] = frame[d]
      BY <2>1, <1>6
    <3>2. frame[d].sess \in 1 .. turns /\ \A id \in Ids : table[id] # frame[d].sess
      BY <3>1, OwnObject
    <3>3. frame[c].sess # frame[d].sess
      BY <3>1, <1>1 DEF OwnCopies
    <3>4. Nil # frame[d].sess
      BY <3>2 DEF Nil
    <3>5. \A e \in Clients \ {d} : pc'[e] # "idle" => frame'[e].sess # frame'[d].sess
      BY <3>1, <1>6 DEF OwnCopies
    <3> QED
      BY <3>1, <3>2, <3>3, <3>4, <3>5, <1>8
  <2>2. ASSUME NEW id \in Ids, NEW other \in Ids, table'[id] = table'[other], table'[id] # Nil
        PROVE  id = other
    <3>1. CASE id = frame[c].id \/ other = frame[c].id
      BY <3>1, <2>2, <1>2, <1>3 DEF Nil
    <3>2. CASE id # frame[c].id /\ other # frame[c].id
      BY <3>2, <2>2, <1>2 DEF OwnCopies
    <3> QED
      BY <3>1, <3>2
  <2> QED
    BY <2>1, <2>2 DEF OwnCopies
<1> QED
  BY <1>5, <1>7, <1>9

LEMMA DeleteStep ==
    ASSUME StoreInv, NEW id \in Ids, DeleteSession(id)
    PROVE  TypeOK' /\ Locals' /\ OwnCopies'
<1> USE DEF StoreInv
<1>1. /\ \A i \in Ids : table'[i] = IF i = id THEN Nil ELSE table[i]
      /\ UNCHANGED <<now, heap, pc, frame, turns>>
  BY DEF DeleteSession, TypeOK
<1>2. table' \in [Ids -> 0 .. turns]
  BY DEF DeleteSession, TypeOK, Nil
<1>3. TypeOK' /\ Locals'
  BY <1>1, <1>2 DEF TypeOK, Locals
<1>4. \A c \in Clients : pc[c] # "idle" => frame[c].sess # Nil
  BY DEF Locals, Nil, TypeOK
<1>5. OwnCopies'
  BY <1>1, <1>4 DEF OwnCopies
<1> QED
  BY <1>3, <1>5

-----------------------------------------------------------------------------
(* The capacity.                                                            *)

LEMMA CapacityKept ==
    ASSUME Capacity, UNCHANGED table
    PROVE  Capacity'
BY DEF Capacity, Stored

\* What a save leaves in the table.
LEMMA StoredAfterPut ==
    ASSUME StoreInv, NEW c \in Clients, NEW kept \in SUBSET Stored, Put(c, kept)
    PROVE  /\ frame[c].id \in Ids
           /\ Stored' = kept \cup {frame[c].id}
<1>1. pc[c] = "save" /\ frame[c].id \in Ids
  BY DEF Put, Goto, StoreInv, TypeOK, Frame
<1>2. frame[c].sess # Nil
  BY <1>1, OwnObject DEF Objects, Nil
<1>3. \A id \in Ids : table'[id] = IF id = frame[c].id THEN frame[c].sess
                                   ELSE IF id \in kept THEN table[id] ELSE Nil
  BY DEF Put
<1> QED
  BY <1>1, <1>2, <1>3 DEF Stored

LEMMA SaveCapacity ==
    ASSUME StoreInv, NEW c \in Clients, Save(c)
    PROVE  Capacity'
<1>1. Stored' = Stored \cup {frame[c].id}
  BY StoredAfterPut DEF Save
<1>2. Cardinality(Stored) \in Nat /\ Cardinality(Stored) < MaxSessions
  BY StoredFinite DEF Save, Room
<1>3. Cardinality(Stored \cup {frame[c].id}) \in {Cardinality(Stored), Cardinality(Stored) + 1}
  BY StoredFinite, FS_AddElement
<1> QED
  BY <1>1, <1>2, <1>3, SessionsAssumption DEF Capacity

LEMMA EvictingCapacity ==
    ASSUME StoreInv, NEW c \in Clients, NEW old \in OldestStored, Put(c, Stored \ {old})
    PROVE  Capacity'
<1>1. old \in Stored
  BY DEF OldestStored
<1>2. Stored' = (Stored \ {old}) \cup {frame[c].id}
  BY StoredAfterPut
<1>3. IsFiniteSet(Stored \ {old}) /\ Cardinality(Stored \ {old}) = Cardinality(Stored) - 1
  BY <1>1, StoredFinite, FS_RemoveElement
<1>5. Cardinality(Stored) \in Nat /\ Cardinality(Stored) <= MaxSessions
  BY StoredFinite DEF StoreInv, Capacity
<1>4. Cardinality((Stored \ {old}) \cup {frame[c].id}) \in {Cardinality(Stored) - 1, Cardinality(Stored)}
  <2> DEFINE rest == Stored \ {old}
  <2>1. Cardinality(rest \cup {frame[c].id}) \in {Cardinality(rest), Cardinality(rest) + 1}
    <3> HIDE DEF rest
    <3> QED
      BY <1>3, FS_AddElement DEF rest
  <2> QED
    BY <2>1, <1>3, <1>5
<1> QED
  BY <1>2, <1>4, <1>5, SessionsAssumption DEF Capacity

LEMMA DeleteCapacity ==
    ASSUME StoreInv, NEW id \in Ids, DeleteSession(id)
    PROVE  Capacity'
<1>1. Stored' = Stored \ {id}
  BY DEF DeleteSession, Stored, StoreInv, TypeOK
<1>2. Cardinality(Stored \ {id}) \in {Cardinality(Stored) - 1, Cardinality(Stored)}
  BY StoredFinite, FS_RemoveElement
<1> QED
  BY <1>1, <1>2, StoredFinite, SessionsAssumption DEF StoreInv, Capacity

-----------------------------------------------------------------------------
(* One step.                                                                *)

LEMMA GetKeeps ==
    ASSUME StoreInv, NEW c \in Clients, Get(c)
    PROVE  StoreInv'
<1>1. UNCHANGED table
  BY DEF Get, GetMissing, GetFound, FindFresh, FindOld, CopyStruct, MakeRoom, CopyMessages, ResetSession
<1>2. CASE GetMissing(c)
  <2>1. PICK id \in Ids : Open(c, id, << >>)
    BY <1>2 DEF GetMissing
  <2>2. << >> \in Messages
    BY DEF Messages
  <2> QED
    BY <1>1, <1>2, <2>1, <2>2, OpenStep, CapacityKept DEF GetMissing, StoreInv
<1>3. CASE GetFound(c)
  <2>1. PICK id \in Stored : Open(c, id, heap[table[id]].turns)
    BY <1>3 DEF GetFound
  <2>2. table[id] \in Objects /\ id \in Ids
    BY LimitAssumption DEF Stored, StoreInv, TypeOK, Objects, Nil
  <2>3. heap[table[id]].turns \in Messages
    BY <2>2 DEF StoreInv, TypeOK, ChatSession
  <2> QED
    BY <1>1, <1>3, <2>1, <2>2, <2>3, OpenStep, CapacityKept DEF GetFound, StoreInv
<1>4. CASE FindFresh(c) \/ FindOld(c)
  <2>1. heap' \in [Objects -> ChatSession]
    BY <1>4 DEF FindFresh, FindOld, StoreInv, TypeOK
  <2> QED
    BY <1>1, <1>4, <2>1, MoveStep, CapacityKept DEF FindFresh, FindOld, StoreInv
<1>5. CASE CopyStruct(c) \/ MakeRoom(c) \/ CopyMessages(c)
  BY <1>1, <1>5, CopyStep, CapacityKept DEF StoreInv
<1>6. CASE ResetSession(c)
  BY <1>1, <1>6, ResetStep, CapacityKept DEF StoreInv
<1> QED
  BY <1>2, <1>3, <1>4, <1>5, <1>6 DEF Get

LEMMA AnswerKeeps ==
    ASSUME StoreInv, NEW c \in Clients, Answer(c)
    PROVE  StoreInv'
<1>1. CASE Stamp(c)
  BY <1>1, StampStep, CapacityKept DEF StoreInv, Stamp
<1>2. CASE Fail(c)
  BY <1>2, FailStep, CapacityKept DEF StoreInv, Fail
<1>3. CASE Create(c)
  BY <1>3, CreateStep, CapacityKept DEF StoreInv, Create
<1>4. CASE Save(c)
  BY <1>4, PutStep, SaveCapacity DEF StoreInv, Save
<1>5. CASE SaveEvicting(c)
  <2>1. PICK old \in OldestStored : Put(c, Stored \ {old})
    BY <1>5 DEF SaveEvicting
  <2> QED
    BY <2>1, PutStep, EvictingCapacity DEF StoreInv
<1> QED
  BY <1>1, <1>2, <1>3, <1>4, <1>5 DEF Answer

LEMMA StoreStep == StoreInv /\ [Next]_vars => StoreInv'
<1> SUFFICES ASSUME StoreInv, [Next]_vars PROVE StoreInv'
  OBVIOUS
<1>1. ASSUME NEW id \in Ids, DeleteSession(id) PROVE StoreInv'
  BY <1>1, DeleteStep, DeleteCapacity DEF StoreInv
<1>2. CASE Tick
  BY <1>2 DEF Tick, StoreInv, TypeOK, Locals, OwnCopies, Capacity, Stored
<1>3. CASE UNCHANGED vars
  BY <1>3 DEF vars, StoreInv, TypeOK, Locals, OwnCopies, Capacity, Stored
<1> QED
  BY <1>1, <1>2, <1>3, GetKeeps, AnswerKeeps DEF Next, Done

\* session_store.go: the table and the handlers' sessions keep their types.
THEOREM StoreTypeCorrect == Spec => []TypeOK
<1>1. StoreInv => TypeOK
  BY DEF StoreInv
<1> QED
  BY StoreInit, StoreStep, <1>1, PTL DEF Spec

\* GetSession and SaveSession: nobody works on a session that the table or
\* another request holds.
THEOREM NoSharedSessions == Spec => []OwnCopies
<1>1. StoreInv => OwnCopies
  BY DEF StoreInv
<1> QED
  BY StoreInit, StoreStep, <1>1, PTL DEF Spec

-----------------------------------------------------------------------------
(* What a request is about to save.                                         *)

\* What a request found is nobody's own object, and objects not handed out yet
\* are blank.
Apart ==
    \A c, d \in Clients : pc[c] # "idle" /\ pc[d] # "idle" =>
        frame[c].seen \in 0 .. turns /\ frame[c].seen # frame[d].sess

Fresh == \A o \in Objects : o > turns => heap[o] = Blank

\* What each place in a request knows of its own object and of the one it found.
Knows(c) ==
    LET own  == heap[frame[c].sess].turns
        seen == heap[frame[c].seen].turns
        found == frame[c].found
    IN  /\ pc[c] \in {"check", "reset"} => own = << >>
        /\ pc[c] \in Reading => seen \in {found, << >>}
        /\ pc[c] = "reset" => Emptied(c)
        /\ pc[c] = "fill" => own = Zeroed(found) \/ (own = << >> /\ seen = << >>)
        /\ pc[c] = "work" => \/ own = found
                             \/ own \in {Zeroed(found), << >>} /\ Emptied(c)
        /\ pc[c] = "save" =>
              \/ own = Append(found, frame[c].sess)
              \/ own = Append(Zeroed(found), frame[c].sess) /\ Emptied(c)
              \/ own = <<frame[c].sess>> /\ Emptied(c)
              \/ own = << >> /\ frame[c].seen = Nil

KeptInv == Apart /\ Fresh /\ \A c \in Clients : Knows(c)

LEMMA StillOld ==
    ASSUME NEW at \in Nat, NEW age \in Nat, NEW then \in Nat, NEW later \in Nat,
           then <= later, then - at > age
    PROVE  later - at > age
OBVIOUS

\* Time goes by, and what the request found may be emptied: no more happens to
\* a request that takes no step.
LEMMA KnowsKept ==
    ASSUME StoreInv, NEW d \in Clients, pc[d] # "idle", Knows(d),
           pc'[d] = pc[d], frame'[d] = frame[d], now' \in Nat, now <= now',
           heap'[frame[d].sess] = heap[frame[d].sess],
           frame[d].seen # Nil => \/ heap'[frame[d].seen] = heap[frame[d].seen]
                                  \/ heap'[frame[d].seen].turns = << >>
    PROVE  Knows(d)'
<1>1. ASSUME Emptied(d) PROVE Emptied(d)'
  <2>1. frame[d].seen \in Objects
    BY <1>1 DEF Emptied, StoreInv, TypeOK, Frame
  <2>2. heap[frame[d].seen].at \in Nat /\ now \in Nat /\ MaxAge \in Nat
    BY <2>1, LimitAssumption DEF StoreInv, TypeOK, ChatSession
  <2>3. CASE heap'[frame[d].seen].turns = << >>
    BY <1>1, <2>3 DEF Emptied
  <2>4. CASE heap'[frame[d].seen] = heap[frame[d].seen]
    <3>1. ASSUME now - heap[frame[d].seen].at > MaxAge
          PROVE  now' - heap[frame[d].seen].at > MaxAge
      BY <2>2, <3>1, StillOld
    <3>2. Old(heap[frame[d].seen]) => Old(heap[frame[d].seen])'
      BY <2>4, <3>1 DEF Old
    <3> QED
      BY <1>1, <2>4, <3>2 DEF Emptied
  <2> QED
    BY <1>1, <2>3, <2>4 DEF Emptied
<1>2. pc[d] \in Reading => frame[d].seen # Nil
  BY DEF StoreInv, Locals, Objects, Nil
<1> QED
  BY <1>1, <1>2 DEF Knows

\* The objects of a request are left alone by the steps of another, but for a
\* reset of the one it found.
LEMMA ObjectsKept ==
    ASSUME StoreInv, Apart, NEW c \in Clients, Get(c) \/ Answer(c),
           NEW d \in Clients, d # c, pc[d] # "idle"
    PROVE  /\ pc'[d] = pc[d] /\ frame'[d] = frame[d] /\ now' = now
           /\ heap'[frame[d].sess] = heap[frame[d].sess]
           /\ frame[d].seen # Nil => \/ heap'[frame[d].seen] = heap[frame[d].seen]
                                     \/ heap'[frame[d].seen].turns = << >>
<1>1. /\ frame[d].sess \in Objects /\ frame[d].sess \in 1 .. turns
      /\ \A id \in Ids : table[id] # frame[d].sess
  BY OwnObject
<1>2. /\ frame[d].seen # Nil => frame[d].seen \in Objects
      /\ frame[d].seen \in 0 .. turns /\ turns \in Nat
  BY DEF StoreInv, TypeOK, Frame, Apart
<1>3. pc[c] # "idle" => /\ frame[c].sess # frame[d].sess
                        /\ frame[c].sess # frame[d].seen
                        /\ frame[c].id \in Ids
  BY DEF StoreInv, OwnCopies, Apart, TypeOK, Frame
<1>4. /\ pc \in [Clients -> Places]
      /\ frame \in [Clients -> Frame] /\ heap \in [Objects -> ChatSession]
  BY DEF StoreInv, TypeOK
<1> USE <1>4 DEF Goto, Set
<1>5. CASE GetMissing(c) \/ GetFound(c)
  BY <1>5 DEF GetMissing, GetFound, Open
<1>6. CASE FindFresh(c) \/ FindOld(c)
  BY <1>6 DEF FindFresh, FindOld
<1>7. CASE CopyStruct(c) \/ MakeRoom(c) \/ CopyMessages(c)
  BY <1>1, <1>2, <1>3, <1>7 DEF CopyStruct, MakeRoom, CopyMessages
<1>8. CASE ResetSession(c)
  BY <1>1, <1>2, <1>3, <1>8 DEF ResetSession
<1>9. CASE Stamp(c)
  BY <1>1, <1>2, <1>3, <1>9 DEF Stamp
<1>10. CASE Fail(c)
  BY <1>10 DEF Fail
<1>11. CASE Create(c)
  <2>1. turns' = turns + 1 /\ heap' = [heap EXCEPT ![turns'] = [turns |-> << >>, at |-> now]]
    BY <1>11 DEF Create
  <2>2. frame[d].sess # turns' /\ frame[d].seen # turns'
    BY <1>1, <1>2, <2>1
  <2> QED
    BY <1>1, <1>2, <1>11, <2>1, <2>2 DEF Create
<1>12. CASE Save(c) \/ SaveEvicting(c)
  BY <1>12 DEF Save, SaveEvicting, Put
<1> QED
  BY <1>5, <1>6, <1>7, <1>8, <1>9, <1>10, <1>11, <1>12 DEF Get, Answer

\* Objects are handed out in turn.
LEMMA FreshStep ==
    ASSUME StoreInv, Fresh, NEW c \in Clients, Get(c) \/ Answer(c)
    PROVE  Fresh'
<1>1. /\ turns \in Nat /\ heap \in [Objects -> ChatSession]
      /\ pc[c] # "idle" => /\ frame[c].sess \in 1 .. turns /\ frame[c].id \in Ids
      /\ table \in [Ids -> 0 .. turns]
      /\ \A o \in Objects : o \in Nat
  BY LimitAssumption DEF StoreInv, TypeOK, Locals, Frame, Objects
<1> USE <1>1 DEF Goto, Set
<1>2. CASE GetMissing(c) \/ GetFound(c)
  BY <1>2 DEF GetMissing, GetFound, Open, Fresh
<1>3. CASE CopyStruct(c) \/ MakeRoom(c) \/ CopyMessages(c)
  BY <1>3 DEF CopyStruct, MakeRoom, CopyMessages, Fresh
<1>6. CASE ResetSession(c) \/ Stamp(c)
  BY <1>6 DEF ResetSession, Stamp, Fresh
<1>4. CASE Create(c)
  BY <1>4 DEF Create, Fresh
<1>5. CASE FindFresh(c) \/ FindOld(c) \/ Fail(c) \/ Save(c) \/ SaveEvicting(c)
  BY <1>5 DEF FindFresh, FindOld, Fail, Save, SaveEvicting, Put, Fresh
<1> QED
  BY <1>2, <1>3, <1>4, <1>5, <1>6 DEF Get, Answer

\* A request enters, or it keeps its objects.
LEMMA ApartStep ==
    ASSUME StoreInv, Apart, NEW c \in Clients, Get(c) \/ Answer(c)
    PROVE  Apart'
<1>1. /\ turns \in Nat /\ table \in [Ids -> 0 .. turns]
      /\ pc \in [Clients -> Places]
      /\ frame \in [Clients -> Frame]
      /\ \A d \in Clients : pc[d] # "idle" => /\ frame[d].sess \in 1 .. turns
                                              /\ \A id \in Ids : table[id] # frame[d].sess
  BY OwnObject DEF StoreInv, TypeOK
<1>2. \A d \in Clients : d # c /\ pc'[d] # "idle" => pc[d] # "idle" /\ frame'[d] = frame[d]
  BY <1>1 DEF Get, Answer, GetMissing, GetFound, Open, FindFresh, FindOld, CopyStruct, MakeRoom, CopyMessages, ResetSession,
              Stamp, Fail, Create, Save, SaveEvicting, Put, Goto
<1>3. turns' \in {turns, turns + 1}
  BY DEF Get, Answer, GetMissing, GetFound, Open, FindFresh, FindOld, CopyStruct, MakeRoom, CopyMessages, ResetSession,
         Stamp, Fail, Create, Save, SaveEvicting, Put
<1>4. CASE pc[c] # "idle"
  <2>1. pc'[c] # "idle" => frame'[c] = frame[c]
    BY <1>1, <1>4 DEF Get, Answer, GetMissing, GetFound, FindFresh, FindOld, CopyStruct, MakeRoom, CopyMessages, ResetSession,
                      Stamp, Fail, Create, Save, SaveEvicting, Put, Goto
  <2> QED
    BY <1>1, <1>2, <1>3, <1>4, <2>1 DEF Apart
<1>5. CASE pc[c] = "idle"
  <2>1. frame'[c].sess = turns + 1 /\ turns' = turns + 1
        /\ frame'[c].seen \in {Nil} \cup {table[id] : id \in Ids}
    BY <1>1, <1>5 DEF Get, Answer, GetMissing, GetFound, Open, FindFresh, FindOld, CopyStruct,
                      MakeRoom, CopyMessages, ResetSession, Stamp, Fail, Create, Save, SaveEvicting, Put, Goto, Stored
  <2>2. frame'[c].seen \in 0 .. turns
    BY <1>1, <2>1 DEF Nil
  <2>3. \A d \in Clients \ {c} : pc'[d] # "idle" => /\ frame'[c].seen # frame'[d].sess
                                                    /\ frame'[d].seen \in 0 .. turns
    BY <1>1, <1>2, <2>1 DEF Apart, Nil
  <2>4. frame'[c].seen # frame'[c].sess
    BY <1>1, <2>1, <2>2
  <2>5. \A d \in Clients \ {c} : pc'[d] # "idle" => frame'[d].seen # frame'[c].sess
    BY <1>1, <2>1, <2>3
  <2>6. \A d, e \in Clients \ {c} : pc'[d] # "idle" /\ pc'[e] # "idle" =>
            frame'[d].seen # frame'[e].sess
    BY <1>2 DEF Apart
  <2> QED
    BY <1>1, <2>1, <2>2, <2>3, <2>4, <2>5, <2>6 DEF Apart
<1> QED
  BY <1>4, <1>5

\* The loop of the copy, over room that was made for the messages of found.
Filled(room, seen) == [i \in DOMAIN room |-> IF i \in DOMAIN seen THEN seen[i] ELSE room[i]]

LEMMA NothingZeroed == Zeroed(<< >>) = << >>
BY DEF Zeroed

LEMMA NothingFilled ==
    ASSUME NEW seen
    PROVE  Filled(<< >>, seen) = << >>
BY DEF Filled

LEMMA FilledFromNothing ==
    ASSUME NEW found \in Messages
    PROVE  Filled(Zeroed(found), << >>) = Zeroed(found)
BY DEF Filled, Zeroed, Messages

LEMMA FilledAgain ==
    ASSUME NEW found \in Messages
    PROVE  Filled(Zeroed(found), found) = found
<1>1. found = [i \in DOMAIN found |-> found[i]]
  BY DEF Messages
<1>2. DOMAIN Zeroed(found) = DOMAIN found
  BY ZeroedType
<1> QED
  BY <1>1, <1>2 DEF Filled

\* What a step tells the request that takes it.
LEMMA KnowsStep ==
    ASSUME StoreInv, Apart, Fresh, NEW c \in Clients, Knows(c), Get(c) \/ Answer(c)
    PROVE  Knows(c)'
<1>1. /\ turns \in Nat /\ table \in [Ids -> 0 .. turns] /\ turns \in 0 .. MaxTurns
      /\ pc \in [Clients -> Places]
      /\ frame \in [Clients -> Frame]
      /\ heap \in [Objects -> ChatSession]
  BY DEF StoreInv, TypeOK
<1>2. pc[c] # "idle" => /\ frame[c].sess \in Objects
                        /\ frame[c].id \in Ids
                        /\ \A id \in Ids : table[id] # frame[c].sess
                        /\ frame[c].seen # frame[c].sess
                        /\ frame[c].seen \in Objects \cup {Nil}
  BY OwnObject DEF Apart, StoreInv, TypeOK, Frame
<1>3. pc[c] \in Reading => frame[c].seen \in Objects /\ frame[c].seen # Nil
  BY DEF StoreInv, Locals, Objects, Nil
<1>4. ASSUME turns < MaxTurns
      PROVE  turns + 1 \in Objects /\ turns + 1 > turns /\ heap[turns + 1].turns = << >>
  <2>1. turns + 1 \in Objects /\ turns + 1 > turns
    BY <1>1, <1>4, LimitAssumption DEF Objects
  <2>2. heap[turns + 1] = Blank
    BY <2>1 DEF Fresh
  <2> QED
    BY <2>1, <2>2 DEF Blank
<1> USE <1>1 DEF Goto
<1>5. CASE GetMissing(c)
  <2>1. PICK id \in Ids : Open(c, id, << >>)
    BY <1>5 DEF GetMissing
  <2>2. frame'[c] = [id |-> id, sess |-> turns + 1, seen |-> table[id], found |-> << >>]
        /\ turns < MaxTurns
    BY <2>1 DEF Open
  <2>3. frame'[c].sess = turns + 1 /\ frame'[c].found = << >>
    BY <2>2
  <2>4. heap' = heap /\ pc'[c] = "work"
    BY <1>5 DEF GetMissing
  <2> QED
    BY <1>4, <2>2, <2>3, <2>4 DEF Knows
<1>6. CASE GetFound(c)
  <2>1. PICK id \in Stored : Open(c, id, heap[table[id]].turns)
    BY <1>6 DEF GetFound
  <2>2. frame'[c] = [id |-> id, sess |-> turns + 1, seen |-> table[id],
                     found |-> heap[table[id]].turns]
        /\ turns < MaxTurns
    BY <2>1 DEF Open
  <2>3. /\ frame'[c].sess = turns + 1 /\ frame'[c].seen = table[id]
        /\ frame'[c].found = heap[table[id]].turns
    BY <2>2
  <2>4. heap' = heap /\ pc'[c] = "check"
    BY <1>6 DEF GetFound
  <2> QED
    BY <1>4, <2>2, <2>3, <2>4 DEF Knows
<1>7. CASE FindFresh(c)
  BY <1>7 DEF FindFresh, Knows
<1>8. CASE FindOld(c)
  BY <1>3, <1>8 DEF FindOld, Knows, Emptied, Old
<1>9. CASE CopyStruct(c)
  <2>1. /\ pc[c] = "copy" /\ pc'[c] = "make" /\ frame' = frame
        /\ heap' = [heap EXCEPT ![frame[c].sess] = heap[frame[c].seen]]
    BY <1>9 DEF CopyStruct, Set
  <2>2. heap'[frame[c].seen] = heap[frame[c].seen]
    BY <1>2, <2>1
  <2>3. heap[frame[c].seen].turns \in {frame[c].found, << >>}
    BY <2>1 DEF Knows
  <2> QED
    BY <2>1, <2>2, <2>3 DEF Knows
<1>14. CASE MakeRoom(c)
  <2>1. /\ pc[c] = "make" /\ pc'[c] = "fill" /\ frame' = frame
        /\ heap' = [heap EXCEPT ![frame[c].sess].turns = Zeroed(heap[frame[c].seen].turns)]
    BY <1>14 DEF MakeRoom
  <2>2. /\ heap'[frame[c].seen] = heap[frame[c].seen]
        /\ heap'[frame[c].sess].turns = Zeroed(heap[frame[c].seen].turns)
    BY <1>2, <2>1 DEF ChatSession
  <2>3. heap[frame[c].seen].turns \in {frame[c].found, << >>}
    BY <2>1 DEF Knows
  <2> QED
    BY <2>1, <2>2, <2>3, NothingZeroed DEF Knows
<1>15. CASE CopyMessages(c)
  <2> DEFINE own   == heap[frame[c].sess].turns
             seen  == heap[frame[c].seen].turns
             found == frame[c].found
  <2>1. /\ pc[c] = "fill" /\ pc'[c] = "work" /\ frame' = frame /\ now' = now
        /\ heap' = [heap EXCEPT ![frame[c].sess].turns = Filled(own, seen)]
    BY <1>15 DEF CopyMessages, Filled
  <2>2. /\ heap'[frame[c].seen] = heap[frame[c].seen]
        /\ heap'[frame[c].sess].turns = Filled(own, seen)
    BY <1>2, <2>1 DEF ChatSession
  <2>3. seen \in {found, << >>} /\ (own = Zeroed(found) \/ (own = << >> /\ seen = << >>))
    BY <2>1 DEF Knows
  <2>4. found \in Messages
    BY DEF StoreInv, TypeOK, Frame
  <2>5. frame[c].seen # Nil /\ (seen = << >> => Emptied(c)')
    BY <1>3, <2>1, <2>2 DEF Emptied
  <2>6. CASE own = << >> /\ seen = << >>
    BY <2>1, <2>2, <2>3, <2>4, <2>5, <2>6, NothingFilled DEF Knows
  <2>7. CASE own = Zeroed(found) /\ seen = << >>
    BY <2>1, <2>2, <2>4, <2>5, <2>7, FilledFromNothing DEF Knows
  <2>8. CASE own = Zeroed(found) /\ seen = found
    BY <2>1, <2>2, <2>4, <2>8, FilledAgain DEF Knows
  <2> QED
    BY <2>3, <2>6, <2>7, <2>8
\* The object it found may be emptied by itself; its own stays as it is.
<1>10. CASE ResetSession(c)
  <2>1. pc[c] = "reset" /\ pc'[c] = "work" /\ frame' = frame /\ now' = now
    BY <1>10 DEF ResetSession
  <2>2. \A o \in Objects : heap'[o] = IF o = table[frame[c].id]
                                      THEN [turns |-> << >>, at |-> now] ELSE heap[o]
    BY <1>10 DEF ResetSession
  <2>3. heap'[frame[c].sess] = heap[frame[c].sess]
    BY <1>2, <2>1, <2>2
  <2>4. frame[c].seen \in Objects
    BY <1>2, <2>1 DEF Knows, Emptied
  <2>5. heap'[frame[c].seen] = heap[frame[c].seen] \/ heap'[frame[c].seen].turns = << >>
    BY <2>2, <2>4
  <2>6. Emptied(c)'
    BY <2>1, <2>5 DEF Knows, Emptied, Old
  <2> QED
    BY <2>1, <2>3, <2>6 DEF Knows
<1>11. CASE Stamp(c)
  <2> DEFINE sess == frame[c].sess
  <2>1. /\ pc[c] = "work" /\ pc'[c] = "save" /\ frame' = frame /\ now' = now
        /\ heap' = [heap EXCEPT ![sess] = [turns |-> Append(heap[sess].turns, sess), at |-> now]]
    BY <1>11 DEF Stamp, Set
  <2>2. heap'[sess].turns = Append(heap[sess].turns, sess)
    BY <1>2, <2>1
  <2>3. frame[c].seen # Nil => heap'[frame[c].seen] = heap[frame[c].seen]
    BY <1>2, <2>1
  <2>4. Emptied(c) => Emptied(c)'
    BY <2>1, <2>3 DEF Emptied, Old
  <2>5. Append(<< >>, sess) = <<sess>>
    OBVIOUS
  <2>6. \/ heap[sess].turns = frame[c].found
        \/ heap[sess].turns \in {Zeroed(frame[c].found), << >>} /\ Emptied(c)
    BY <2>1 DEF Knows
  <2> QED
    BY <2>1, <2>2, <2>4, <2>5, <2>6 DEF Knows
<1>12. CASE Create(c)
  <2>1. PICK id \in Ids : frame' = [frame EXCEPT ![c] = [id |-> id, sess |-> turns', seen |-> Nil,
                                                        found |-> << >>]]
    BY <1>12 DEF Create
  <2>2. /\ turns' = turns + 1 /\ turns < MaxTurns /\ pc'[c] = "save"
        /\ heap' = [heap EXCEPT ![turns'] = [turns |-> << >>, at |-> now]]
    BY <1>12 DEF Create, Set
  <2>3. frame'[c].sess = turns' /\ frame'[c].seen = Nil
    BY <2>1
  <2>4. heap'[turns'].turns = << >>
    BY <1>4, <2>2
  <2> QED
    BY <2>2, <2>3, <2>4 DEF Knows
<1>13. CASE Fail(c) \/ Save(c) \/ SaveEvicting(c)
  BY <1>13 DEF Fail, Save, SaveEvicting, Put, Knows
<1> QED
  BY <1>5, <1>6, <1>7, <1>8, <1>9, <1>10, <1>11, <1>12, <1>13,
     <1>14, <1>15 DEF Get, Answer

LEMMA KeptStep == StoreInv /\ KeptInv /\ [Next]_vars => KeptInv'
<1> SUFFICES ASSUME StoreInv, KeptInv, [Next]_vars PROVE KeptInv'
  OBVIOUS
<1>0. now \in Nat
  BY DEF StoreInv, TypeOK
<1>1. ASSUME NEW c \in Clients, Get(c) \/ Answer(c) PROVE KeptInv'
  <2>1. ASSUME NEW d \in Clients PROVE Knows(d)'
    <3>1. CASE d = c
      BY <1>1, <3>1, KnowsStep DEF KeptInv
    <3>2. CASE d # c /\ pc[d] # "idle"
      BY <1>0, <1>1, <3>2, ObjectsKept, KnowsKept DEF KeptInv
    <3>3. CASE d # c /\ pc[d] = "idle"
      <4>1. pc'[d] = "idle"
        BY <1>1, <3>3 DEF StoreInv, TypeOK, Get, Answer, GetMissing, GetFound, FindFresh, FindOld,
              CopyStruct, MakeRoom, CopyMessages, ResetSession, Stamp, Fail, Create, Save, SaveEvicting, Put, Goto
      <4> QED
        BY <4>1 DEF Knows
    <3> QED
      BY <3>1, <3>2, <3>3
  <2>2. Apart' /\ Fresh'
    BY <1>1, ApartStep, FreshStep DEF KeptInv
  <2> QED
    BY <2>1, <2>2 DEF KeptInv
<1>2. ASSUME UNCHANGED <<heap, pc, frame, turns>>, now' \in Nat, now <= now' PROVE KeptInv'
  <2>1. ASSUME NEW d \in Clients PROVE Knows(d)'
    <3>1. CASE pc[d] = "idle"
      BY <1>2, <3>1 DEF Knows
    <3>2. CASE pc[d] # "idle"
      BY <1>2, <3>2, KnowsKept DEF KeptInv
    <3> QED
      BY <3>1, <3>2
  <2>2. Apart' /\ Fresh'
    BY <1>2 DEF KeptInv, Apart, Fresh
  <2> QED
    BY <2>1, <2>2 DEF KeptInv
<1>3. ASSUME NEW id \in Ids, DeleteSession(id) PROVE KeptInv'
  BY <1>0, <1>2, <1>3 DEF DeleteSession
<1>4. CASE Tick
  BY <1>0, <1>2, <1>4 DEF Tick
<1>5. CASE UNCHANGED vars
  BY <1>0, <1>2, <1>5 DEF vars
<1> QED
  BY <1>1, <1>3, <1>4, <1>5 DEF Next, Done

\* GetSession, its three reads without the lock, and SaveSession: whatever other
\* requests, the clock and resets do between them, a request saves its whole chat
\* and its turn, or, where the chat was emptied or too old, its turn alone or
\* behind as many lost messages as there were.  Never a part of the chat.
THEOREM SavedChatsWhole == Spec => []AllOrNothing
<1>1. Init => KeptInv
  BY DEF Init, KeptInv, Apart, Fresh, Knows
<1>2. KeptInv => AllOrNothing
  BY DEF KeptInv, Knows, AllOrNothing
<1> QED
  BY <1>1, <1>2, StoreInit, StoreStep, KeptStep, PTL DEF Spec

-----------------------------------------------------------------------------
(* The refinement.                                                          *)

\* The instance has a Cardinality of its own.
LEMMA SameCardinality == \A S : Table!Cardinality(S) = Cardinality(S)
BY DEF Table!Cardinality, Cardinality

LEMMA ChatsDomain == DOMAIN Chats = Stored /\ DOMAIN Chats' = Stored'
BY DEF Chats

LEMMA Hidden ==
    ASSUME UNCHANGED table,
           \A id \in Stored : heap'[table[id]] = heap[table[id]]
    PROVE  UNCHANGED Chats
<1>1. Stored' = Stored
  BY DEF Stored
<1> QED
  BY <1>1 DEF Chats

\* A request's own object is not in the table: work on it does not show.
LEMMA OwnHidden ==
    ASSUME StoreInv, NEW c \in Clients, pc[c] # "idle", NEW session,
           Set(frame[c].sess, session), UNCHANGED table
    PROVE  UNCHANGED Chats
<1>1. \A id \in Stored : table[id] # frame[c].sess /\ table[id] \in Objects
  BY LimitAssumption DEF StoreInv, OwnCopies, TypeOK, Stored, Objects, Nil
<1>2. heap' = [heap EXCEPT ![frame[c].sess] = session] /\ heap \in [Objects -> ChatSession]
  BY DEF Set, StoreInv, TypeOK
<1>3. \A id \in Stored : heap'[table[id]] = heap[table[id]]
  BY <1>1, <1>2
<1> QED
  BY <1>3, Hidden

LEMMA KeepsChats ==
    ASSUME NEW kept \in SUBSET Stored, NEW id, Stored' \ {id} = kept \ {id},
           \A other \in kept \ {id} : heap'[table'[other]] = heap[table[other]]
    PROVE  Table!Keeps(kept, id)
<1>1. \A other \in kept \ {id} : other \in Stored /\ other \in Stored'
  OBVIOUS
<1>2. \A other \in kept \ {id} : Chats'[other] = Chats[other]
  BY <1>1 DEF Chats
<1> QED
  BY <1>2, ChatsDomain DEF Table!Keeps

LEMMA GetMaps ==
    ASSUME StoreInv, NEW c \in Clients, Get(c)
    PROVE  Table!Next \/ UNCHANGED Chats
<1>1. CASE UNCHANGED <<table, heap>>
  BY <1>1, Hidden
<1>2. CASE CopyStruct(c) \/ MakeRoom(c) \/ CopyMessages(c)
  <2>1. heap \in [Objects -> ChatSession] /\ frame[c].sess \in Objects /\ pc[c] # "idle"
    BY <1>2, OwnObject DEF CopyStruct, MakeRoom, CopyMessages, Goto, StoreInv, TypeOK
  <2>2. ASSUME NEW messages, heap' = [heap EXCEPT ![frame[c].sess].turns = messages]
        PROVE  Set(frame[c].sess, [heap[frame[c].sess] EXCEPT !.turns = messages])
    BY <2>1, <2>2 DEF Set
  <2> QED
    BY <1>2, <2>1, <2>2, OwnHidden DEF CopyStruct, MakeRoom, CopyMessages
<1>3. CASE ResetSession(c)
  <2> DEFINE id == frame[c].id
  <2>1. id \in Ids /\ UNCHANGED table /\ table \in [Ids -> 0 .. turns] /\ turns \in Nat
    BY <1>3, LimitAssumption, OwnObject DEF ResetSession, Goto, StoreInv, TypeOK, Frame
  <2>2. \A other \in Stored : table[other] \in Objects
    BY LimitAssumption DEF StoreInv, TypeOK, Stored, Objects, Nil
  <2>3. heap' = [o \in Objects |-> IF o = table[id] THEN [turns |-> << >>, at |-> now]
                                                    ELSE heap[o]]
    BY <1>3 DEF ResetSession
  <2>4. Stored' = Stored
    BY <2>1 DEF Stored
  <2>5. \A other \in Stored \ {id} : table[other] # table[id]
    BY <2>1 DEF StoreInv, OwnCopies, Stored
  <2>6. CASE id \in Stored
    <3>1. heap'[table[id]] = [turns |-> << >>, at |-> now]
      BY <2>2, <2>3, <2>6
    <3>2. Chats'[id].turns = << >>
      BY <2>1, <2>4, <2>6, <3>1 DEF Chats
    <3>3. \A other \in Stored \ {id} : heap'[table'[other]] = heap[table[other]]
      BY <2>1, <2>2, <2>3, <2>5
    <3>4. Table!Keeps(Stored, id)
      BY <2>4, <3>3, KeepsChats
    <3>5. Table!Empty(id)
      BY <2>4, <2>6, <3>2, <3>4, ChatsDomain DEF Table!Empty
    <3> QED
      BY <2>1, <3>5 DEF Table!Next
  <2>7. CASE id \notin Stored
    <3>1. table[id] = Nil
      BY <2>1, <2>7 DEF Stored
    <3>2. \A other \in Stored : heap'[table[other]] = heap[table[other]]
      BY <2>2, <2>3, <3>1 DEF Stored
    <3> QED
      BY <2>1, <3>2, Hidden
  <2> QED
    BY <2>6, <2>7
<1> QED
  BY <1>1, <1>2, <1>3 DEF Get, GetMissing, GetFound, FindFresh, FindOld

\* A save is the abstract Save, of a table with room or of a full one.
LEMMA PutMaps ==
    ASSUME StoreInv, NEW c \in Clients, NEW kept \in SUBSET Stored, Put(c, kept)
    PROVE  /\ frame[c].id \in Ids /\ frame[c].id \in DOMAIN Chats'
           /\ Table!Keeps(kept, frame[c].id)
<1> DEFINE id == frame[c].id
<1>1. id \in Ids /\ Stored' = kept \cup {id}
  BY StoredAfterPut
<1>2. \A other \in kept \ {id} : other \in Ids
  BY DEF Stored
<1>3. \A other \in kept \ {id} : heap'[table'[other]] = heap[table[other]]
  BY <1>2 DEF Put
<1>4. Table!Keeps(kept, id)
  BY <1>1, <1>3, KeepsChats
<1> QED
  BY <1>1, <1>4, ChatsDomain

LEMMA AnswerMaps ==
    ASSUME StoreInv, Capacity', NEW c \in Clients, Answer(c)
    PROVE  Table!Next \/ UNCHANGED Chats
<1>1. CASE Stamp(c)
  BY <1>1, OwnHidden DEF Stamp, Goto
<1>2. CASE Fail(c)
  BY <1>2, Hidden DEF Fail
<1>3. CASE Create(c)
  <2>1. turns' = turns + 1 /\ turns \in Nat /\ UNCHANGED table
    BY <1>3, LimitAssumption DEF Create, StoreInv, TypeOK
  <2>2. \A id \in Stored : table[id] \in Objects /\ table[id] # turns'
    BY <2>1, LimitAssumption DEF StoreInv, TypeOK, Stored, Objects, Nil
  <2>3. \A id \in Stored : heap'[table[id]] = heap[table[id]]
    BY <1>3, <2>2 DEF Create, Set, StoreInv, TypeOK
  <2> QED
    BY <2>1, <2>3, Hidden
<1>4. Table!Cardinality(DOMAIN Chats') <= MaxSessions
  BY ChatsDomain, SameCardinality DEF Capacity
<1>5. CASE Save(c)
  <2>1. Table!Save(frame[c].id)
    BY <1>4, <1>5, PutMaps, ChatsDomain DEF Save, Table!Save
  <2> QED
    BY <1>5, <2>1, PutMaps DEF Save, Table!Next
<1>6. CASE SaveEvicting(c)
  <2>1. PICK old \in OldestStored : Put(c, Stored \ {old})
    BY <1>6 DEF SaveEvicting
  <2>2. Table!Cardinality(DOMAIN Chats) >= MaxSessions
    BY <1>6, StoredFinite, SessionsAssumption, ChatsDomain, SameCardinality
       DEF SaveEvicting, Room
  <2>3. old \in Table!Oldest
    BY ChatsDomain DEF OldestStored, Table!Oldest, At, Chats
  <2>4. Table!Save(frame[c].id)
    BY <1>4, <2>1, <2>2, <2>3, PutMaps, ChatsDomain DEF Table!Save
  <2> QED
    BY <2>1, <2>4, PutMaps DEF Table!Next
<1> QED
  BY <1>1, <1>2, <1>3, <1>5, <1>6 DEF Answer

LEMMA DeleteMaps ==
    ASSUME StoreInv, NEW id \in Ids, DeleteSession(id)
    PROVE  Table!Next
<1>1. /\ table' = [table EXCEPT ![id] = Nil] /\ table \in [Ids -> 0 .. turns]
      /\ UNCHANGED heap
  BY DEF DeleteSession, StoreInv, TypeOK
<1>2. Stored' = Stored \ {id}
  BY <1>1 DEF Stored
<1>3. \A other \in Stored \ {id} : heap'[table'[other]] = heap[table[other]]
  BY <1>1 DEF Stored
<1>4. Table!Keeps(Stored, id)
  BY <1>2, <1>3, KeepsChats
<1> QED
  BY <1>2, <1>4, ChatsDomain DEF Table!Delete, Table!Next

\* The mutex-protected table of pointers implements the table of chats.
THEOREM StoreImplementsSessionTable == Spec => ImplementsSessionTable
<1>1. Init => Table!Init
  <2> SUFFICES ASSUME Init PROVE Table!Init
    OBVIOUS
  <2>1. Stored = {}
    BY DEF Init, Stored, Nil
  <2> QED
    BY <2>1 DEF Table!Init, Chats
<1>2. StoreInv /\ StoreInv' /\ [Next]_vars => [Table!Next]_Chats
  <2> SUFFICES ASSUME StoreInv, StoreInv', [Next]_vars
               PROVE  Table!Next \/ UNCHANGED Chats
    OBVIOUS
  <2>1. CASE Tick \/ Done \/ UNCHANGED vars
    BY <2>1, Hidden DEF Tick, Done, vars
  <2> QED
    BY <2>1, GetMaps, AnswerMaps, DeleteMaps DEF Next, StoreInv
<1> QED
  BY <1>1, <1>2, StoreInit, StoreStep, PTL DEF Spec, ImplementsSessionTable, Table!Spec
=============================================================================
