---------------------------- MODULE SessionTable ----------------------------
(***************************************************************************)
(* What the session store promises: a table of at most MaxSessions chats.  *)
(* A chat changes when it is saved, emptied or deleted, and is lost only to *)
(* a save that finds the table full, as one of those saved longest ago.    *)
(***************************************************************************)
EXTENDS Naturals, FiniteSets

CONSTANTS Ids, MaxSessions

VARIABLE chats    \* a function from the chats there are to what they hold

Oldest == {id \in DOMAIN chats :
              \A other \in DOMAIN chats : chats[id].at <= chats[other].at}

Init == chats = [id \in {} |-> id]

\* The table keeps the chats of kept as they are and has no others but id.
Keeps(kept, id) ==
    /\ DOMAIN chats' \ {id} = kept \ {id}
    /\ \A other \in kept \ {id} : chats'[other] = chats[other]

Save(id) ==
    /\ id \in DOMAIN chats'
    /\ Cardinality(DOMAIN chats') <= MaxSessions
    /\ \/ Keeps(DOMAIN chats, id)
       \/ /\ Cardinality(DOMAIN chats) >= MaxSessions
          /\ \E old \in Oldest : Keeps(DOMAIN chats \ {old}, id)

Empty(id) ==
    /\ id \in DOMAIN chats /\ id \in DOMAIN chats'
    /\ chats'[id].turns = << >>
    /\ Keeps(DOMAIN chats, id)

Delete(id) ==
    /\ id \notin DOMAIN chats'
    /\ Keeps(DOMAIN chats, id)

Next == \E id \in Ids : Save(id) \/ Empty(id) \/ Delete(id)

Spec == Init /\ [][Next]_chats
=============================================================================
