---------------------------- MODULE ChatService ----------------------------
(***************************************************************************)
(* What the chat API promises to one client at a time.  A request works on *)
(* the chat as it was when the request arrived; it either extends that     *)
(* chat by messages of its own, of which the last one is the reply, or     *)
(* fails and leaves every stored chat alone.                               *)
(***************************************************************************)
EXTENDS Sequences, Naturals

CONSTANTS Chats, Clients, Idle

VARIABLES
    store,   \* chat -> its stored messages
    open     \* client -> the chat of its request and what it held, or Idle

Init ==
    /\ store = [ch \in Chats |-> << >>]
    /\ open = [c \in Clients |-> Idle]

Begin(c) ==
    /\ open[c] = Idle
    /\ \E chat \in Chats :
           open' = [open EXCEPT ![c] = [chat |-> chat, base |-> store[chat]]]
    /\ UNCHANGED store

\* A kept chat holds what it held, then messages of this chat only, of which
\* the last is a reply that calls no tool.
Extends(chat, base, messages) ==
    /\ Len(messages) > Len(base)
    /\ SubSeq(messages, 1, Len(base)) = base
    /\ \A i \in Len(base) + 1 .. Len(messages) : messages[i].chat = chat
    /\ messages[Len(messages)].kind \in {"assistant", "warned"}
    /\ messages[Len(messages)].calls = << >>

Answer(c) ==
    /\ open[c] # Idle
    /\ Extends(open[c].chat, open[c].base, store'[open[c].chat])
    /\ \A chat \in Chats \ {open[c].chat} : store'[chat] = store[chat]
    /\ open' = [open EXCEPT ![c] = Idle]

Fail(c) ==
    /\ open[c] # Idle
    /\ open' = [open EXCEPT ![c] = Idle]
    /\ UNCHANGED store

Delete(chat) ==
    /\ store' = [store EXCEPT ![chat] = << >>]
    /\ UNCHANGED open

Next ==
    \/ \E c \in Clients : Begin(c) \/ Answer(c) \/ Fail(c)
    \/ \E chat \in Chats : Delete(chat)

Spec == Init /\ [][Next]_<<store, open>>
=============================================================================
