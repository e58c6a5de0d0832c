------------------------------ MODULE EventHub ------------------------------
(***************************************************************************)
(* The event stream: pubsub/hub.go and handleSSE in api/handlers.go.  Every  *)
(* stream has a channel of its own in the hub; whoever broadcasts offers the *)
(* event to each of them under the hub's lock and never waits for a reader.  *)
(* A stream reads its channel without the lock until its request is over.    *)
(***************************************************************************)
EXTENDS Naturals, Sequences, FiniteSets, SequencesExt

CONSTANTS
    Streams, Publishers,
    BufferSize,     \* 10 in the code
    MaxEvents       \* bound: events broadcast in a behaviour

VARIABLES
    place,      \* where each stream is
    channel,    \* its events in the hub
    written,    \* what it wrote out
    missed,     \* what passed it by
    since,      \* the events before it was registered
    sending,    \* the event in each publisher's hand
    todo,       \* the streams to offer it to
    mu,         \* who holds the hub's lock: nobody or one
    events      \* how many events there have been

stream == <<place, channel, written, missed, since>>
hubVars == <<place, channel, written, missed, since, sending, todo, mu, events>>

Event == 1 .. MaxEvents
Free == {}
NoEvent == 0

HubTypeOK ==
    /\ place \in [Streams -> {"new", "open", "over", "closed"}]
    /\ channel \in [Streams -> Seq(Event)]
    /\ \A s \in Streams : Len(channel[s]) <= BufferSize
    /\ written \in [Streams -> Seq(Event)]
    /\ missed \in [Streams -> SUBSET Event]
    /\ since \in [Streams -> 0 .. MaxEvents]
    /\ sending \in [Publishers -> Event \cup {NoEvent}]
    /\ todo \in [Publishers -> SUBSET Streams]
    /\ mu \in {Free} \cup {{p} : p \in Publishers}
    /\ events \in 0 .. MaxEvents

HubInit ==
    /\ place = [s \in Streams |-> "new"]
    /\ channel = [s \in Streams |-> << >>] /\ written = [s \in Streams |-> << >>]
    /\ missed = [s \in Streams |-> {}] /\ since = [s \in Streams |-> 0]
    /\ sending = [p \in Publishers |-> NoEvent]
    /\ todo = [p \in Publishers |-> {}]
    /\ mu = Free
    /\ events = 0

Registered == {s \in Streams : place[s] \in {"open", "over"}}

Register(s) ==
    /\ place[s] = "new"
    /\ mu = Free
    /\ place' = [place EXCEPT ![s] = "open"]
    /\ since' = [since EXCEPT ![s] = events]
    /\ UNCHANGED <<channel, written, missed, sending, todo, mu, events>>

-----------------------------------------------------------------------------
(* Broadcast holds mu from its first to its last step.                      *)

\* (Mutant: Broadcast does not lock.)
Unlocked(p) == TRUE
Lockable(p) == mu = Free

BeginBroadcast(p) ==
    /\ sending[p] = NoEvent
    /\ Lockable(p)
    /\ events < MaxEvents
    /\ mu' = {p}
    /\ events' = events + 1
    /\ sending' = [sending EXCEPT ![p] = events + 1]
    /\ todo' = [todo EXCEPT ![p] = Registered]
    /\ UNCHANGED stream

Offer(p, s) ==
    /\ s \in todo[p]
    /\ Len(channel[s]) < BufferSize
    /\ channel' = [channel EXCEPT ![s] = Append(@, sending[p])]
    /\ todo' = [todo EXCEPT ![p] = @ \ {s}]
    /\ UNCHANGED <<place, written, missed, since, sending, mu, events>>

\* The client is slow: the event passes it by.  (Mutant: the broadcast waits.)
Wait(p, s) == FALSE /\ UNCHANGED hubVars
Skip(p, s) ==
    /\ s \in todo[p]
    /\ Len(channel[s]) = BufferSize
    /\ missed' = [missed EXCEPT ![s] = @ \cup {sending[p]}]
    /\ todo' = [todo EXCEPT ![p] = @ \ {s}]
    /\ UNCHANGED <<place, channel, written, since, sending, mu, events>>

EndBroadcast(p) ==
    /\ sending[p] # NoEvent
    /\ todo[p] = {}
    /\ sending' = [sending EXCEPT ![p] = NoEvent]
    /\ mu' = Free
    /\ UNCHANGED <<stream, todo, events>>

-----------------------------------------------------------------------------
(* handleSSE.  The keep-alive ping changes nothing.                          *)

WriteEvent(s) ==
    /\ place[s] = "open"
    /\ channel[s] # << >>
    /\ written' = [written EXCEPT ![s] = Append(@, Head(channel[s]))]
    /\ channel' = [channel EXCEPT ![s] = Tail(@)]
    /\ UNCHANGED <<place, missed, since, sending, todo, mu, events>>

\* The request is over; events in the channel may be left there.
Disconnect(s) ==
    /\ place[s] = "open"
    /\ place' = [place EXCEPT ![s] = "over"]
    /\ UNCHANGED <<channel, written, missed, since, sending, todo, mu, events>>

Close(s) ==
    /\ place' = [place EXCEPT ![s] = "closed"]
    /\ channel' = [channel EXCEPT ![s] = << >>]
    /\ UNCHANGED <<written, missed, since, sending, todo, mu, events>>

\* (Mutant: the channel is closed before the lock is held.)
CloseAtOnce(s) ==
    /\ place[s] = "over"
    /\ Close(s)
Unregister(s) ==
    /\ place[s] = "over"
    /\ mu = Free
    /\ Close(s)

Broadcast(p) ==
    \/ BeginBroadcast(p)
    \/ \E s \in Streams : Offer(p, s)
    \/ \E s \in Streams : Skip(p, s)
    \/ EndBroadcast(p)

handleSSE(s) ==
    \/ Register(s)
    \/ WriteEvent(s)
    \/ Disconnect(s)
    \/ Unregister(s)

HubNext ==
    \/ \E p \in Publishers : Broadcast(p)
    \/ \E s \in Streams : handleSSE(s)

\* A publisher goes on with a broadcast; a stream need not read, or ever end.
HubFairness == \A p \in Publishers : WF_hubVars(sending[p] # NoEvent /\ Broadcast(p))

HubSpec == HubInit /\ [][HubNext]_hubVars /\ HubFairness

-----------------------------------------------------------------------------
\* No event is sent on a channel that has been closed: that would end the
\* server, whatever streams end while an event is on its way.
NoSendOnClosed ==
    \A p \in Publishers : \A s \in todo[p] : place[s] # "closed"

\* What a stream gets is the events since it was registered, in the one order in
\* which they were broadcast, and it lacks only those it was too slow for and
\* the one that is on its way.
StreamsInOrder ==
    \A s \in Streams :
      LET got == written[s] \o channel[s]
          coming == {sending[p] : p \in {q \in Publishers : s \in todo[q]}}
      IN  /\ \A i, j \in DOMAIN got : i < j => got[i] < got[j]
          /\ place[s] \in {"open", "over"} =>
               ToSet(got) \cup missed[s] \cup coming = since[s] + 1 .. events

\* A broadcast ends although no stream reads: agents broadcast from the middle of
\* their work.
BroadcastEnds ==
    \A p \in Publishers : sending[p] # NoEvent ~> sending[p] = NoEvent
=============================================================================
