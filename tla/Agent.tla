------------------------------- MODULE Agent -------------------------------
(***************************************************************************)
(* The chat service: the HTTP handlers of api/handlers.go, the single      *)
(* core.Agent they all share, its ReAct loop (core/orchestrator.go), its   *)
(* tool dispatcher, the bootstrap of a new conversation, and the table of  *)
(* stored chats (the in-memory backend of store/session_store.go).         *)
(*                                                                         *)
(* A client is one HTTP request goroutine at a time.  What it keeps on its *)
(* stack is frame[c].  Agent.mu is a Go RWMutex: a section that holds it   *)
(* for a few statements is one action; the read lock that is held across   *)
(* the summarizer's LLM call is a state of its own (readers), and so is a  *)
(* writer that waits for it (waiting), because a waiting writer blocks     *)
(* every new reader.                                                       *)
(***************************************************************************)
EXTENDS ContextWindow, FiniteSets

CONSTANTS
    Clients,        \* request goroutines
    Updaters,       \* goroutines that refresh the system prompt (one, or none)
    None,           \* no goroutine waits for the write lock
    Modes,          \* endpoints used: "chat" for handleChat, "stream" for handleChatStream
    InputChoices,   \* what users type in this instance
    Replies,        \* what the LLM may answer: [calls, text, dated]
    MaxIterations,  \* REACT_MAX_ITERATIONS, 20 by default
    MaxTurns        \* bound: requests served in one behaviour

ASSUME ClientAssumption == None \notin Clients \cup Updaters /\ Clients \cap Updaters = {}
ASSUME ChatAssumption == Chats # {}
ASSUME InputAssumption == Modes \subseteq {"chat", "stream"} /\ InputChoices \subseteq Inputs

\* text: the reply has some, once it is sanitized and trimmed.  dated: it names
\* suspicious dates, which takes a text.
Reply == [calls : Seq(Tools), text : BOOLEAN, dated : BOOLEAN]
ASSUME ReplyAssumption == Replies \subseteq {reply \in Reply : reply.dated => reply.text}
ASSUME BoundAssumption == MaxIterations \in Nat /\ MaxTurns \in Nat

Procs == Clients \cup Updaters

VARIABLES
    store,        \* stored chats: chat -> messages (a missing chat is << >>)
    history,      \* ContextWindow.History of the shared conversation
    summary,      \* MemorySummary: the messages it covers (<< >> for "")
    summarized,   \* lastSummarizedIdx
    userInput,    \* Agent.userInput, the current request's text
    handoff,      \* is Agent.handoffPlan set?
    readers,      \* clients that hold mu's read lock during a summarization
    waiting,      \* the writer that waits for them, or None
    pc,           \* where each request is
    frame,        \* the locals of each client's request
    turns         \* requests received so far

agentVars == <<history, summary, summarized, userInput, handoff>>
lockVars  == <<readers, waiting>>
vars      == <<store, agentVars, lockVars, pc, frame, turns>>

PCs == {"idle", "load", "begin", "route", "boot", "loop", "summarize", "nested",
        "condense", "build", "generate", "validate", "reject", "append", "tools",
        "respond", "warn", "check", "fetch", "save", "reset"}

NoInput == [kind |-> "text", research |-> FALSE, calc |-> FALSE,
            realtime |-> FALSE, digits |-> FALSE]
NoReply == [calls |-> << >>, text |-> FALSE, dated |-> FALSE]

\* op: handleChat or handleChatStream.  sess: the session the handler read.
\* snap: a history read earlier and used later.  range: where the running
\* summarization ends.  todo: tool calls not answered yet.  sent: replies
\* streamed to the client.
Frame == [op : {"chat", "stream"}, chat : Chats, input : Inputs,
          sess : Seq(Message), snap : Seq(Message), range : Nat,
          view : [summary : Seq(Message), messages : Seq(Message)],
          reply : Reply, todo : Seq(Tools), iter : Nat, sent : Nat]

NewFrame(op, chat, input, sess) ==
    [op |-> op, chat |-> chat, input |-> input, sess |-> sess, snap |-> << >>,
     range |-> 0, view |-> EmptyView, reply |-> NoReply, todo |-> << >>,
     iter |-> 0, sent |-> 0]

NoFrame == NewFrame("chat", CHOOSE ch \in Chats : TRUE, NoInput, << >>)

Typed ==
    /\ store \in [Chats -> Seq(Message)]
    /\ history \in Seq(Message)
    /\ summary \in Seq(Message)
    /\ summarized \in Nat
    /\ userInput \in Inputs
    /\ handoff \in BOOLEAN
    /\ readers \subseteq Clients
    /\ waiting \in Procs \cup {None}
    /\ pc \in [Clients -> PCs]
    /\ frame \in [Clients -> Frame]
    /\ turns \in Nat

\* Where the types of the locals depend on pc: a request that is about to
\* answer a tool call has one left to answer.
CallOpen == \A c \in Clients : pc[c] = "respond" => frame[c].todo # << >>

TypeOK == Typed /\ CallOpen

Init ==
    /\ store = [ch \in Chats |-> << >>]
    /\ history = << >>
    /\ summary = << >>
    /\ summarized = 0
    /\ userInput = NoInput
    /\ handoff = FALSE
    /\ readers = {}
    /\ waiting = None
    /\ pc = [c \in Clients |-> "idle"]
    /\ frame = [c \in Clients |-> NoFrame]
    /\ turns = 0

-----------------------------------------------------------------------------
(* The lock.  Every write section below is one action, so a writer excludes *)
(* everybody by atomicity; it only has to wait for the summarizing readers. *)

RLock   == waiting = None
Lock(p) == readers = {} /\ waiting \in {p, None} /\ waiting' = None /\ UNCHANGED readers

Goto(c, from, to) == pc[c] = from /\ pc' = [pc EXCEPT ![c] = to]
Set(c, frameOfC)  == frame' = [frame EXCEPT ![c] = frameOfC]
Say(c, kind, calls) == Said(kind, frame[c].chat, calls)

\* The request is over: the handler returns and its locals are gone.
Return(c, from) == Goto(c, from, "idle") /\ Set(c, NoFrame)

\* Where a goroutine calls mu.Lock().
AtWriteLock(p) ==
    \/ p \in Updaters
    \/ /\ p \in Clients
       /\ \/ pc[p] \in {"load", "begin", "reject", "append", "respond", "warn",
                        "check", "reset"}
          \/ pc[p] = "tools" /\ frame[p].todo # << >> /\ Head(frame[p].todo) = "handoff"

\* mu.Lock() while mu is read-locked: from now on RLock blocks everybody else.
Announce(p) ==
    /\ AtWriteLock(p)
    /\ readers # {} /\ waiting = None
    /\ waiting' = p
    /\ UNCHANGED <<store, agentVars, readers, pc, frame, turns>>

\* EnsureFreshSystemPrompt, called by a 30 minute ticker: the prompt is not
\* modelled, so all that matters is the lock it had to wait for.
RefreshPrompt(p) ==
    /\ waiting = p
    /\ Lock(p)
    /\ UNCHANGED <<store, agentVars, pc, frame, turns>>

-----------------------------------------------------------------------------
(* A request arrives: handleChat, handleChatStream, handleReset.            *)

\* resolveChatSession: the handler's own copy of the stored chat.
Receive(c) ==
    /\ Goto(c, "idle", "load")
    /\ turns < MaxTurns
    /\ turns' = turns + 1
    /\ \E op \in Modes, chat \in Chats, input \in InputChoices :
           Set(c, NewFrame(op, chat, input, store[chat]))
    /\ UNCHANGED <<store, agentVars, lockVars>>

ReceiveReset(c) ==
    /\ Goto(c, "idle", "reset")
    /\ turns < MaxTurns
    /\ turns' = turns + 1
    /\ UNCHANGED <<store, agentVars, lockVars, frame>>

Reset(c) ==
    /\ Goto(c, "reset", "idle")
    /\ Lock(c)
    /\ history' = << >>
    /\ summary' = << >>
    /\ summarized' = 0
    /\ handoff' = FALSE
    /\ UNCHANGED <<store, userInput, frame, turns>>

\* DELETE /api/chats, a request of its own that never touches the agent.
DeleteSession(chat) ==
    /\ store[chat] # << >>
    /\ store' = [store EXCEPT ![chat] = << >>]
    /\ UNCHANGED <<agentVars, lockVars, pc, frame, turns>>

\* The messages are replaced; MemorySummary and lastSummarizedIdx are not.
\* (Mutant: the loaded chat is appended to what the agent holds.)
LoadHistoryAppends(c) ==
    /\ Goto(c, "load", "begin")
    /\ Lock(c)
    /\ history' = history \o frame[c].sess
    /\ UNCHANGED <<store, summary, summarized, userInput, handoff, frame, turns>>

LoadHistory(c) ==
    /\ Goto(c, "load", "begin")
    /\ Lock(c)
    /\ history' = frame[c].sess
    /\ UNCHANGED <<store, summary, summarized, userInput, handoff, frame, turns>>

-----------------------------------------------------------------------------
(* ProcessMessage and ProcessMessageStream up to their loop.                *)

\* (Mutant: the input of the previous request is left in place.)
BeginStaleInput(c, next, added) ==
    /\ Goto(c, "begin", next)
    /\ Lock(c)
    /\ history' = history \o added
    /\ UNCHANGED <<store, summary, summarized, userInput, handoff, frame, turns>>

\* The first section under mu: note the input, append what the request adds.
Begin(c, next, added) ==
    /\ Goto(c, "begin", next)
    /\ Lock(c)
    /\ userInput' = frame[c].input
    /\ history' = history \o added
    /\ UNCHANGED <<store, summary, summarized, handoff, frame, turns>>

User(c)    == Say(c, "user", << >>)
Context(c) == Say(c, "context", << >>)

\* A slash command routes and bootstraps with mu held ...
BeginSlash(c) ==
    /\ history = << >> /\ frame[c].input.kind = "slash"
    /\ Begin(c, "loop", <<User(c), Context(c)>>)

\* ... and text that only looks like one is dropped.
BeginUnknownSlash(c) ==
    /\ history = << >> /\ frame[c].input.kind = "unknown"
    /\ Begin(c, "loop", << >>)

BeginBootstrap(c) ==
    /\ history = << >> /\ frame[c].input.kind = "text"
    /\ Begin(c, "route", <<User(c)>>)

BeginPlain(c) ==
    /\ history # << >> \/ frame[c].input.kind = "greeting"
    /\ Begin(c, "loop", <<User(c)>>)

\* BootstrapContext runs without mu.  It takes the read lock once, for the
\* router's provider; its append reads History here and writes it in
\* AppendBootstrap, as two racing steps.
Route(c) ==
    /\ Goto(c, "route", "boot")
    /\ RLock
    /\ Set(c, [frame[c] EXCEPT !.snap = history])
    /\ UNCHANGED <<store, agentVars, lockVars, turns>>

AppendBootstrap(c) ==
    /\ Goto(c, "boot", "loop")
    /\ history' = Append(frame[c].snap, Context(c))
    /\ Set(c, [frame[c] EXCEPT !.snap = << >>])
    /\ UNCHANGED <<store, summary, summarized, userInput, handoff, lockVars, turns>>

-----------------------------------------------------------------------------
(* One iteration: condense the context if needed, build the request.        *)

\* The condition of the loop.
More(c) == frame[c].iter < MaxIterations

\* The loop ran out of iterations.
GiveUp(c) ==
    /\ ~More(c)
    /\ Return(c, "loop")
    /\ UNCHANGED <<store, agentVars, lockVars, turns>>

\* ShouldSummarize: only a long history is condensed; whether a long one is
\* over CONTEXT_MAX_TOKENS depends on its text.
SkipSummary(c) ==
    /\ More(c)
    /\ RLock
    /\ Goto(c, "loop", "build")
    /\ UNCHANGED <<store, agentVars, lockVars, frame, turns>>

NeedSummary(c) ==
    /\ More(c)
    /\ RLock
    /\ LongEnough(history)
    /\ Goto(c, "loop", "summarize")
    /\ UNCHANGED <<store, agentVars, lockVars, frame, turns>>

HoldReadLock(c) ==
    /\ RLock
    /\ Goto(c, "summarize", "nested")
    /\ readers' = readers \cup {c}
    /\ UNCHANGED <<store, agentVars, waiting, frame, turns>>

\* GetProvider takes the read lock a second time (RLock below), after which
\* SummarizeOldest picks its range; nothing new to condense ends it.
SummarizeOldest(c) ==
    /\ RLock
    /\ summarized < SummaryEnd(history)
    /\ Goto(c, "nested", "condense")
    /\ Set(c, [frame[c] EXCEPT !.range = SummaryEnd(history),
                               !.snap  = SubSeq(history, summarized + 1, SummaryEnd(history))])
    /\ UNCHANGED <<store, agentVars, lockVars, turns>>

NothingToSummarize(c) ==
    /\ RLock
    /\ summarized >= SummaryEnd(history)
    /\ Goto(c, "nested", "build")
    /\ readers' = readers \ {c}
    /\ UNCHANGED <<store, agentVars, waiting, frame, turns>>

EndSummary(c) ==
    /\ Goto(c, "condense", "build")
    /\ readers' = readers \ {c}
    /\ Set(c, [frame[c] EXCEPT !.range = 0, !.snap = << >>])
    /\ UNCHANGED <<store, history, userInput, handoff, waiting, turns>>

\* UpdateSummary: the new summary replaces the old one.
UpdateSummary(c) ==
    /\ EndSummary(c)
    /\ summary' = frame[c].snap
    /\ summarized' = IF frame[c].range > summarized THEN frame[c].range ELSE summarized

\* (Mutant: the error path returns without RUnlock.)
SummaryFailsLocked(c) ==
    /\ Goto(c, "condense", "build")
    /\ UNCHANGED <<store, agentVars, lockVars, frame, turns>>

SummaryFails(c) ==
    /\ EndSummary(c)
    /\ UNCHANGED <<summary, summarized>>

Build(c) ==
    /\ RLock
    /\ Goto(c, "build", "generate")
    /\ Set(c, [frame[c] EXCEPT !.view = BuildLLMHistory(history, summary)])
    /\ UNCHANGED <<store, agentVars, lockVars, turns>>

-----------------------------------------------------------------------------
(* The reply: Generate is validated before it is appended, GenerateStream   *)
(* after.                                                                   *)

Streaming(c) == frame[c].op = "stream"

Generate(c) ==
    /\ RLock  \* GetProvider
    /\ Goto(c, "generate", IF Streaming(c) THEN "append" ELSE "validate")
    /\ \E reply \in Replies :
           Set(c, [frame[c] EXCEPT !.reply = reply, !.view = EmptyView])
    /\ UNCHANGED <<store, agentVars, lockVars, turns>>

\* A provider error, the stream's timeout, or a client that hung up.
GenerateFails(c) ==
    /\ RLock
    /\ Return(c, "generate")
    /\ UNCHANGED <<store, agentVars, lockVars, turns>>

\* ValidateRequiredToolUsage reads Agent.userInput without mu, and the
\* history, under the read lock, only when the input requires a tool.
ToolsOK(c) == RequiredToolsUsed(userInput, frame[c].reply.calls, history)
CanValidate == (userInput.research \/ userInput.calc) => RLock

ValidateOK(c) ==
    /\ CanValidate /\ ToolsOK(c)
    /\ Goto(c, "validate", IF Streaming(c) THEN "tools" ELSE "append")
    /\ UNCHANGED <<store, agentVars, lockVars, frame, turns>>

ValidateRejects(c) ==
    /\ CanValidate /\ ~ToolsOK(c)
    /\ Goto(c, "validate", "reject")
    /\ UNCHANGED <<store, agentVars, lockVars, frame, turns>>

\* An append under mu.
Add(c, message) ==
    /\ Lock(c)
    /\ history' = Append(history, message)
    /\ UNCHANGED <<store, summary, summarized, userInput, turns>>

\* The notice is appended and the request fails.
Reject(c) ==
    /\ Add(c, Say(c, "rejected", << >>))
    /\ Return(c, "reject")
    /\ UNCHANGED handoff

AppendReply(c) ==
    /\ Add(c, Say(c, "assistant", frame[c].reply.calls))
    /\ Goto(c, "append", IF Streaming(c) THEN "validate" ELSE "tools")
    /\ Set(c, [frame[c] EXCEPT !.todo = frame[c].reply.calls])
    /\ UNCHANGED handoff

-----------------------------------------------------------------------------
(* HandleToolCalls: every call is executed and answered in turn, a failing  *)
(* one by its error text.                                                   *)

CallHandoff(c) ==
    /\ frame[c].todo # << >> /\ Head(frame[c].todo) = "handoff"
    /\ Lock(c)
    /\ Goto(c, "tools", "respond")
    /\ handoff' = TRUE
    /\ UNCHANGED <<store, history, summary, summarized, userInput, frame, turns>>

\* (Mutant: a tool that fails is not answered.)
CallToolOrSkip(c) ==
    /\ frame[c].todo # << >> /\ Head(frame[c].todo) # "handoff"
    /\ \/ Goto(c, "tools", "respond") /\ UNCHANGED frame
       \/ Goto(c, "tools", "tools") /\ Set(c, [frame[c] EXCEPT !.todo = Tail(@)])
    /\ UNCHANGED <<store, agentVars, lockVars, turns>>

CallTool(c) ==
    /\ frame[c].todo # << >> /\ Head(frame[c].todo) # "handoff"
    /\ Goto(c, "tools", "respond")
    /\ UNCHANGED <<store, agentVars, lockVars, frame, turns>>

AppendFunctionResponse(c) ==
    /\ Goto(c, "respond", "tools")
    /\ Add(c, ToolResponse(frame[c].chat, Head(frame[c].todo)))
    /\ Set(c, [frame[c] EXCEPT !.todo = Tail(@)])
    /\ UNCHANGED handoff

ToolsDone(c) ==
    /\ frame[c].todo = << >>
    /\ Goto(c, "tools", IF frame[c].reply.dated THEN "warn" ELSE "check")
    /\ UNCHANGED <<store, agentVars, lockVars, frame, turns>>

\* A reply with suspicious dates is appended a second time, with a warning.
\* (Mutant: the warning is a kind of message nobody else knows.)
AppendWarningNotice(c) ==
    /\ Add(c, Say(c, "notice", frame[c].reply.calls))
    /\ Goto(c, "warn", "check")
    /\ UNCHANGED <<handoff, frame>>

AppendWarning(c) ==
    /\ Add(c, Say(c, "warned", frame[c].reply.calls))
    /\ Goto(c, "warn", "check")
    /\ UNCHANGED <<handoff, frame>>

-----------------------------------------------------------------------------
(* The end of an iteration.                                                 *)

\* A streaming request sends a reply without tool calls, if it has any text,
\* before it looks at the handoff plan.
\* (Mutant: the text before tool calls is sent too.)
EmittedAlways(c) == frame[c].sent + IF Streaming(c) /\ frame[c].reply.text THEN 1 ELSE 0
Emitted(c) ==
    frame[c].sent +
       IF Streaming(c) /\ frame[c].reply.calls = << >> /\ frame[c].reply.text THEN 1 ELSE 0

NextIteration(c) ==
    /\ Goto(c, "check", "loop")
    /\ Set(c, [frame[c] EXCEPT !.iter = @ + 1, !.reply = NoReply, !.sent = Emitted(c)])

TakeHandoff(c) ==
    /\ handoff
    /\ handoff' = FALSE
    /\ Add(c, Context(c))
    /\ NextIteration(c)

\* (Mutant: tool calls are looked at before the handoff plan.)
ContinueBeforeHandoff(c) ==
    /\ frame[c].reply.calls # << >>
    /\ Lock(c)
    /\ NextIteration(c)
    /\ UNCHANGED <<store, agentVars, turns>>

ContinueAfterTools(c) ==
    /\ ~handoff /\ frame[c].reply.calls # << >>
    /\ Lock(c)
    /\ NextIteration(c)
    /\ UNCHANGED <<store, agentVars, turns>>

FinalReply(c) ==
    /\ ~handoff /\ frame[c].reply.calls = << >>
    /\ Lock(c)
    /\ Goto(c, "check", "fetch")
    /\ Set(c, [frame[c] EXCEPT !.sent = Emitted(c)])
    /\ UNCHANGED <<store, agentVars, turns>>

GetHistory(c) ==
    /\ RLock
    /\ Goto(c, "fetch", "save")
    /\ Set(c, [frame[c] EXCEPT !.snap = history])
    /\ UNCHANGED <<store, agentVars, lockVars, turns>>

SaveSession(c) ==
    /\ store' = [store EXCEPT ![frame[c].chat] = frame[c].snap]
    /\ Return(c, "save")
    /\ UNCHANGED <<agentVars, lockVars, turns>>

-----------------------------------------------------------------------------
Bootstrap(c) == Route(c) \/ AppendBootstrap(c)

Start(c) ==
    \/ LoadHistory(c) \/ Reset(c)
    \/ BeginSlash(c) \/ BeginUnknownSlash(c) \/ BeginBootstrap(c) \/ BeginPlain(c)

Condense(c) ==
    \/ SkipSummary(c) \/ NeedSummary(c) \/ HoldReadLock(c)
    \/ SummarizeOldest(c) \/ NothingToSummarize(c)
    \/ UpdateSummary(c) \/ SummaryFails(c)

Answer(c) ==
    \/ Build(c) \/ Generate(c) \/ GenerateFails(c) \/ GiveUp(c)
    \/ ValidateOK(c) \/ ValidateRejects(c) \/ Reject(c) \/ AppendReply(c)

RunTools(c) ==
    \/ CallHandoff(c) \/ CallTool(c) \/ AppendFunctionResponse(c) \/ ToolsDone(c)
    \/ AppendWarning(c)

Finish(c) ==
    \/ TakeHandoff(c) \/ ContinueAfterTools(c) \/ FinalReply(c)
    \/ GetHistory(c) \/ SaveSession(c)

\* What the goroutine of a request does by itself.
Step(c) ==
    \/ Start(c) \/ Bootstrap(c) \/ Condense(c) \/ Answer(c) \/ RunTools(c)
    \/ Finish(c) \/ Announce(c)

\* The bound on turns is used up and every request has been answered.
Done ==
    /\ turns = MaxTurns /\ \A c \in Clients : pc[c] = "idle"
    /\ UNCHANGED vars

Next ==
    \/ \E c \in Clients : Receive(c) \/ ReceiveReset(c) \/ Step(c)
    \/ \E p \in Updaters : Announce(p) \/ RefreshPrompt(p)
    \/ \E chat \in Chats : DeleteSession(chat)
    \/ Done

\* Goroutines are scheduled and every call they wait for is bounded by a
\* timeout, so a request that can move does.  Users owe nothing.
Fairness ==
    /\ \A c \in Clients : WF_vars(Step(c))
    /\ \A p \in Updaters : WF_vars(RefreshPrompt(p))

Spec == Init /\ [][Next]_vars
FairSpec == Spec /\ Fairness

-----------------------------------------------------------------------------
(* Safety.                                                                  *)

\* A requested handoff is never left behind for somebody else's request: while
\* a plan is set, some request is between its tool calls and the section that
\* takes the plan (dispatcher.handleHandoff, the end of an iteration).
HandoffPending ==
    handoff => \E c \in Clients : pc[c] \in {"tools", "respond", "warn", "check"}

\* mu is consistent: it is read-locked exactly by the requests inside a
\* summarization, and a goroutine that blocks new readers still wants the lock
\* (otherwise nobody would ever release them).
LockConsistent ==
    /\ readers = {c \in Clients : pc[c] \in {"nested", "condense"}}
    /\ waiting # None => AtWriteLock(waiting)

\* The calls of message i are answered by the messages that follow it, in order.
Answered(messages, i) ==
    \A j \in DOMAIN messages[i].calls :
        /\ i + j \in DOMAIN messages
        /\ messages[i + j].kind = "tool"
        /\ messages[i + j].calls = <<messages[i].calls[j]>>

\* Message i repeats a reply: between the two there is only room for the
\* responses to its calls.
RepeatsReply(messages, i) ==
    LET first == (i - 1) - Len(messages[i].calls)
    IN  /\ first \in DOMAIN messages
        /\ messages[first].kind = "assistant"
        /\ messages[first].calls = messages[i].calls

\* Response i is in the place of a response to some reply's call.
AnswersReply(messages, i) ==
    \E k \in DOMAIN messages :
        /\ messages[k].kind = "assistant"
        /\ i - k \in DOMAIN messages[k].calls

\* In a stored chat every reply is followed by the responses to its calls, in
\* order, and every response has its reply (HandleToolCalls).  The copy with a
\* warning about dates is appended after the responses and carries the calls
\* again (orchestrator.go:286 and 420): these calls, and no others, have no
\* responses after them, and the same calls were answered just before.
ToolCallsAnswered ==
    \A ch \in Chats : \A i \in DOMAIN store[ch] :
        /\ store[ch][i].kind = "assistant" => Answered(store[ch], i)
        /\ store[ch][i].kind = "warned" => RepeatsReply(store[ch], i)
        /\ store[ch][i].kind = "tool" => AnswersReply(store[ch], i)

\* A chat that is saved has used the tools which the last turn's input requires,
\* in that turn or in an earlier one: the rule of ValidateRequiredToolUsage, which
\* looks at the whole history, but of the request's own input, though it reads
\* the input that all requests share.  This holds for requests that come one
\* after the other.
RequiredToolsInSavedChat ==
    \A c \in Clients :
        pc[c] = "save" => RequiredToolsUsed(frame[c].input, << >>, frame[c].snap)

\* A streaming request that is saved has sent its final reply once, if there was
\* any text to send, and nothing else: no text that came with tool calls, and
\* none of an iteration that went on.  (A reply without text is saved too: its
\* client gets the closing "done" alone.)
OneReplyStreamed ==
    \A c \in Clients : frame[c].op = "stream" =>
        /\ frame[c].sent <= 1
        /\ pc[c] \in {"fetch", "save"} =>
              frame[c].sent = IF frame[c].reply.text THEN 1 ELSE 0

\* The stored messages of a chat are messages of that chat.  This holds for
\* requests that come one after the other; ARCHITECTURE.md:32 and 74 promise it
\* for all ("Request serialization (requestMu)"), but nothing serializes them.
Own(messages, chat) == \A i \in DOMAIN messages : messages[i].chat = chat
SessionIsolation == \A ch \in Chats : Own(store[ch], ch)

\* What ChatService sees of the requests: the chat of each, as it was.
Open ==
    [c \in Clients |->
        IF pc[c] \in {"idle", "reset"} THEN << >>
        ELSE [chat |-> frame[c].chat, base |-> frame[c].sess]]

Service == INSTANCE ChatService WITH Idle <- << >>, open <- Open

\* The requests of one client at a time keep the promise of ChatService: they
\* work on the right chat, save only their own turn, and save nothing on failure.
ServiceSpec == Service!Spec

\* Every request is answered or fails.
Responds == \A c \in Clients : pc[c] # "idle" ~> pc[c] = "idle"

\* A read lock taken inside a read lock, with a writer waiting in between.
LockCycle == \E c \in readers : pc[c] = "nested" /\ waiting # None

\* However requests, condensations that fail or succeed, writers and the prompt
\* updater contend for mu, the lock cycle is the only thing that can keep a
\* request from being answered or failing.
RespondsUnlessCycle == \A c \in Clients : pc[c] # "idle" ~> pc[c] = "idle" \/ LockCycle

-----------------------------------------------------------------------------
(* What the documentation says and the code does not do.                    *)

\* agent.go:22 "eliminating the previous deadlock risk from nested ... locking":
\* a goroutine that holds mu's read lock never waits for a writer that waits
\* for that same read lock.
NoLockCycle == ~LockCycle

=============================================================================
