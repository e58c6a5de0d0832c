---------------------------- MODULE AgentProofs ----------------------------
(***************************************************************************)
(* Theorems about Agent for every set of clients, chats, inputs and        *)
(* replies, and every bound.                                               *)
(***************************************************************************)
EXTENDS Agent, SequenceTheorems, TLAPS

(***************************************************************************)
(* What the operators of ContextWindow return.                             *)
(***************************************************************************)
LEMMA SaidType ==
    ASSUME NEW kind \in Kinds, NEW chat \in Chats, NEW calls \in Seq(Tools)
    PROVE  Said(kind, chat, calls) \in Message
BY DEF Said, Message

LEMMA SubHistory ==
    ASSUME NEW h \in Seq(Message), NEW m \in Nat, NEW n \in Nat, n <= Len(h)
    PROVE  SubSeq(h, m + 1, n) \in Seq(Message)
<1>1. \A i \in m + 1 .. n : h[i] \in Message
  BY ElementOfSeq, LenProperties
<1> QED BY <1>1, SubSeqProperties

LEMMA SummaryEndType ==
    ASSUME NEW h \in Seq(Message)
    PROVE  SummaryEnd(h) \in Nat /\ SummaryEnd(h) <= Len(h)
BY KeepRecentAssumption, LenProperties DEF SummaryEnd

LEMMA RecentStartType ==
    ASSUME NEW h \in Seq(Message)
    PROVE  /\ ProtectedCount(h) \in Nat /\ ProtectedCount(h) <= Len(h)
           /\ RecentStart(h) \in Nat /\ RecentStart(h) <= Len(h)
BY KeepRecentAssumption, LenProperties DEF RecentStart, ProtectedCount

LEMMA BuildType ==
    ASSUME NEW h \in Seq(Message), NEW s \in Seq(Message)
    PROVE  BuildLLMHistory(h, s) \in [summary : Seq(Message), messages : Seq(Message)]
<1>1. CASE h = << >>
  BY <1>1, EmptySeq DEF BuildLLMHistory, EmptyView
<1>2. CASE h # << >>
  <2>1. SubSeq(h, 0 + 1, ProtectedCount(h)) \in Seq(Message)
    BY RecentStartType, SubHistory
  <2>2. SubSeq(h, RecentStart(h) + 1, Len(h)) \in Seq(Message)
    BY RecentStartType, SubHistory, LenProperties
  <2>3. SubSeq(h, 1, ProtectedCount(h)) \o SubSeq(h, RecentStart(h) + 1, Len(h)) \in Seq(Message)
    BY <2>1, <2>2, ConcatProperties
  <2> QED BY <1>2, <2>3 DEF BuildLLMHistory
<1> QED BY <1>1, <1>2

LEMMA ConstantTypes ==
    /\ NoInput \in Inputs
    /\ NoReply \in Reply
    /\ EmptyView \in [summary : Seq(Message), messages : Seq(Message)]
    /\ NoFrame \in Frame
BY ChatAssumption, EmptySeq
   DEF NoInput, Inputs, NoReply, Reply, EmptyView, NoFrame, NewFrame, Frame

(***************************************************************************)
(* Type correctness, one step per action.                                  *)
(***************************************************************************)
LEMMA InitType == Init => TypeOK
<1> SUFFICES ASSUME Init PROVE TypeOK
  OBVIOUS
<1>1. << >> \in Seq(Message)
  BY EmptySeq
<1>2. store \in [Chats -> Seq(Message)] /\ frame \in [Clients -> Frame]
  BY <1>1, ConstantTypes DEF Init
<1>3. /\ history \in Seq(Message) /\ summary \in Seq(Message)
      /\ userInput \in Inputs
  BY <1>1, ConstantTypes DEF Init
<1>4. pc \in [Clients -> PCs]
  BY DEF Init, PCs
<1> QED BY <1>2, <1>3, <1>4 DEF Init, TypeOK, Typed, CallOpen, Procs

LEMMA FrameFields ==
    ASSUME Typed, NEW c \in Clients
    PROVE  /\ frame[c] \in Frame
           /\ frame[c].chat \in Chats
           /\ frame[c].input \in Inputs
           /\ frame[c].sess \in Seq(Message)
           /\ frame[c].snap \in Seq(Message)
           /\ frame[c].range \in Nat
           /\ frame[c].reply \in Reply
           /\ frame[c].reply.calls \in Seq(Tools)
           /\ frame[c].todo \in Seq(Tools)
           /\ frame[c].iter \in Nat
           /\ frame[c].sent \in Nat
BY DEF Typed, Frame, Reply

LEMMA LockType ==
    ASSUME Typed, NEW p \in Procs, Lock(p)
    PROVE  readers' \subseteq Clients /\ waiting' \in Procs \cup {None}
BY DEF Typed, Lock

LEMMA GotoType ==
    ASSUME Typed, NEW c \in Clients, NEW from, NEW to \in PCs, Goto(c, from, to)
    PROVE  pc' \in [Clients -> PCs]
BY DEF Typed, Goto

LEMMA SetType ==
    ASSUME Typed, NEW c \in Clients, NEW f \in Frame, Set(c, f)
    PROVE  frame' \in [Clients -> Frame]
BY DEF Typed, Set

LEMMA SayType ==
    ASSUME Typed, NEW c \in Clients, NEW kind \in Kinds, NEW calls \in Seq(Tools)
    PROVE  Say(c, kind, calls) \in Message
BY FrameFields, SaidType DEF Say

LEMMA AppendType ==
    ASSUME NEW h \in Seq(Message), NEW m \in Message
    PROVE  Append(h, m) \in Seq(Message)
OBVIOUS

LEMMA TypedStep == TypeOK /\ [Next]_vars => Typed'
<1> SUFFICES ASSUME Typed, CallOpen, [Next]_vars PROVE Typed'
  BY DEF TypeOK
<1> USE DEF agentVars, lockVars, PCs
<1>1. ASSUME NEW c \in Clients, Receive(c) PROVE Typed'
  <2>1. PICK op \in Modes, chat \in Chats, input \in InputChoices :
            Set(c, NewFrame(op, chat, input, store[chat]))
    BY <1>1 DEF Receive
  <2>2. NewFrame(op, chat, input, store[chat]) \in Frame
    BY ConstantTypes, InputAssumption, EmptySeq DEF NewFrame, Frame, Typed
  <2>3. frame' \in [Clients -> Frame]
    BY <2>1, <2>2, SetType
  <2>4. pc' \in [Clients -> PCs]
    BY <1>1, GotoType DEF Receive
  <2> QED BY <1>1, <2>3, <2>4 DEF Receive, Typed
<1>2. ASSUME NEW c \in Clients, ReceiveReset(c) PROVE Typed'
  BY <1>2, GotoType DEF ReceiveReset, Typed
<1>3. ASSUME NEW c \in Clients, Start(c) PROVE Typed'
  <2>1. CASE LoadHistory(c)
    BY <2>1, GotoType, LockType, FrameFields DEF LoadHistory, Typed, Procs
  <2>2. CASE Reset(c)
    BY <2>2, GotoType, LockType, EmptySeq DEF Reset, Typed, Procs
  <2>3. ASSUME NEW next \in PCs, NEW added \in Seq(Message), Begin(c, next, added)
        PROVE  Typed'
    <3>1. history \o added \in Seq(Message)
      BY ConcatProperties DEF Typed
    <3> QED BY <2>3, <3>1, GotoType, LockType, FrameFields DEF Begin, Typed, Procs
  <2>4. User(c) \in Message /\ Context(c) \in Message
    BY SayType, EmptySeq DEF User, Context, Kinds
  <2>5. /\ <<User(c)>> \in Seq(Message)
        /\ <<User(c), Context(c)>> \in Seq(Message)
        /\ << >> \in Seq(Message)
    BY <2>4, EmptySeq
  <2>6. CASE BeginSlash(c) \/ BeginUnknownSlash(c) \/ BeginBootstrap(c) \/ BeginPlain(c)
    BY <2>3, <2>5, <2>6 DEF BeginSlash, BeginUnknownSlash, BeginBootstrap, BeginPlain
  <2> QED BY <1>3, <2>1, <2>2, <2>6 DEF Start
<1>4. ASSUME NEW c \in Clients, Bootstrap(c) PROVE Typed'
  <2>1. CASE Route(c)
    <3>1. [frame[c] EXCEPT !.snap = history] \in Frame
      BY FrameFields DEF Frame, Typed
    <3> QED BY <2>1, <3>1, GotoType, SetType DEF Route, Typed
  <2>2. CASE AppendBootstrap(c)
    <3>1. [frame[c] EXCEPT !.snap = << >>] \in Frame
      BY FrameFields, EmptySeq DEF Frame, Typed
    <3>2. Append(frame[c].snap, Context(c)) \in Seq(Message)
      BY FrameFields, SayType, AppendType, EmptySeq DEF Context, Kinds
    <3> QED BY <2>2, <3>1, <3>2, GotoType, SetType DEF AppendBootstrap, Typed
  <2> QED BY <1>4, <2>1, <2>2 DEF Bootstrap
<1>5. ASSUME NEW c \in Clients, Condense(c) PROVE Typed'
  <2>1. CASE SkipSummary(c) \/ NeedSummary(c)
    BY <2>1, GotoType DEF SkipSummary, NeedSummary, Typed
  <2>2. CASE HoldReadLock(c)
    BY <2>2, GotoType DEF HoldReadLock, Typed
  <2>3. CASE SummarizeOldest(c)
    <3> DEFINE f == [frame[c] EXCEPT !.range = SummaryEnd(history),
                         !.snap = SubSeq(history, summarized + 1, SummaryEnd(history))]
    <3>1. SummaryEnd(history) \in Nat /\ SummaryEnd(history) <= Len(history)
      BY SummaryEndType DEF Typed
    <3>2. SubSeq(history, summarized + 1, SummaryEnd(history)) \in Seq(Message)
      BY <3>1, SubHistory DEF Typed
    <3>3. f \in Frame
      BY <3>1, <3>2, FrameFields DEF Frame, Typed
    <3>4. Set(c, f)
      BY <2>3 DEF SummarizeOldest
    <3>5. frame' \in [Clients -> Frame]
      BY <3>3, <3>4, SetType
    <3> QED BY <2>3, <3>5, GotoType DEF SummarizeOldest, Typed
  <2>4. CASE NothingToSummarize(c)
    BY <2>4, GotoType DEF NothingToSummarize, Typed
  <2>5. ASSUME EndSummary(c) PROVE frame' \in [Clients -> Frame]
    <3>1. [frame[c] EXCEPT !.range = 0, !.snap = << >>] \in Frame
      BY FrameFields, EmptySeq DEF Frame, Typed
    <3> QED BY <2>5, <3>1, SetType DEF EndSummary
  <2>6. CASE UpdateSummary(c)
    BY <2>5, <2>6, GotoType, FrameFields DEF UpdateSummary, EndSummary, Typed
  <2>7. CASE SummaryFails(c)
    BY <2>5, <2>7, GotoType DEF SummaryFails, EndSummary, Typed
  <2> QED BY <1>5, <2>1, <2>2, <2>3, <2>4, <2>6, <2>7 DEF Condense
<1>6. ASSUME NEW c \in Clients, Return(c, "loop") \/ Return(c, "generate")
                                \/ Return(c, "reject") \/ Return(c, "save")
      PROVE  pc' \in [Clients -> PCs] /\ frame' \in [Clients -> Frame]
  BY <1>6, GotoType, SetType, ConstantTypes DEF Return
<1>7. ASSUME NEW c \in Clients, NEW m \in Message, Add(c, m)
      PROVE  /\ history' \in Seq(Message)
             /\ readers' \subseteq Clients /\ waiting' \in Procs \cup {None}
  BY <1>7, LockType, AppendType DEF Add, Typed, Procs
<1>8. ASSUME NEW c \in Clients, Answer(c) PROVE Typed'
  <2>1. CASE Build(c)
    <3>1. [frame[c] EXCEPT !.view = BuildLLMHistory(history, summary)] \in Frame
      BY FrameFields, BuildType DEF Frame, Typed
    <3> QED BY <2>1, <3>1, GotoType, SetType DEF Build, Typed
  <2>2. CASE Generate(c)
    <3>1. PICK reply \in Replies :
              Set(c, [frame[c] EXCEPT !.reply = reply, !.view = EmptyView])
      BY <2>2 DEF Generate
    <3>2. [frame[c] EXCEPT !.reply = reply, !.view = EmptyView] \in Frame
      BY FrameFields, ConstantTypes, ReplyAssumption DEF Frame
    <3>3. frame' \in [Clients -> Frame]
      BY <3>1, <3>2, SetType
    <3>4. pc' \in [Clients -> PCs]
      BY <2>2 DEF Generate, Goto, Typed
    <3> QED BY <2>2, <3>3, <3>4 DEF Generate, Typed
  <2>3. CASE GenerateFails(c) \/ GiveUp(c)
    BY <2>3, <1>6 DEF GenerateFails, GiveUp, Typed
  <2>4. CASE ValidateOK(c) \/ ValidateRejects(c)
    <3>1. pc' \in [Clients -> PCs]
      BY <2>4 DEF ValidateOK, ValidateRejects, Goto, Typed
    <3> QED BY <2>4, <3>1 DEF ValidateOK, ValidateRejects, Typed
  <2>5. CASE Reject(c)
    <3>1. Say(c, "rejected", << >>) \in Message
      BY SayType, EmptySeq DEF Kinds
    <3> QED BY <2>5, <3>1, <1>6, <1>7 DEF Reject, Add, Typed
  <2>6. CASE AppendReply(c)
    <3>1. Say(c, "assistant", frame[c].reply.calls) \in Message
      BY SayType, FrameFields DEF Kinds
    <3>2. [frame[c] EXCEPT !.todo = frame[c].reply.calls] \in Frame
      BY FrameFields DEF Frame
    <3>3. frame' \in [Clients -> Frame]
      BY <2>6, <3>2, SetType DEF AppendReply
    <3>4. pc' \in [Clients -> PCs]
      BY <2>6 DEF AppendReply, Goto, Typed
    <3> QED BY <2>6, <3>1, <3>3, <3>4, <1>7 DEF AppendReply, Add, Typed
  <2> QED BY <1>8, <2>1, <2>2, <2>3, <2>4, <2>5, <2>6 DEF Answer
<1>9. ASSUME NEW c \in Clients, RunTools(c) PROVE Typed'
  <2>1. CASE CallHandoff(c)
    BY <2>1, GotoType, LockType DEF CallHandoff, Typed, Procs
  <2>2. CASE CallTool(c)
    BY <2>2, GotoType DEF CallTool, Typed
  <2>3. CASE AppendFunctionResponse(c)
    <3>1. frame[c].todo # << >>
      BY <2>3 DEF AppendFunctionResponse, Goto, CallOpen
    <3>2. Head(frame[c].todo) \in Tools /\ Tail(frame[c].todo) \in Seq(Tools)
      BY <3>1, FrameFields, HeadTailProperties
    <3>3. <<Head(frame[c].todo)>> \in Seq(Tools)
      BY <3>2
    <3>4. ToolResponse(frame[c].chat, Head(frame[c].todo)) \in Message
      BY <3>3, FrameFields, SaidType DEF ToolResponse, Kinds
    <3>5. [frame[c] EXCEPT !.todo = Tail(frame[c].todo)] \in Frame
      BY <3>2, FrameFields DEF Frame
    <3>6. Set(c, [frame[c] EXCEPT !.todo = Tail(frame[c].todo)])
      BY <2>3 DEF AppendFunctionResponse
    <3>7. frame' \in [Clients -> Frame]
      BY <3>5, <3>6, SetType
    <3>8. pc' \in [Clients -> PCs]
      BY <2>3, GotoType DEF AppendFunctionResponse
    <3> QED BY <2>3, <3>4, <3>7, <3>8, <1>7 DEF AppendFunctionResponse, Add, Typed
  <2>4. CASE ToolsDone(c)
    <3>1. pc' \in [Clients -> PCs]
      BY <2>4 DEF ToolsDone, Goto, Typed
    <3> QED BY <2>4, <3>1 DEF ToolsDone, Typed
  <2>5. CASE AppendWarning(c)
    <3>1. Say(c, "warned", frame[c].reply.calls) \in Message
      BY SayType, FrameFields DEF Kinds
    <3> QED BY <2>5, <3>1, <1>7, GotoType DEF AppendWarning, Add, Typed
  <2> QED BY <1>9, <2>1, <2>2, <2>3, <2>4, <2>5 DEF RunTools
<1>10. ASSUME NEW c \in Clients, Finish(c) PROVE Typed'
  <2>1. Emitted(c) \in Nat
    BY FrameFields DEF Emitted
  <2>2. ASSUME NextIteration(c)
        PROVE  pc' \in [Clients -> PCs] /\ frame' \in [Clients -> Frame]
    <3> DEFINE f == [frame[c] EXCEPT !.iter = @ + 1, !.reply = NoReply, !.sent = Emitted(c)]
    <3>1. frame[c].iter + 1 \in Nat
      BY FrameFields
    <3>2. f \in Frame
      BY <2>1, <3>1, FrameFields, ConstantTypes DEF Frame
    <3>3. Set(c, f)
      BY <2>2 DEF NextIteration
    <3> HIDE DEF f
    <3>4. frame' \in [Clients -> Frame]
      BY <3>2, <3>3, SetType
    <3> QED BY <2>2, <3>4, GotoType DEF NextIteration
  <2>3. CASE TakeHandoff(c)
    <3>1. Context(c) \in Message
      BY SayType, EmptySeq DEF Context, Kinds
    <3> QED BY <2>2, <2>3, <3>1, <1>7 DEF TakeHandoff, Add, Typed
  <2>4. CASE ContinueAfterTools(c)
    BY <2>2, <2>4, LockType DEF ContinueAfterTools, Typed, Procs
  <2>5. CASE FinalReply(c)
    <3>1. [frame[c] EXCEPT !.sent = Emitted(c)] \in Frame
      BY <2>1, FrameFields DEF Frame
    <3> QED BY <2>5, <3>1, GotoType, SetType, LockType DEF FinalReply, Typed, Procs
  <2>6. CASE GetHistory(c)
    <3>1. [frame[c] EXCEPT !.snap = history] \in Frame
      BY FrameFields DEF Frame, Typed
    <3> QED BY <2>6, <3>1, GotoType, SetType DEF GetHistory, Typed
  <2>7. CASE SaveSession(c)
    BY <2>7, <1>6, FrameFields DEF SaveSession, Typed
  <2> QED BY <1>10, <2>3, <2>4, <2>5, <2>6, <2>7 DEF Finish
<1>11. ASSUME NEW p \in Procs, Announce(p) PROVE Typed'
  BY <1>11 DEF Announce, Typed
<1>12. ASSUME NEW p \in Updaters, RefreshPrompt(p) PROVE Typed'
  BY <1>12, LockType DEF RefreshPrompt, Typed, Procs
<1>13. ASSUME NEW chat \in Chats, DeleteSession(chat) PROVE Typed'
  BY <1>13, EmptySeq DEF DeleteSession, Typed
<1>14. CASE UNCHANGED vars
  BY <1>14 DEF vars, Typed
<1> QED
  BY <1>1, <1>2, <1>3, <1>4, <1>5, <1>8, <1>9, <1>10, <1>11, <1>12, <1>13, <1>14
     DEF Next, Step, Done, Procs

(***************************************************************************)
(* A step of one request leaves the others where they are.                 *)
(***************************************************************************)
LEMMA Locality ==
    ASSUME Typed, NEW c \in Clients, NEW d \in Clients, d # c,
           Receive(c) \/ ReceiveReset(c) \/ Step(c)
    PROVE  pc'[d] = pc[d] /\ frame'[d] = frame[d]
<1> USE DEF Goto, Set, Return, Typed
<1>1. CASE Receive(c) \/ ReceiveReset(c)
  BY <1>1 DEF Receive, ReceiveReset
<1>2. CASE Start(c)
  BY <1>2 DEF Start, LoadHistory, Reset, BeginSlash, BeginUnknownSlash,
              BeginBootstrap, BeginPlain, Begin
<1>3. CASE Bootstrap(c)
  BY <1>3 DEF Bootstrap, Route, AppendBootstrap
<1>4. CASE Condense(c)
  BY <1>4 DEF Condense, SkipSummary, NeedSummary, HoldReadLock, SummarizeOldest,
              NothingToSummarize, UpdateSummary, SummaryFails, EndSummary
<1>5. CASE Answer(c)
  BY <1>5 DEF Answer, Build, Generate, GenerateFails, GiveUp, ValidateOK,
              ValidateRejects, Reject, AppendReply
<1>6. CASE RunTools(c)
  BY <1>6 DEF RunTools, CallHandoff, CallTool, AppendFunctionResponse, ToolsDone,
              AppendWarning
<1>7. CASE Finish(c)
  BY <1>7 DEF Finish, TakeHandoff, ContinueAfterTools, FinalReply, NextIteration,
              GetHistory, SaveSession
<1>8. CASE Announce(c)
  BY <1>8 DEF Announce
<1> QED BY <1>1, <1>2, <1>3, <1>4, <1>5, <1>6, <1>7, <1>8 DEF Step

\* Only a tool call leads to "respond".
LEMMA ToRespond ==
    ASSUME Typed, NEW c \in Clients, pc'[c] = "respond",
           Receive(c) \/ ReceiveReset(c) \/ Step(c)
    PROVE  /\ frame'[c] = frame[c]
           /\ pc[c] = "respond" \/ frame[c].todo # << >>
<1> USE DEF Goto, Set, Return, Typed
<1>1. CASE Receive(c) \/ ReceiveReset(c)
  BY <1>1 DEF Receive, ReceiveReset
<1>2. CASE Start(c)
  BY <1>2 DEF Start, LoadHistory, Reset, BeginSlash, BeginUnknownSlash,
              BeginBootstrap, BeginPlain, Begin
<1>3. CASE Bootstrap(c)
  BY <1>3 DEF Bootstrap, Route, AppendBootstrap
<1>4. CASE Condense(c)
  BY <1>4 DEF Condense, SkipSummary, NeedSummary, HoldReadLock, SummarizeOldest,
              NothingToSummarize, UpdateSummary, SummaryFails, EndSummary
<1>5. CASE Answer(c)
  BY <1>5 DEF Answer, Build, Generate, GenerateFails, GiveUp, ValidateOK,
              ValidateRejects, Reject, AppendReply
<1>6. CASE RunTools(c)
  BY <1>6 DEF RunTools, CallHandoff, CallTool, AppendFunctionResponse, ToolsDone,
              AppendWarning
<1>7. CASE Finish(c)
  BY <1>7 DEF Finish, TakeHandoff, ContinueAfterTools, FinalReply, NextIteration,
              GetHistory, SaveSession
<1>8. CASE Announce(c)
  BY <1>8 DEF Announce
<1> QED BY <1>1, <1>2, <1>3, <1>4, <1>5, <1>6, <1>7, <1>8 DEF Step

LEMMA CallOpenStep == TypeOK /\ [Next]_vars => CallOpen'
<1> SUFFICES ASSUME Typed, CallOpen, [Next]_vars,
                    NEW d \in Clients, pc'[d] = "respond"
             PROVE  frame'[d].todo # << >>
  BY DEF TypeOK, CallOpen
<1>1. ASSUME NEW c \in Clients, Receive(c) \/ ReceiveReset(c) \/ Step(c)
      PROVE  frame'[d].todo # << >>
  <2>1. CASE d = c
    BY <1>1, <2>1, ToRespond DEF CallOpen
  <2>2. CASE d # c
    BY <1>1, <2>2, Locality DEF CallOpen
  <2> QED BY <2>1, <2>2
<1>2. CASE UNCHANGED <<pc, frame>>
  BY <1>2 DEF CallOpen
<1> QED BY <1>1, <1>2 DEF Next, Announce, RefreshPrompt, DeleteSession, Done, vars

\* Every variable keeps its type (the message kinds, the lock's holders, the
\* request frames), whatever the clients, inputs and replies.
THEOREM TypeCorrect == Spec => []TypeOK
BY InitType, TypedStep, CallOpenStep, PTL DEF Spec, TypeOK

(***************************************************************************)
(* The handoff plan.                                                       *)
(***************************************************************************)
AtTools == {"tools", "respond", "warn", "check"}

LEMMA HandoffStep == TypeOK /\ HandoffPending /\ [Next]_vars => HandoffPending'
<1> SUFFICES ASSUME Typed, HandoffPending, [Next]_vars, handoff'
             PROVE  \E d \in Clients : pc'[d] \in AtTools
  BY DEF TypeOK, HandoffPending, AtTools
\* A request that starts or goes through a step without touching the plan
\* either was not the one that protects it or goes on doing so.
<1>1. ASSUME NEW c \in Clients, Receive(c) \/ ReceiveReset(c) \/ Step(c)
      PROVE  \/ pc'[c] \in AtTools
             \/ handoff /\ pc[c] \notin AtTools
  <2> USE DEF Goto, Return, Typed, AtTools, agentVars
  <2>1. CASE Receive(c) \/ ReceiveReset(c)
    BY <1>1, <2>1 DEF Receive, ReceiveReset
  <2>2. CASE Start(c)
    BY <1>1, <2>2 DEF Start, LoadHistory, Reset, BeginSlash, BeginUnknownSlash,
                BeginBootstrap, BeginPlain, Begin
  <2>3. CASE Bootstrap(c)
    BY <1>1, <2>3 DEF Bootstrap, Route, AppendBootstrap
  <2>4. CASE Condense(c)
    BY <1>1, <2>4 DEF Condense, SkipSummary, NeedSummary, HoldReadLock, SummarizeOldest,
                NothingToSummarize, UpdateSummary, SummaryFails, EndSummary
  <2>5. CASE Answer(c)
    BY <1>1, <2>5 DEF Answer, Build, Generate, GenerateFails, GiveUp, ValidateOK,
                ValidateRejects, Reject, AppendReply, Add
  <2>6. CASE RunTools(c)
    BY <1>1, <2>6 DEF RunTools, CallHandoff, CallTool, AppendFunctionResponse, ToolsDone,
                AppendWarning, Add
  <2>7. CASE Finish(c)
    BY <1>1, <2>7 DEF Finish, TakeHandoff, ContinueAfterTools, FinalReply, NextIteration,
                GetHistory, SaveSession, Add
  <2>8. CASE Announce(c)
    BY <1>1, <2>8 DEF Announce
  <2> QED BY <1>1, <2>1, <2>2, <2>3, <2>4, <2>5, <2>6, <2>7, <2>8 DEF Step
<1>2. ASSUME NEW c \in Clients, Receive(c) \/ ReceiveReset(c) \/ Step(c)
      PROVE  \E d \in Clients : pc'[d] \in AtTools
  <2>1. CASE pc'[c] \in AtTools
    BY <2>1
  <2>2. CASE handoff /\ pc[c] \notin AtTools
    <3>1. PICK d \in Clients : pc[d] \in AtTools
      BY <2>2 DEF HandoffPending, AtTools
    <3>2. pc'[d] = pc[d]
      BY <1>2, <2>2, <3>1, Locality
    <3> QED BY <3>1, <3>2
  <2> QED BY <1>1, <1>2, <2>1, <2>2
<1>3. CASE UNCHANGED <<pc, handoff>>
  BY <1>3 DEF HandoffPending, AtTools
<1> QED
  BY <1>2, <1>3 DEF Next, Announce, RefreshPrompt, DeleteSession, Done, vars, agentVars

\* A handoff plan never outlives the iteration that asked for it, however many
\* requests share the agent.
THEOREM HandoffNeverLeftBehind == Spec => []HandoffPending
<1>1. Init => HandoffPending
  BY DEF Init, HandoffPending
<1> QED BY <1>1, HandoffStep, TypeCorrect, PTL DEF Spec

(***************************************************************************)
(* The lock.                                                               *)
(***************************************************************************)
Reading == {"nested", "condense"}

\* The read lock is taken and released exactly with the summarization.
LEMMA ReadersStep ==
    ASSUME TypeOK, LockConsistent, NEW c \in Clients,
           Receive(c) \/ ReceiveReset(c) \/ Step(c)
    PROVE  readers' = {d \in Clients : pc'[d] \in Reading}
<1>1. readers = {d \in Clients : pc[d] \in Reading}
  BY DEF LockConsistent, Reading
<1>2. /\ c \in readers' <=> pc'[c] \in Reading
      /\ readers' \ {c} = readers \ {c}
      /\ readers' \subseteq Clients
  <2> USE <1>1 DEF Goto, Return, Typed, TypeOK, Reading, lockVars, Lock
  <2>1. CASE Receive(c) \/ ReceiveReset(c)
    BY <2>1 DEF Receive, ReceiveReset
  <2>2. CASE Start(c)
    BY <2>2 DEF Start, LoadHistory, Reset, BeginSlash, BeginUnknownSlash,
                BeginBootstrap, BeginPlain, Begin
  <2>3. CASE Bootstrap(c)
    BY <2>3 DEF Bootstrap, Route, AppendBootstrap
  <2>4. CASE Condense(c)
    BY <2>4 DEF Condense, SkipSummary, NeedSummary, HoldReadLock, SummarizeOldest,
                NothingToSummarize, UpdateSummary, SummaryFails, EndSummary
  <2>5. CASE Answer(c)
    BY <2>5 DEF Answer, Build, Generate, GenerateFails, GiveUp, ValidateOK,
                ValidateRejects, Reject, AppendReply, Add
  <2>6. CASE RunTools(c)
    BY <2>6 DEF RunTools, CallHandoff, CallTool, AppendFunctionResponse, ToolsDone,
                AppendWarning, Add
  <2>7. CASE Finish(c)
    BY <2>7 DEF Finish, TakeHandoff, ContinueAfterTools, FinalReply, NextIteration,
                GetHistory, SaveSession, Add
  <2>8. CASE Announce(c)
    BY <2>8 DEF Announce
  <2> QED BY <2>1, <2>2, <2>3, <2>4, <2>5, <2>6, <2>7, <2>8 DEF Step
<1>3. ASSUME NEW d \in Clients, d # c PROVE pc'[d] = pc[d]
  BY <1>3, Locality DEF TypeOK
<1> QED BY <1>1, <1>2, <1>3

\* A request that waits for the write lock does nothing before it has it.
LEMMA WaiterStep ==
    ASSUME TypeOK, LockConsistent, NEW c \in Clients,
           Receive(c) \/ ReceiveReset(c) \/ Step(c), waiting = c, ~Announce(c)
    PROVE  waiting' = None
<1>1. AtWriteLock(c) /\ c \notin Updaters /\ c # None
  BY ClientAssumption DEF LockConsistent
<1> USE <1>1 DEF Goto, Return, AtWriteLock, Lock, RLock
<1>2. CASE Receive(c) \/ ReceiveReset(c)
  BY <1>2 DEF Receive, ReceiveReset
<1>3. CASE Start(c)
  BY <1>3 DEF Start, LoadHistory, Reset, BeginSlash, BeginUnknownSlash,
                BeginBootstrap, BeginPlain, Begin
<1>4. CASE Bootstrap(c)
  BY <1>4 DEF Bootstrap, Route, AppendBootstrap
<1>5. CASE Condense(c)
  BY <1>5 DEF Condense, SkipSummary, NeedSummary, HoldReadLock, SummarizeOldest,
                NothingToSummarize, UpdateSummary, SummaryFails, EndSummary
<1>6. CASE Answer(c)
  BY <1>6 DEF Answer, Build, Generate, GenerateFails, GiveUp, ValidateOK,
                ValidateRejects, Reject, AppendReply, Add
<1>7. CASE RunTools(c)
  BY <1>7 DEF RunTools, CallHandoff, CallTool, AppendFunctionResponse, ToolsDone,
                AppendWarning, Add
<1>8. CASE Finish(c)
  BY <1>8 DEF Finish, TakeHandoff, ContinueAfterTools, FinalReply, NextIteration,
                GetHistory, SaveSession, Add
<1> QED BY <1>2, <1>3, <1>4, <1>5, <1>6, <1>7, <1>8 DEF Step

LEMMA WaitingStep ==
    ASSUME TypeOK, LockConsistent, NEW c \in Clients,
           Receive(c) \/ ReceiveReset(c) \/ Step(c)
    PROVE  waiting' \in {None, waiting} \/ Announce(c)
<1> USE DEF Lock, lockVars
<1>1. CASE Receive(c) \/ ReceiveReset(c)
  BY <1>1 DEF Receive, ReceiveReset
<1>2. CASE Start(c)
  BY <1>2 DEF Start, LoadHistory, Reset, BeginSlash, BeginUnknownSlash,
                BeginBootstrap, BeginPlain, Begin
<1>3. CASE Bootstrap(c)
  BY <1>3 DEF Bootstrap, Route, AppendBootstrap
<1>4. CASE Condense(c)
  BY <1>4 DEF Condense, SkipSummary, NeedSummary, HoldReadLock, SummarizeOldest,
                NothingToSummarize, UpdateSummary, SummaryFails, EndSummary
<1>5. CASE Answer(c)
  BY <1>5 DEF Answer, Build, Generate, GenerateFails, GiveUp, ValidateOK,
                ValidateRejects, Reject, AppendReply, Add
<1>6. CASE RunTools(c)
  BY <1>6 DEF RunTools, CallHandoff, CallTool, AppendFunctionResponse, ToolsDone,
                AppendWarning, Add
<1>7. CASE Finish(c)
  BY <1>7 DEF Finish, TakeHandoff, ContinueAfterTools, FinalReply, NextIteration,
                GetHistory, SaveSession, Add
<1>8. CASE Announce(c)
  BY <1>8 DEF Announce
<1> QED BY <1>1, <1>2, <1>3, <1>4, <1>5, <1>6, <1>7, <1>8 DEF Step

LEMMA LockStep == TypeOK /\ LockConsistent /\ [Next]_vars => LockConsistent'
<1> SUFFICES ASSUME TypeOK, LockConsistent, [Next]_vars PROVE LockConsistent'
  OBVIOUS
<1>1. ASSUME NEW p \in Procs, Announce(p) PROVE LockConsistent'
  BY <1>1 DEF Announce, LockConsistent, AtWriteLock, agentVars
<1>2. ASSUME NEW c \in Clients, Receive(c) \/ ReceiveReset(c) \/ Step(c), ~Announce(c)
      PROVE  LockConsistent'
  <2>1. readers' = {d \in Clients : pc'[d] \in {"nested", "condense"}}
    BY <1>2, ReadersStep DEF Reading
  <2>2. ASSUME waiting' # None PROVE AtWriteLock(waiting)'
    <3>1. waiting' = waiting /\ AtWriteLock(waiting)
      BY <1>2, <2>2, WaitingStep DEF LockConsistent
    <3>2. waiting # c
      BY <1>2, <2>2, WaiterStep
    <3>3. CASE waiting \in Updaters
      BY <3>1, <3>3 DEF AtWriteLock
    <3>4. CASE waiting \in Clients
      <4>1. pc'[waiting] = pc[waiting] /\ frame'[waiting] = frame[waiting]
        BY <1>2, <3>2, <3>4, Locality DEF TypeOK
      <4> QED BY <3>1, <3>4, <4>1 DEF AtWriteLock
    <3> QED BY <3>1, <3>3, <3>4 DEF AtWriteLock
  <2> QED BY <2>1, <2>2 DEF LockConsistent
<1>3. ASSUME NEW p \in Updaters, RefreshPrompt(p) PROVE LockConsistent'
  BY <1>3 DEF RefreshPrompt, Lock, LockConsistent
<1>4. CASE UNCHANGED <<lockVars, pc, frame>>
  BY <1>4 DEF LockConsistent, AtWriteLock, lockVars
<1> QED
  BY <1>1, <1>2, <1>3, <1>4 DEF Next, Step, Procs, DeleteSession, Done, vars

\* mu is read-locked exactly by the summarizing requests, and whoever blocks
\* new readers is still waiting for the write lock, for any number of requests
\* and background writers.
THEOREM LockCorrect == Spec => []LockConsistent
<1>1. Init => LockConsistent
  BY DEF Init, LockConsistent
<1> QED BY <1>1, LockStep, TypeCorrect, PTL DEF Spec

(***************************************************************************)
(* One client: chats do not mix.                                           *)
(***************************************************************************)
LEMMA OwnEmpty == ASSUME NEW ch PROVE Own(<< >>, ch)
BY DEF Own

LEMMA OwnAppend ==
    ASSUME NEW ch, NEW h \in Seq(Message), Own(h, ch), NEW m \in Message, m.chat = ch
    PROVE  Own(Append(h, m), ch)
BY LenProperties DEF Own

LEMMA OwnConcat ==
    ASSUME NEW ch, NEW h \in Seq(Message), Own(h, ch), NEW t \in Seq(Message), Own(t, ch)
    PROVE  Own(h \o t, ch)
<1>1. h \o t \in Seq(Message) /\ Len(h \o t) = Len(h) + Len(t)
  BY ConcatProperties
<1>2. \A i \in 1 .. Len(h) + Len(t) :
          (h \o t)[i] = IF i <= Len(h) THEN h[i] ELSE t[i - Len(h)]
  BY ConcatProperties
<1>3. DOMAIN h = 1 .. Len(h) /\ DOMAIN t = 1 .. Len(t) /\ DOMAIN (h \o t) = 1 .. Len(h \o t)
  BY <1>1, LenProperties
<1>4. Len(h) \in Nat /\ Len(t) \in Nat
  BY LenProperties
<1> QED BY <1>1, <1>2, <1>3, <1>4 DEF Own

LEMMA OwnSubSeq ==
    ASSUME NEW ch, NEW h \in Seq(Message), Own(h, ch),
           NEW m \in Nat, NEW n \in Nat, n <= Len(h)
    PROVE  Own(SubSeq(h, m + 1, n), ch)
<1> DEFINE s == SubSeq(h, m + 1, n)
<1>1. \A i \in m + 1 .. n : h[i] \in Message /\ h[i].chat = ch
  BY ElementOfSeq, LenProperties DEF Own
<1>2. /\ Len(s) = IF m + 1 <= n THEN n - (m + 1) + 1 ELSE 0
      /\ \A i \in 1 .. n - (m + 1) + 1 : s[i] = h[(m + 1) + i - 1]
      /\ s \in Seq(Message)
  BY <1>1, SubSeqProperties
<1>3. DOMAIN s = 1 .. Len(s)
  BY <1>2, LenProperties
<1> QED BY <1>1, <1>2, <1>3 DEF Own

\* What the request of c knows belongs to its chat; from LoadHistory on, so
\* does the agent's history.
OwnRequest(c) ==
    LET chat == frame[c].chat IN
    pc[c] \notin {"idle", "reset"} =>
        /\ Own(frame[c].sess, chat)
        /\ Own(frame[c].snap, chat)
        /\ pc[c] # "load" => Own(history, chat)

OneClientInv == TypeOK /\ SessionIsolation /\ \A c \in Clients : OwnRequest(c)

LEMMA OneClientStep ==
    ASSUME NEW c, Clients = {c}
    PROVE  OneClientInv /\ [Next]_vars => OneClientInv'
<1> SUFFICES ASSUME TypeOK, SessionIsolation, OwnRequest(c), TypeOK', [Next]_vars
             PROVE  SessionIsolation' /\ OwnRequest(c)'
  BY TypedStep, CallOpenStep DEF OneClientInv, TypeOK
<1> DEFINE chat == frame[c].chat
<1>0. /\ Typed /\ c \in Clients
      /\ frame[c] \in Frame /\ chat \in Chats
      /\ frame[c].snap \in Seq(Message) /\ frame[c].sess \in Seq(Message)
      /\ history \in Seq(Message)
  BY FrameFields DEF TypeOK, Typed
<1> USE <1>0 DEF OwnRequest, Goto, Set, Return, agentVars, lockVars, Typed
\* A step that stores nothing and keeps the request's own data.
<1>1. ASSUME store' = store, frame'[c].chat = chat,
             pc[c] \notin {"idle", "reset", "load"},
             frame'[c].sess = frame[c].sess,
             Own(frame'[c].snap, chat), Own(history', chat)
      PROVE  SessionIsolation' /\ OwnRequest(c)'
  BY <1>1 DEF SessionIsolation
<1>2. ASSUME store' = store, pc'[c] = "idle"
      PROVE  SessionIsolation' /\ OwnRequest(c)'
  BY <1>2 DEF SessionIsolation
<1>3. CASE Receive(c) \/ ReceiveReset(c)
  <2>1. CASE ReceiveReset(c)
    BY <2>1 DEF ReceiveReset, SessionIsolation
  <2>2. CASE Receive(c)
    <3>1. PICK op \in Modes, ch \in Chats, input \in InputChoices :
              Set(c, NewFrame(op, ch, input, store[ch]))
      BY <2>2 DEF Receive
    <3>2. frame'[c] = NewFrame(op, ch, input, store[ch])
      BY <3>1
    <3>3. Own(frame'[c].sess, ch) /\ Own(frame'[c].snap, ch) /\ frame'[c].chat = ch
      BY <3>2, OwnEmpty DEF NewFrame, SessionIsolation
    <3> QED BY <2>2, <3>3 DEF Receive, SessionIsolation
  <2> QED BY <1>3, <2>1, <2>2
<1>4. CASE Start(c)
  <2>1. CASE LoadHistory(c)
    BY <2>1 DEF LoadHistory, SessionIsolation
  <2>2. CASE Reset(c)
    BY <1>2, <2>2 DEF Reset
  <2>3. ASSUME NEW next, NEW added \in Seq(Message), Own(added, chat),
               Begin(c, next, added)
        PROVE  SessionIsolation' /\ OwnRequest(c)'
    <3>1. Own(history \o added, chat)
      BY <2>3, OwnConcat DEF Begin
    <3> QED BY <1>1, <2>3, <3>1 DEF Begin
  <2>4. /\ User(c) \in Message /\ Context(c) \in Message
        /\ User(c).chat = chat /\ Context(c).chat = chat
    BY SayType, EmptySeq DEF User, Context, Say, Said, Kinds
  <2>5. /\ <<User(c)>> \in Seq(Message) /\ Own(<<User(c)>>, chat)
        /\ <<User(c), Context(c)>> \in Seq(Message) /\ Own(<<User(c), Context(c)>>, chat)
        /\ << >> \in Seq(Message) /\ Own(<< >>, chat)
    BY <2>4, EmptySeq DEF Own
  <2>6. CASE BeginSlash(c) \/ BeginUnknownSlash(c) \/ BeginBootstrap(c) \/ BeginPlain(c)
    BY <2>3, <2>5, <2>6 DEF BeginSlash, BeginUnknownSlash, BeginBootstrap, BeginPlain
  <2> QED BY <1>4, <2>1, <2>2, <2>6 DEF Start
<1>5. CASE Bootstrap(c)
  <2>1. Context(c) \in Message /\ Context(c).chat = chat
    BY SayType, EmptySeq DEF Context, Say, Said, Kinds
  <2>2. CASE Route(c)
    BY <1>1, <2>2 DEF Route
  <2>3. CASE AppendBootstrap(c)
    <3>1. Own(Append(frame[c].snap, Context(c)), chat)
      BY <2>1, <2>3, OwnAppend DEF AppendBootstrap
    <3> QED BY <1>1, <2>3, <3>1, OwnEmpty DEF AppendBootstrap
  <2> QED BY <1>5, <2>2, <2>3 DEF Bootstrap
<1>6. CASE Condense(c)
  <2>1. CASE SkipSummary(c) \/ NeedSummary(c) \/ HoldReadLock(c) \/ NothingToSummarize(c)
    BY <1>1, <2>1 DEF SkipSummary, NeedSummary, HoldReadLock, NothingToSummarize
  <2>2. CASE SummarizeOldest(c)
    <3>1. Own(SubSeq(history, summarized + 1, SummaryEnd(history)), chat)
      BY <2>2, SummaryEndType, OwnSubSeq DEF SummarizeOldest
    <3> QED BY <1>1, <2>2, <3>1 DEF SummarizeOldest
  <2>3. CASE UpdateSummary(c) \/ SummaryFails(c)
    <3>1. /\ EndSummary(c) /\ store' = store /\ history' = history
      BY <2>3 DEF UpdateSummary, SummaryFails, EndSummary
    <3>2. frame'[c] = [frame[c] EXCEPT !.range = 0, !.snap = << >>]
      BY <3>1 DEF EndSummary
    <3>3. /\ frame'[c].chat = chat /\ frame'[c].sess = frame[c].sess
          /\ frame'[c].snap = << >>
      BY <3>2 DEF Frame
    <3>4. Own(frame'[c].snap, chat)
      BY <3>3, OwnEmpty
    <3>5. pc[c] = "condense"
      BY <3>1 DEF EndSummary
    <3> QED BY <1>1, <3>1, <3>3, <3>4, <3>5
  <2> QED BY <1>6, <2>1, <2>2, <2>3 DEF Condense
<1>7. ASSUME NEW kind \in Kinds, NEW calls \in Seq(Tools), pc[c] \notin {"idle", "reset", "load"},
             history' = Append(history, Said(kind, chat, calls))
      PROVE  Own(history', chat)
  <2>1. Said(kind, chat, calls) \in Message /\ Said(kind, chat, calls).chat = chat
    BY SaidType DEF Said
  <2> QED BY <1>7, <2>1, OwnAppend
<1>8. CASE Answer(c)
  <2>1. CASE Build(c) \/ ValidateOK(c) \/ ValidateRejects(c)
    <3>1. CASE Build(c)
      BY <1>1, <3>1 DEF Build
    <3>2. CASE ValidateOK(c)
      BY <1>1, <3>2 DEF ValidateOK
    <3>3. CASE ValidateRejects(c)
      BY <1>1, <3>3 DEF ValidateRejects
    <3> QED BY <2>1, <3>1, <3>2, <3>3
  <2>2. CASE Generate(c)
    BY <1>1, <2>2 DEF Generate
  <2>3. CASE GenerateFails(c) \/ GiveUp(c) \/ Reject(c)
    BY <1>2, <2>3 DEF GenerateFails, GiveUp, Reject, Add
  <2>4. CASE AppendReply(c)
    <3>1. frame[c].reply.calls \in Seq(Tools)
      BY FrameFields
    <3>2. Own(history', chat)
      BY <1>7, <2>4, <3>1 DEF AppendReply, Add, Say, Kinds
    <3> QED BY <1>1, <2>4, <3>2 DEF AppendReply, Add
  <2> QED BY <1>8, <2>1, <2>2, <2>3, <2>4 DEF Answer
<1>9. CASE RunTools(c)
  <2>1. CASE CallHandoff(c) \/ CallTool(c) \/ ToolsDone(c)
    BY <1>1, <2>1 DEF CallHandoff, CallTool, ToolsDone
  <2>2. CASE AppendFunctionResponse(c)
    <3>1. <<Head(frame[c].todo)>> \in Seq(Tools)
      BY <2>2, FrameFields, HeadTailProperties DEF AppendFunctionResponse, CallOpen, TypeOK
    <3>2. Own(history', chat)
      BY <1>7, <2>2, <3>1 DEF AppendFunctionResponse, Add, ToolResponse, Kinds
    <3> QED BY <1>1, <2>2, <3>2 DEF AppendFunctionResponse, Add
  <2>3. CASE AppendWarning(c)
    <3>1. frame[c].reply.calls \in Seq(Tools)
      BY FrameFields
    <3>2. Own(history', chat)
      BY <1>7, <2>3, <3>1 DEF AppendWarning, Add, Say, Kinds
    <3> QED BY <1>1, <2>3, <3>2 DEF AppendWarning, Add
  <2> QED BY <1>9, <2>1, <2>2, <2>3 DEF RunTools
<1>10. CASE Finish(c)
  <2>1. CASE TakeHandoff(c)
    <3>1. Own(history', chat)
      BY <1>7, <2>1, EmptySeq DEF TakeHandoff, NextIteration, Add, Context, Say, Kinds
    <3> QED BY <1>1, <2>1, <3>1 DEF TakeHandoff, NextIteration, Add
  <2>2. CASE ContinueAfterTools(c) \/ FinalReply(c)
    <3>1. CASE ContinueAfterTools(c)
      BY <1>1, <3>1 DEF ContinueAfterTools, NextIteration
    <3>2. CASE FinalReply(c)
      BY <1>1, <3>2 DEF FinalReply
    <3> QED BY <2>2, <3>1, <3>2
  <2>3. CASE GetHistory(c)
    BY <1>1, <2>3 DEF GetHistory
  <2>4. CASE SaveSession(c)
    BY <2>4 DEF SaveSession, SessionIsolation
  <2> QED BY <1>10, <2>1, <2>2, <2>3, <2>4 DEF Finish
<1>11. ASSUME NEW d \in Chats, DeleteSession(d) PROVE SessionIsolation' /\ OwnRequest(c)'
  BY <1>11, OwnEmpty DEF DeleteSession, SessionIsolation
<1>12. CASE UNCHANGED <<store, history, pc, frame>>
  BY <1>12 DEF SessionIsolation
<1> QED
  BY <1>3, <1>4, <1>5, <1>6, <1>8, <1>9, <1>10, <1>11, <1>12
     DEF Next, Step, Announce, RefreshPrompt, Done, vars

\* When requests come one at a time, no chat ever holds a message of another,
\* whatever is deleted or reset meanwhile.
THEOREM OneClientIsolation ==
    ASSUME NEW c, Clients = {c}
    PROVE  Spec => []SessionIsolation
<1>1. Init => OneClientInv
  BY InitType, OwnEmpty DEF Init, OneClientInv, SessionIsolation, OwnRequest
<1>2. OneClientInv /\ [Next]_vars => OneClientInv'
  BY OneClientStep
<1>3. OneClientInv => SessionIsolation
  BY DEF OneClientInv
<1> QED BY <1>1, <1>2, <1>3, PTL DEF Spec

(***************************************************************************)
(* One client: one reply is streamed.                                      *)
(***************************************************************************)
\* What the request of c still owes: unanswered calls are those of the current
\* reply, and only while they are being validated and run; a handoff plan is
\* set by such a reply; nothing is sent before the final reply, which is sent if
\* it has a text.
Owed(c) ==
    /\ frame[c].todo # << >> =>
           /\ frame[c].reply.calls # << >>
           /\ \/ pc[c] \in {"tools", "respond"}
              \/ pc[c] \in {"validate", "reject"} /\ Streaming(c)
    /\ handoff => pc[c] \in AtTools /\ frame[c].reply.calls # << >>
    /\ frame[c].sent = IF Streaming(c) /\ pc[c] \in {"fetch", "save"} /\ frame[c].reply.text
                       THEN 1 ELSE 0

\* The check of required tools: from its first section on the request finds its
\* own input in userInput, and a reply without calls that has passed the check
\* goes with a history that has used the tools the input requires.
Passed(c) ==
    \/ pc[c] \in AtTools /\ frame[c].reply.calls = << >>
    \/ pc[c] = "append" /\ ~Streaming(c) /\ frame[c].reply.calls = << >>
    \/ pc[c] = "fetch"

Vetted(c) ==
    /\ pc[c] \notin {"idle", "reset", "load", "begin"} => userInput = frame[c].input
    /\ Passed(c) => RequiredToolsUsed(frame[c].input, << >>, history)
    /\ pc[c] = "save" => RequiredToolsUsed(frame[c].input, << >>, frame[c].snap)

\* Every tool call of h is followed by its response, or by its place in todo
\* where the responses still to come will follow h.
AnsweredUpTo(h, todo) ==
    \A i \in DOMAIN h : h[i].kind = "assistant" =>
        \A j \in DOMAIN h[i].calls :
            \/ /\ i + j \in DOMAIN h
               /\ h[i + j].kind = "tool"
               /\ h[i + j].calls = <<h[i].calls[j]>>
            \/ /\ i + j > Len(h)
               /\ (i + j) - Len(h) \in DOMAIN todo
               /\ todo[(i + j) - Len(h)] = h[i].calls[j]

\* Every copy with a warning and every response of h has its reply.
Paired(h) ==
    \A i \in DOMAIN h :
        /\ h[i].kind = "warned" => RepeatsReply(h, i)
        /\ h[i].kind = "tool" => AnswersReply(h, i)

CallsKept(c) ==
    pc[c] \notin {"idle", "reset"} =>
        /\ AnsweredUpTo(frame[c].sess, << >>) /\ Paired(frame[c].sess)
        /\ pc[c] # "load" => AnsweredUpTo(history, frame[c].todo) /\ Paired(history)
        /\ pc[c] \in {"boot", "save"} =>
              AnsweredUpTo(frame[c].snap, << >>) /\ Paired(frame[c].snap)

\* From its append to the warning, the reply in hand is where the calls it has
\* left put it: that many messages before the end of the history.
PlacedAt(h, calls, todo) ==
    /\ Len(todo) <= Len(calls)
    /\ Len(h) - (Len(calls) - Len(todo)) \in DOMAIN h
    /\ h[Len(h) - (Len(calls) - Len(todo))].kind = "assistant"
    /\ h[Len(h) - (Len(calls) - Len(todo))].calls = calls

InHand(c) ==
    \/ pc[c] \in {"tools", "respond", "warn"}
    \/ pc[c] = "validate" /\ Streaming(c)

Placed(c) == InHand(c) => PlacedAt(history, frame[c].reply.calls, frame[c].todo)

LEMMA OwedStep ==
    ASSUME NEW c, Clients = {c}, TypeOK, Owed(c), [Next]_vars
    PROVE  Owed(c)'
<1>0. /\ Typed /\ c \in Clients
      /\ frame[c] \in Frame
      /\ frame[c].todo \in Seq(Tools) /\ frame[c].sent \in Nat
      /\ frame[c].reply.calls \in Seq(Tools)
  BY FrameFields DEF TypeOK
<1> USE <1>0 DEF Goto, Set, Return, Typed, agentVars, lockVars, AtTools
\* A request that starts or ends owes nothing.
<1>1. ASSUME NEW op, NEW ch, NEW input, NEW sess,
             frame'[c] = NewFrame(op, ch, input, sess),
             ~handoff', pc'[c] \in {"idle", "load"}
      PROVE  Owed(c)'
  BY <1>1 DEF Owed, NewFrame, Streaming
<1>2. ASSUME frame' = [frame EXCEPT ![c] = NoFrame], ~handoff', pc'[c] = "idle"
      PROVE  Owed(c)'
  <2>1. frame'[c] = NewFrame("chat", CHOOSE ch \in Chats : TRUE, NoInput, << >>)
    BY <1>2 DEF NoFrame
  <2> QED BY <1>1, <1>2, <2>1
\* A step outside the tool calls that keeps what is owed.
<1>3. ASSUME frame'[c].op = frame[c].op, frame'[c].todo = frame[c].todo,
             frame'[c].sent = frame[c].sent,
             frame[c].todo = << >>, ~handoff',
             \/ pc[c] \notin {"fetch", "save"} /\ pc'[c] \notin {"fetch", "save"}
             \/ pc[c] = "fetch" /\ pc'[c] = "save" /\ frame'[c].reply = frame[c].reply
      PROVE  Owed(c)'
  BY <1>3 DEF Owed, Streaming
<1>4. CASE Receive(c) \/ ReceiveReset(c)
  <2>1. CASE ReceiveReset(c)
    BY <1>3, <2>1 DEF ReceiveReset, Owed
  <2>2. CASE Receive(c)
    <3>1. PICK op \in Modes, ch \in Chats, input \in InputChoices :
              Set(c, NewFrame(op, ch, input, store[ch]))
      BY <2>2 DEF Receive
    <3>2. frame'[c] = NewFrame(op, ch, input, store[ch])
      BY <3>1
    <3>3. ~handoff' /\ pc'[c] = "load"
      BY <2>2 DEF Receive, Owed
    <3> QED BY <1>1, <3>2, <3>3
  <2> QED BY <1>4, <2>1, <2>2
<1>5. CASE Start(c)
  <2>1. frame' = frame /\ pc[c] \in {"load", "begin", "reset"}
        /\ pc'[c] \in {"begin", "idle", "route", "loop"} /\ (handoff' => handoff)
    BY <1>5 DEF Start, LoadHistory, Reset, BeginSlash, BeginUnknownSlash,
                BeginBootstrap, BeginPlain, Begin
  <2>2. frame[c].todo = << >> /\ ~handoff'
    BY <2>1 DEF Owed
  <2>3. pc[c] \notin {"fetch", "save"} /\ pc'[c] \notin {"fetch", "save"}
    BY <2>1
  <2>4. frame'[c] = frame[c]
    BY <2>1
  <2> QED BY <1>3, <2>2, <2>3, <2>4
<1>6. CASE Bootstrap(c)
  <2>1. CASE Route(c)
    BY <1>3, <2>1 DEF Route, Owed
  <2>2. CASE AppendBootstrap(c)
    BY <1>3, <2>2 DEF AppendBootstrap, Owed
  <2> QED BY <1>6, <2>1, <2>2 DEF Bootstrap
<1>7. CASE Condense(c)
  <2>1. CASE SkipSummary(c) \/ NeedSummary(c) \/ HoldReadLock(c) \/ NothingToSummarize(c)
    BY <1>3, <2>1 DEF SkipSummary, NeedSummary, HoldReadLock, NothingToSummarize, Owed
  <2>2. CASE SummarizeOldest(c)
    BY <1>3, <2>2 DEF SummarizeOldest, Owed
  <2>3. CASE UpdateSummary(c) \/ SummaryFails(c)
    <3>1. EndSummary(c)
      BY <2>3 DEF UpdateSummary, SummaryFails
    <3>2. frame'[c] = [frame[c] EXCEPT !.range = 0, !.snap = << >>]
      BY <3>1 DEF EndSummary
    <3>3. /\ frame'[c].op = frame[c].op /\ frame'[c].todo = frame[c].todo
          /\ frame'[c].sent = frame[c].sent
      BY <3>2 DEF Frame
    <3> QED BY <1>3, <3>1, <3>3 DEF EndSummary, Owed
  <2> QED BY <1>7, <2>1, <2>2, <2>3 DEF Condense
<1>8. CASE Answer(c)
  <2>1. CASE Build(c)
    BY <1>3, <2>1 DEF Build, Owed
  <2>2. CASE Generate(c)
    <3>1. PICK reply \in Replies :
              Set(c, [frame[c] EXCEPT !.reply = reply, !.view = EmptyView])
      BY <2>2, Zenon DEF Generate
    <3>2. frame'[c] = [frame[c] EXCEPT !.reply = reply, !.view = EmptyView]
      BY <3>1
    <3>3. /\ frame'[c].op = frame[c].op /\ frame'[c].todo = frame[c].todo
          /\ frame'[c].sent = frame[c].sent
      BY <3>2 DEF Frame
    <3> QED BY <1>3, <2>2, <3>3 DEF Generate, Owed
  <2>3. CASE GenerateFails(c) \/ GiveUp(c) \/ Reject(c)
    BY <1>2, <2>3 DEF GenerateFails, GiveUp, Reject, Add, Owed
  <2>4. CASE ValidateOK(c) \/ ValidateRejects(c)
    BY <2>4 DEF ValidateOK, ValidateRejects, Owed, Streaming
  <2>5. CASE AppendReply(c)
    <3>1. frame'[c] = [frame[c] EXCEPT !.todo = frame[c].reply.calls]
      BY <2>5 DEF AppendReply
    <3>2. /\ frame'[c].op = frame[c].op /\ frame'[c].todo = frame[c].reply.calls
          /\ frame'[c].sent = frame[c].sent /\ frame'[c].reply = frame[c].reply
      BY <3>1 DEF Frame
    <3>3. ~handoff' /\ pc'[c] = IF Streaming(c) THEN "validate" ELSE "tools"
      BY <2>5 DEF AppendReply, Owed
    <3> QED BY <2>5, <3>2, <3>3 DEF AppendReply, Owed, Streaming
  <2> QED BY <1>8, <2>1, <2>2, <2>3, <2>4, <2>5 DEF Answer
<1>9. CASE RunTools(c)
  <2>1. CASE CallHandoff(c) \/ CallTool(c) \/ ToolsDone(c)
    BY <2>1 DEF CallHandoff, CallTool, ToolsDone, Owed, Streaming
  <2>2. CASE AppendFunctionResponse(c)
    <3>1. frame'[c] = [frame[c] EXCEPT !.todo = Tail(frame[c].todo)]
      BY <2>2 DEF AppendFunctionResponse
    <3>2. /\ frame'[c].op = frame[c].op
          /\ frame'[c].sent = frame[c].sent /\ frame'[c].reply = frame[c].reply
      BY <3>1 DEF Frame
    <3>3. frame[c].reply.calls # << >>
      BY <2>2 DEF AppendFunctionResponse, CallOpen, TypeOK, Owed
    <3> QED BY <2>2, <3>2, <3>3 DEF AppendFunctionResponse, Owed, Streaming
  <2>3. CASE AppendWarning(c)
    BY <2>3 DEF AppendWarning, Add, Owed, Streaming
  <2> QED BY <1>9, <2>1, <2>2, <2>3 DEF RunTools
<1>10. CASE Finish(c)
  \* The next iteration starts with nothing sent: only a reply with calls gets here.
  <2>1. CASE TakeHandoff(c) \/ ContinueAfterTools(c)
    <3>1. NextIteration(c) /\ ~handoff' /\ frame[c].reply.calls # << >>
      BY <2>1 DEF TakeHandoff, ContinueAfterTools, Owed
    <3>2. Emitted(c) = frame[c].sent
      BY <3>1 DEF Emitted
    <3>3. frame'[c] = [frame[c] EXCEPT !.iter = frame[c].iter + 1, !.reply = NoReply,
                                       !.sent = frame[c].sent]
      BY <3>1, <3>2 DEF NextIteration
    <3>4. /\ frame'[c].op = frame[c].op /\ frame'[c].todo = frame[c].todo
          /\ frame'[c].sent = frame[c].sent
      BY <3>3 DEF Frame
    <3> QED BY <1>3, <3>1, <3>4 DEF NextIteration, Owed
  <2>2. CASE FinalReply(c)
    <3>1. frame'[c] = [frame[c] EXCEPT !.sent = Emitted(c)]
      BY <2>2 DEF FinalReply
    <3>2. /\ frame'[c].op = frame[c].op /\ frame'[c].todo = frame[c].todo
          /\ frame'[c].sent = Emitted(c) /\ frame'[c].reply = frame[c].reply
      BY <3>1 DEF Frame
    <3>3. frame[c].sent = 0 /\ frame[c].todo = << >> /\ ~handoff'
      BY <2>2 DEF FinalReply, Owed
    <3>4. Emitted(c) = IF Streaming(c) /\ frame[c].reply.text THEN 1 ELSE 0
      BY <2>2, <3>3 DEF FinalReply, Emitted
    <3> QED BY <2>2, <3>2, <3>3, <3>4 DEF FinalReply, Owed, Streaming
  <2>3. CASE GetHistory(c)
    <3>1. frame'[c] = [frame[c] EXCEPT !.snap = history]
      BY <2>3 DEF GetHistory
    <3>2. /\ frame'[c].op = frame[c].op /\ frame'[c].todo = frame[c].todo
          /\ frame'[c].sent = frame[c].sent /\ frame'[c].reply = frame[c].reply
      BY <3>1 DEF Frame
    <3> QED BY <1>3, <2>3, <3>2 DEF GetHistory, Owed
  <2>4. CASE SaveSession(c)
    BY <1>2, <2>4 DEF SaveSession, Owed
  <2> QED BY <1>10, <2>1, <2>2, <2>3, <2>4 DEF Finish
<1>11. CASE UNCHANGED <<handoff, pc, frame>>
  BY <1>11 DEF Owed, Streaming
<1> QED
  BY <1>4, <1>5, <1>6, <1>7, <1>8, <1>9, <1>10, <1>11
     DEF Next, Step, Announce, RefreshPrompt, DeleteSession, Done, vars

\* When requests come one at a time, a streaming request sends its final reply
\* once if it has a text, and nothing else, whatever tools, handoffs and warnings
\* its iterations go through.
THEOREM OneClientOneReply ==
    ASSUME NEW c, Clients = {c}
    PROVE  Spec => []OneReplyStreamed
<1>1. Init => Owed(c)
  BY DEF Init, Owed, NoFrame, NewFrame, Streaming
<1>2. TypeOK /\ Owed(c) /\ [Next]_vars => Owed(c)'
  BY OwedStep
<1>3. Owed(c) => OneReplyStreamed
  BY DEF Owed, OneReplyStreamed, Streaming
<1> QED BY <1>1, <1>2, <1>3, TypeCorrect, PTL DEF Spec

(***************************************************************************)
(* One client: a saved chat has used the tools its last input requires.    *)
(***************************************************************************)
LEMMA CalledInAppend ==
    ASSUME NEW h \in Seq(Message), NEW m \in Message
    PROVE  CalledIn(h) \subseteq CalledIn(Append(h, m))
<1>1. /\ Append(h, m) \in Seq(Message) /\ Len(Append(h, m)) = Len(h) + 1
      /\ \A i \in 1 .. Len(h) : Append(h, m)[i] = h[i]
  BY AppendProperties
<1>2. DOMAIN h = 1 .. Len(h) /\ DOMAIN Append(h, m) = 1 .. Len(h) + 1 /\ Len(h) \in Nat
  BY <1>1, LenProperties
<1>3. \A i \in DOMAIN h : i \in DOMAIN Append(h, m) /\ Append(h, m)[i] = h[i]
  BY <1>1, <1>2
<1>4. ASSUME NEW tool \in CalledIn(h) PROVE tool \in CalledIn(Append(h, m))
  <2>1. PICK i \in DOMAIN h : /\ h[i].kind \in {"assistant", "warned"}
                              /\ \E j \in DOMAIN h[i].calls : tool = h[i].calls[j]
    BY <1>4 DEF CalledIn
  <2>2. /\ i \in DOMAIN Append(h, m)
        /\ Append(h, m)[i].kind \in {"assistant", "warned"}
        /\ \E j \in DOMAIN Append(h, m)[i].calls : tool = Append(h, m)[i].calls[j]
    BY <1>3, <2>1
  <2> QED BY <2>2 DEF CalledIn
<1> QED BY <1>4

LEMMA RequiredAppend ==
    ASSUME NEW h \in Seq(Message), NEW m \in Message, NEW input,
           RequiredToolsUsed(input, << >>, h)
    PROVE  RequiredToolsUsed(input, << >>, Append(h, m))
BY CalledInAppend DEF RequiredToolsUsed

LEMMA VettedStep ==
    ASSUME NEW c, Clients = {c}, TypeOK, Vetted(c), [Next]_vars
    PROVE  Vetted(c)'
<1>0. /\ Typed /\ c \in Clients
      /\ frame[c] \in Frame
      /\ frame[c].todo \in Seq(Tools)
      /\ frame[c].reply.calls \in Seq(Tools)
      /\ history \in Seq(Message)
  BY FrameFields DEF TypeOK, Typed
<1> USE <1>0 DEF Goto, Set, Return, Typed, agentVars, lockVars, AtTools
\* No turn has passed the check yet.
<1>1. ASSUME pc'[c] \in {"idle", "reset", "load", "begin"} PROVE Vetted(c)'
  BY <1>1 DEF Vetted, Passed
<1>2. ASSUME userInput' = userInput, frame'[c].input = frame[c].input,
             pc[c] \notin {"idle", "reset", "load", "begin"},
             pc'[c] \notin AtTools \cup {"append", "fetch", "save"}
      PROVE  Vetted(c)'
  BY <1>2 DEF Vetted, Passed
\* The check was passed and the history only grows.
<1>3. ASSUME userInput' = userInput,
             frame'[c].input = frame[c].input, frame'[c].op = frame[c].op,
             frame'[c].reply = frame[c].reply,
             pc[c] \notin {"idle", "reset", "load", "begin"}, pc'[c] # "save",
             Passed(c)' => Passed(c),
             history' = history \/ \E m \in Message : history' = Append(history, m)
      PROVE  Vetted(c)'
  <2>1. ASSUME Passed(c)' PROVE RequiredToolsUsed(frame[c].input, << >>, history')
    <3>1. RequiredToolsUsed(frame[c].input, << >>, history)
      BY <1>3, <2>1 DEF Vetted
    <3> QED BY <1>3, <3>1, RequiredAppend
  <2> QED BY <1>3, <2>1 DEF Vetted
<1>4. CASE Receive(c) \/ ReceiveReset(c)
  BY <1>1, <1>4 DEF Receive, ReceiveReset
<1>5. CASE Start(c)
  <2>1. CASE LoadHistory(c) \/ Reset(c)
    BY <1>1, <2>1 DEF LoadHistory, Reset
  <2>2. ASSUME NEW next \in {"loop", "route"}, NEW added, Begin(c, next, added)
        PROVE  Vetted(c)'
    BY <2>2 DEF Begin, Vetted, Passed
  <2> QED
    BY <1>5, <2>1, <2>2 DEF Start, BeginSlash, BeginUnknownSlash, BeginBootstrap, BeginPlain
<1>6. CASE Bootstrap(c)
  <2>1. CASE Route(c)
    BY <1>2, <2>1 DEF Route
  <2>2. CASE AppendBootstrap(c)
    BY <1>2, <2>2 DEF AppendBootstrap
  <2> QED BY <1>6, <2>1, <2>2 DEF Bootstrap
<1>7. CASE Condense(c)
  <2>1. CASE SkipSummary(c) \/ NeedSummary(c) \/ HoldReadLock(c) \/ NothingToSummarize(c)
    BY <1>2, <2>1 DEF SkipSummary, NeedSummary, HoldReadLock, NothingToSummarize
  <2>2. CASE SummarizeOldest(c)
    BY <1>2, <2>2 DEF SummarizeOldest
  <2>3. CASE UpdateSummary(c) \/ SummaryFails(c)
    <3>1. EndSummary(c) /\ userInput' = userInput
      BY <2>3 DEF UpdateSummary, SummaryFails, EndSummary
    <3>2. frame'[c] = [frame[c] EXCEPT !.range = 0, !.snap = << >>]
      BY <3>1 DEF EndSummary
    <3>3. frame'[c].input = frame[c].input
      BY <3>2 DEF Frame
    <3> QED BY <1>2, <3>1, <3>3 DEF EndSummary
  <2> QED BY <1>7, <2>1, <2>2, <2>3 DEF Condense
<1>8. CASE Answer(c)
  <2>1. CASE Build(c)
    BY <1>2, <2>1 DEF Build
  <2>2. CASE Generate(c)
    <3>1. PICK reply \in Replies :
              Set(c, [frame[c] EXCEPT !.reply = reply, !.view = EmptyView])
      BY <2>2, Zenon DEF Generate
    <3>2. frame'[c] = [frame[c] EXCEPT !.reply = reply, !.view = EmptyView]
      BY <3>1
    <3>3. frame'[c].input = frame[c].input /\ frame'[c].op = frame[c].op
      BY <3>2 DEF Frame
    <3>4. pc[c] = "generate" /\ pc'[c] = (IF Streaming(c) THEN "append" ELSE "validate")
          /\ userInput' = userInput
      BY <2>2 DEF Generate
    <3>5. ~Passed(c)'
      BY <3>3, <3>4 DEF Passed, Streaming
    <3> QED BY <3>3, <3>4, <3>5 DEF Vetted
  <2>3. CASE GenerateFails(c) \/ GiveUp(c) \/ Reject(c)
    BY <1>1, <2>3 DEF GenerateFails, GiveUp, Reject, Add
  \* The check reads the request's own input.
  <2>4. CASE ValidateOK(c)
    <3>1. userInput = frame[c].input /\ pc[c] = "validate"
      BY <2>4 DEF ValidateOK, Vetted
    <3>2. frame[c].reply.calls = << >> => RequiredToolsUsed(frame[c].input, << >>, history)
      BY <2>4, <3>1 DEF ValidateOK, ToolsOK
    <3>3. /\ userInput' = userInput /\ history' = history /\ frame' = frame
          /\ pc'[c] \in {"tools", "append"}
      BY <2>4 DEF ValidateOK
    <3> QED BY <3>1, <3>2, <3>3 DEF Vetted, Passed
  <2>5. CASE ValidateRejects(c)
    BY <1>2, <2>5 DEF ValidateRejects
  <2>6. CASE AppendReply(c)
    <3>1. frame'[c] = [frame[c] EXCEPT !.todo = frame[c].reply.calls]
      BY <2>6 DEF AppendReply
    <3>2. /\ frame'[c].op = frame[c].op /\ frame'[c].input = frame[c].input
          /\ frame'[c].reply = frame[c].reply
      BY <3>1 DEF Frame
    <3>3. /\ pc[c] = "append" /\ userInput' = userInput
          /\ pc'[c] = IF Streaming(c) THEN "validate" ELSE "tools"
      BY <2>6 DEF AppendReply, Add
    <3>4. Passed(c)' => Passed(c)
      BY <3>2, <3>3 DEF Passed, Streaming
    <3>5. \E m \in Message : history' = Append(history, m)
      BY <2>6, SayType DEF AppendReply, Add, Kinds
    <3>6. pc'[c] # "save"
      BY <3>3
    <3> QED BY <1>3, <3>2, <3>3, <3>4, <3>5, <3>6
  <2> QED BY <1>8, <2>1, <2>2, <2>3, <2>4, <2>5, <2>6 DEF Answer
<1>9. CASE RunTools(c)
  <2>1. CASE CallHandoff(c) \/ CallTool(c) \/ ToolsDone(c)
    BY <1>3, <2>1 DEF CallHandoff, CallTool, ToolsDone, Passed
  <2>2. CASE AppendFunctionResponse(c)
    <3>1. frame'[c] = [frame[c] EXCEPT !.todo = Tail(frame[c].todo)]
      BY <2>2 DEF AppendFunctionResponse
    <3>2. /\ frame'[c].op = frame[c].op /\ frame'[c].input = frame[c].input
          /\ frame'[c].reply = frame[c].reply
      BY <3>1 DEF Frame
    <3>3. <<Head(frame[c].todo)>> \in Seq(Tools)
      BY <2>2, HeadTailProperties DEF AppendFunctionResponse, CallOpen, TypeOK
    <3>4. ToolResponse(frame[c].chat, Head(frame[c].todo)) \in Message
      BY <3>3, SaidType, FrameFields DEF ToolResponse, Kinds
    <3>5. \E m \in Message : history' = Append(history, m)
      BY <2>2, <3>4 DEF AppendFunctionResponse, Add
    <3> QED BY <1>3, <2>2, <3>2, <3>5 DEF AppendFunctionResponse, Add, Passed
  <2>3. CASE AppendWarning(c)
    <3>1. \E m \in Message : history' = Append(history, m)
      BY <2>3, SayType DEF AppendWarning, Add, Kinds
    <3> QED BY <1>3, <2>3, <3>1 DEF AppendWarning, Add, Passed
  <2> QED BY <1>9, <2>1, <2>2, <2>3 DEF RunTools
<1>10. CASE Finish(c)
  <2>1. CASE TakeHandoff(c) \/ ContinueAfterTools(c)
    <3>1. NextIteration(c) /\ userInput' = userInput
      BY <2>1 DEF TakeHandoff, ContinueAfterTools, Add
    <3>2. frame'[c] = [frame[c] EXCEPT !.iter = frame[c].iter + 1, !.reply = NoReply,
                                       !.sent = Emitted(c)]
      BY <3>1 DEF NextIteration
    <3>3. frame'[c].input = frame[c].input
      BY <3>2 DEF Frame
    <3> QED BY <1>2, <3>1, <3>3 DEF NextIteration
  <2>2. CASE FinalReply(c)
    <3>1. frame'[c] = [frame[c] EXCEPT !.sent = Emitted(c)]
      BY <2>2 DEF FinalReply
    <3>2. /\ frame'[c].op = frame[c].op /\ frame'[c].input = frame[c].input
          /\ frame'[c].reply = frame[c].reply
      BY <3>1 DEF Frame
    <3> QED BY <1>3, <2>2, <3>2 DEF FinalReply, Passed
  <2>3. CASE GetHistory(c)
    <3>1. frame'[c] = [frame[c] EXCEPT !.snap = history]
      BY <2>3 DEF GetHistory
    <3>2. frame'[c].input = frame[c].input /\ frame'[c].snap = history
      BY <3>1 DEF Frame
    <3>3. pc[c] = "fetch" /\ pc'[c] = "save" /\ userInput' = userInput
      BY <2>3 DEF GetHistory
    <3> QED BY <3>2, <3>3 DEF Vetted, Passed
  <2>4. CASE SaveSession(c)
    BY <1>1, <2>4 DEF SaveSession
  <2> QED BY <1>10, <2>1, <2>2, <2>3, <2>4 DEF Finish
<1>11. CASE UNCHANGED <<history, userInput, pc, frame>>
  BY <1>11 DEF Vetted, Passed, Streaming
<1> QED
  BY <1>4, <1>5, <1>6, <1>7, <1>8, <1>9, <1>10, <1>11
     DEF Next, Step, Announce, RefreshPrompt, DeleteSession, Done, vars

\* When requests come one at a time, no chat is saved that has not used, in the
\* turn that ends or before, the tools which that turn's own input requires, for
\* every input, reply and number of iterations.
THEOREM OneClientToolsUsed ==
    ASSUME NEW c, Clients = {c}
    PROVE  Spec => []RequiredToolsInSavedChat
<1>1. Init => Vetted(c)
  BY DEF Init, Vetted, Passed, AtTools
<1>2. TypeOK /\ Vetted(c) /\ [Next]_vars => Vetted(c)'
  BY VettedStep
<1>3. Vetted(c) => RequiredToolsInSavedChat
  BY DEF Vetted, RequiredToolsInSavedChat
<1> QED BY <1>1, <1>2, <1>3, TypeCorrect, PTL DEF Spec

(***************************************************************************)
(* One client: every stored tool call is answered.                         *)
(***************************************************************************)
LEMMA AnsweredEmpty == ASSUME NEW todo PROVE AnsweredUpTo(<< >>, todo)
BY DEF AnsweredUpTo

LEMMA ConcatAppend ==
    ASSUME NEW h \in Seq(Message), NEW m \in Message, NEW n \in Message
    PROVE  h \o Append(<<m>>, n) = Append(Append(h, m), n)
<1>1. <<m>> \in Seq(Message) /\ <<n>> \in Seq(Message)
  OBVIOUS
<1>2. Append(<<m>>, n) = <<m>> \o <<n>> /\ Append(h, m) = h \o <<m>>
  BY <1>1, AppendIsConcat
<1>3. Append(h, m) \in Seq(Message)
  BY AppendType
<1>4. Append(Append(h, m), n) = Append(h, m) \o <<n>>
  BY <1>3, AppendIsConcat
<1> QED BY <1>1, <1>2, <1>4, ConcatAssociative

\* A message that is not a reply, where no answer is awaited.
LEMMA AnsweredOther ==
    ASSUME NEW h \in Seq(Message), AnsweredUpTo(h, << >>),
           NEW m \in Message, m.kind # "assistant"
    PROVE  AnsweredUpTo(Append(h, m), << >>)
<1> DEFINE g == Append(h, m)
<1>1. /\ g \in Seq(Message) /\ Len(g) = Len(h) + 1
      /\ \A i \in 1 .. Len(h) : g[i] = h[i]
      /\ g[Len(h) + 1] = m
  BY AppendProperties
<1>2. DOMAIN h = 1 .. Len(h) /\ DOMAIN g = 1 .. Len(g) /\ Len(h) \in Nat
  BY <1>1, LenProperties
<1> HIDE DEF g
<1>3. ASSUME NEW i \in DOMAIN g, g[i].kind = "assistant", NEW j \in DOMAIN g[i].calls
      PROVE  /\ i + j \in DOMAIN g
             /\ g[i + j].kind = "tool"
             /\ g[i + j].calls = <<g[i].calls[j]>>
  <2>1. i \in DOMAIN h /\ g[i] = h[i]
    BY <1>1, <1>2, <1>3
  <2>2. /\ i + j \in DOMAIN h
        /\ h[i + j].kind = "tool"
        /\ h[i + j].calls = <<h[i].calls[j]>>
    BY <1>3, <2>1, EmptySeq DEF AnsweredUpTo
  <2> QED BY <1>1, <1>2, <2>1, <2>2
<1>4. AnsweredUpTo(g, << >>)
  BY <1>3 DEF AnsweredUpTo
<1> QED BY <1>4 DEF g

\* A reply leaves all its calls to answer.
LEMMA AnsweredReply ==
    ASSUME NEW h \in Seq(Message), AnsweredUpTo(h, << >>), NEW m \in Message
    PROVE  AnsweredUpTo(Append(h, m), m.calls)
<1> DEFINE g == Append(h, m)
<1>1. /\ g \in Seq(Message) /\ Len(g) = Len(h) + 1
      /\ \A i \in 1 .. Len(h) : g[i] = h[i]
      /\ g[Len(h) + 1] = m
  BY AppendProperties
<1>2. DOMAIN h = 1 .. Len(h) /\ DOMAIN g = 1 .. Len(g) /\ Len(h) \in Nat
  BY <1>1, LenProperties
<1>3. m.calls \in Seq(Tools)
  BY DEF Message
<1>4. DOMAIN m.calls = 1 .. Len(m.calls) /\ Len(m.calls) \in Nat
  BY <1>3, LenProperties
<1> HIDE DEF g
<1>5. ASSUME NEW i \in DOMAIN g, g[i].kind = "assistant", NEW j \in DOMAIN g[i].calls
      PROVE  \/ /\ i + j \in DOMAIN g
                /\ g[i + j].kind = "tool"
                /\ g[i + j].calls = <<g[i].calls[j]>>
             \/ /\ i + j > Len(g)
                /\ (i + j) - Len(g) \in DOMAIN m.calls
                /\ m.calls[(i + j) - Len(g)] = g[i].calls[j]
  <2>1. CASE i = Len(g)
    BY <1>1, <1>2, <1>4, <1>5, <2>1
  <2>2. CASE i # Len(g)
    <3>1. i \in DOMAIN h /\ g[i] = h[i]
      BY <1>1, <1>2, <2>2
    <3>2. /\ i + j \in DOMAIN h
          /\ h[i + j].kind = "tool"
          /\ h[i + j].calls = <<h[i].calls[j]>>
      BY <1>5, <3>1, EmptySeq DEF AnsweredUpTo
    <3> QED BY <1>1, <1>2, <3>1, <3>2
  <2> QED BY <2>1, <2>2
<1>6. AnsweredUpTo(g, m.calls)
  BY <1>5 DEF AnsweredUpTo
<1> QED BY <1>6 DEF g

\* After one more message (the response), the calls still open come one nearer.
LEMMA NextOpenCall ==
    ASSUME NEW at \in Nat, NEW len \in Nat, NEW open \in Nat,
           at - len \in 1 .. open, at # len + 1
    PROVE  /\ at > len + 1
           /\ at - (len + 1) \in 1 .. open - 1
           /\ (at - (len + 1)) + 1 = at - len
OBVIOUS

\* The response to the first open call.
LEMMA AnsweredCall ==
    ASSUME NEW h \in Seq(Message), NEW todo \in Seq(Tools), todo # << >>,
           AnsweredUpTo(h, todo),
           NEW m \in Message, m.kind = "tool", m.calls = <<Head(todo)>>
    PROVE  AnsweredUpTo(Append(h, m), Tail(todo))
<1> DEFINE g == Append(h, m)
           rest == Tail(todo)
<1>1. /\ g \in Seq(Message) /\ Len(g) = Len(h) + 1
      /\ \A i \in 1 .. Len(h) : g[i] = h[i]
      /\ g[Len(h) + 1] = m
  BY AppendProperties
<1>2. /\ rest \in Seq(Tools) /\ Len(rest) = Len(todo) - 1
      /\ \A i \in 1 .. Len(rest) : rest[i] = todo[i + 1]
      /\ m.calls = <<todo[1]>>
  BY HeadTailProperties
<1>3. /\ DOMAIN h = 1 .. Len(h) /\ DOMAIN g = 1 .. Len(g) /\ Len(h) \in Nat
      /\ DOMAIN todo = 1 .. Len(todo) /\ DOMAIN rest = 1 .. Len(rest)
      /\ Len(todo) \in Nat
  BY <1>1, <1>2, LenProperties
<1> HIDE DEF g, rest
<1>4. ASSUME NEW i \in DOMAIN g, g[i].kind = "assistant", NEW j \in DOMAIN g[i].calls
      PROVE  \/ /\ i + j \in DOMAIN g
                /\ g[i + j].kind = "tool"
                /\ g[i + j].calls = <<g[i].calls[j]>>
             \/ /\ i + j > Len(g)
                /\ (i + j) - Len(g) \in DOMAIN rest
                /\ rest[(i + j) - Len(g)] = g[i].calls[j]
  <2>1. i \in DOMAIN h /\ g[i] = h[i]
    BY <1>1, <1>3, <1>4
  <2>2. i \in Nat /\ j \in Nat
    <3>1. h[i] \in Message
      BY <2>1, LenProperties
    <3>2. h[i].calls \in Seq(Tools)
      BY <3>1 DEF Message
    <3>3. DOMAIN h[i].calls = 1 .. Len(h[i].calls)
      BY <3>2, LenProperties
    <3> QED BY <1>3, <1>4, <2>1, <3>3
  <2>3. CASE /\ i + j \in DOMAIN h
             /\ h[i + j].kind = "tool"
             /\ h[i + j].calls = <<h[i].calls[j]>>
    BY <1>1, <1>3, <2>1, <2>3
  <2>4. CASE /\ i + j > Len(h)
             /\ (i + j) - Len(h) \in DOMAIN todo
             /\ todo[(i + j) - Len(h)] = h[i].calls[j]
    <3>1. CASE i + j = Len(g)
      <4>1. (i + j) - Len(h) = 1 /\ i + j \in DOMAIN g
        BY <1>1, <1>3, <2>2, <3>1
      <4> QED BY <1>1, <1>2, <2>1, <2>4, <3>1, <4>1
    <3>2. CASE i + j # Len(g)
      <4>1. Len(g) = Len(h) + 1 /\ Len(h) \in Nat /\ Len(rest) = Len(todo) - 1 /\ Len(todo) \in Nat
        BY <1>1, <1>2, <1>3
      <4>2. (i + j) - Len(h) \in 1 .. Len(todo)
        BY <1>3, <2>4
      <4>3. /\ i + j > Len(g)
            /\ (i + j) - Len(g) \in 1 .. Len(rest)
            /\ ((i + j) - Len(g)) + 1 = (i + j) - Len(h)
        <5> DEFINE at == i + j
                   len == Len(h)
                   open == Len(todo)
        <5>1. at \in Nat /\ len \in Nat /\ open \in Nat /\ at # len + 1
          BY <2>2, <3>2, <4>1
        <5>2. at - len \in 1 .. open
          BY <4>2
        <5>3. Len(g) = len + 1 /\ Len(rest) = open - 1
          BY <4>1
        <5> HIDE DEF at, len, open
        <5>4. /\ at > len + 1
              /\ at - (len + 1) \in 1 .. open - 1
              /\ (at - (len + 1)) + 1 = at - len
          BY <5>1, <5>2, NextOpenCall
        <5>5. /\ at > Len(g)
              /\ at - Len(g) \in 1 .. Len(rest)
              /\ (at - Len(g)) + 1 = at - len
          BY <5>3, <5>4
        <5> QED BY <5>5 DEF at, len
      <4>4. rest[(i + j) - Len(g)] = h[i].calls[j]
        BY <1>2, <2>4, <4>3
      <4> QED BY <1>3, <2>1, <4>3, <4>4
    <3> QED BY <3>1, <3>2
  <2> QED BY <1>4, <2>1, <2>3, <2>4 DEF AnsweredUpTo
<1>5. AnsweredUpTo(g, rest)
  BY <1>4 DEF AnsweredUpTo
<1> QED BY <1>5 DEF g, rest

\* A message keeps the pairs before it, and must be in its own place.
LEMMA PairedAppend ==
    ASSUME NEW h \in Seq(Message), NEW m \in Message, Paired(h),
           m.kind = "warned" => RepeatsReply(Append(h, m), Len(h) + 1),
           m.kind = "tool" => AnswersReply(Append(h, m), Len(h) + 1)
    PROVE  Paired(Append(h, m))
<1> DEFINE g == Append(h, m)
<1>1. /\ g \in Seq(Message) /\ Len(g) = Len(h) + 1
      /\ \A i \in 1 .. Len(h) : g[i] = h[i]
      /\ g[Len(h) + 1] = m
  BY AppendProperties
<1>2. DOMAIN h = 1 .. Len(h) /\ DOMAIN g = 1 .. Len(g) /\ Len(h) \in Nat
  BY <1>1, LenProperties
<1>3. \A i \in DOMAIN h : i \in DOMAIN g /\ g[i] = h[i]
  BY <1>1, <1>2
<1>4. /\ m.kind = "warned" => RepeatsReply(g, Len(h) + 1)
      /\ m.kind = "tool" => AnswersReply(g, Len(h) + 1)
  OBVIOUS
<1> HIDE DEF g
<1>5. ASSUME NEW i \in DOMAIN g
      PROVE  /\ g[i].kind = "warned" => RepeatsReply(g, i)
             /\ g[i].kind = "tool" => AnswersReply(g, i)
  <2>1. CASE i = Len(h) + 1
    BY <1>1, <1>4, <2>1
  <2>2. CASE i # Len(h) + 1
    <3>1. i \in DOMAIN h /\ g[i] = h[i]
      BY <1>1, <1>2, <1>3, <2>2
    <3>2. g[i].kind = "warned" => RepeatsReply(g, i)
      BY <1>3, <3>1 DEF Paired, RepeatsReply
    <3>3. g[i].kind = "tool" => AnswersReply(g, i)
      BY <1>3, <3>1 DEF Paired, AnswersReply
    <3> QED BY <3>2, <3>3
  <2> QED BY <2>1, <2>2
<1>6. Paired(g)
  BY <1>5 DEF Paired
<1> QED BY <1>6 DEF g

\* A reply is in its place when it is appended, and every response leaves it there.
LEMMA PlacedReply ==
    ASSUME NEW h \in Seq(Message), NEW m \in Message, m.kind = "assistant"
    PROVE  PlacedAt(Append(h, m), m.calls, m.calls)
<1>1. /\ Append(h, m) \in Seq(Message) /\ Len(Append(h, m)) = Len(h) + 1
      /\ Append(h, m)[Len(h) + 1] = m /\ Len(h) \in Nat
      /\ DOMAIN Append(h, m) = 1 .. Len(Append(h, m))
  BY AppendProperties, LenProperties
<1>2. Len(m.calls) \in Nat
  BY LenProperties DEF Message
<1> QED BY <1>1, <1>2 DEF PlacedAt

LEMMA PlacedResponse ==
    ASSUME NEW h \in Seq(Message), NEW m \in Message, m.kind = "tool",
           NEW calls \in Seq(Tools), NEW todo \in Seq(Tools), todo # << >>,
           PlacedAt(h, calls, todo)
    PROVE  /\ PlacedAt(Append(h, m), calls, Tail(todo))
           /\ AnswersReply(Append(h, m), Len(h) + 1)
<1> DEFINE g == Append(h, m)
           at == Len(h) - (Len(calls) - Len(todo))
<1>1. /\ g \in Seq(Message) /\ Len(g) = Len(h) + 1
      /\ \A i \in 1 .. Len(h) : g[i] = h[i]
  BY AppendProperties
<1>2. /\ DOMAIN h = 1 .. Len(h) /\ DOMAIN g = 1 .. Len(g) /\ Len(h) \in Nat
      /\ Len(calls) \in Nat /\ DOMAIN calls = 1 .. Len(calls)
      /\ Len(todo) \in Nat \ {0} /\ Len(Tail(todo)) = Len(todo) - 1
  BY <1>1, LenProperties, HeadTailProperties, EmptySeq
<1>3. /\ Len(todo) <= Len(calls) /\ at \in 1 .. Len(h)
      /\ h[at].kind = "assistant" /\ h[at].calls = calls
  BY <1>2 DEF PlacedAt
<1>4. at \in DOMAIN g /\ g[at].kind = "assistant" /\ g[at].calls = calls
  BY <1>1, <1>2, <1>3
<1>5. (Len(h) + 1) - at \in DOMAIN calls
  BY <1>2, <1>3
<1>6. Len(g) - (Len(calls) - Len(Tail(todo))) = at /\ Len(Tail(todo)) <= Len(calls)
  BY <1>1, <1>2, <1>3
<1> HIDE DEF g, at
<1>7. PlacedAt(g, calls, Tail(todo))
  BY <1>4, <1>6 DEF PlacedAt
<1>8. AnswersReply(g, Len(h) + 1)
  BY <1>4, <1>5 DEF AnswersReply
<1> QED BY <1>7, <1>8 DEF g

\* The copy with a warning, after all responses, repeats the reply.
LEMMA PlacedCopy ==
    ASSUME NEW h \in Seq(Message), NEW m \in Message,
           PlacedAt(h, m.calls, << >>)
    PROVE  RepeatsReply(Append(h, m), Len(h) + 1)
<1> DEFINE g == Append(h, m)
           first == Len(h) - Len(m.calls)
<1>1. /\ g \in Seq(Message) /\ Len(g) = Len(h) + 1
      /\ \A i \in 1 .. Len(h) : g[i] = h[i]
      /\ g[Len(h) + 1] = m
  BY AppendProperties
<1>2. /\ DOMAIN h = 1 .. Len(h) /\ DOMAIN g = 1 .. Len(g) /\ Len(h) \in Nat
      /\ Len(m.calls) \in Nat /\ Len(<< >>) = 0
  BY <1>1, LenProperties, EmptySeq DEF Message
<1>3. Len(h) - (Len(m.calls) - Len(<< >>)) = first /\ ((Len(h) + 1) - 1) - Len(m.calls) = first
  BY <1>2
<1> HIDE DEF first
<1>4. first \in DOMAIN h /\ h[first].kind = "assistant" /\ h[first].calls = m.calls
  BY <1>3 DEF PlacedAt
<1>5. first \in DOMAIN g /\ g[first].kind = "assistant" /\ g[first].calls = m.calls
  BY <1>1, <1>2, <1>4
<1> HIDE DEF g
<1>6. RepeatsReply(g, Len(h) + 1)
  BY <1>1, <1>3, <1>5 DEF RepeatsReply
<1> QED BY <1>6 DEF g

LEMMA PlacedStep ==
    ASSUME NEW c, Clients = {c}, TypeOK, Owed(c), Placed(c), [Next]_vars
    PROVE  Placed(c)'
<1>0. /\ Typed /\ c \in Clients
      /\ frame[c] \in Frame
      /\ frame[c].todo \in Seq(Tools)
      /\ frame[c].reply.calls \in Seq(Tools)
      /\ history \in Seq(Message)
  BY FrameFields DEF TypeOK, Typed
<1> USE <1>0 DEF Goto, Set, Return, Typed, agentVars, lockVars
\* No reply is in hand, or nothing happens to it.
<1>1. ASSUME pc'[c] \in PCs \ {"tools", "respond", "warn", "validate"} PROVE Placed(c)'
  BY <1>1 DEF Placed, InHand
<1>2. ASSUME history' = history, frame' = frame, InHand(c)' => InHand(c)
      PROVE  Placed(c)'
  BY <1>2 DEF Placed
<1>3. CASE Receive(c) \/ ReceiveReset(c)
  BY <1>1, <1>3 DEF Receive, ReceiveReset, PCs
<1>4. CASE Start(c)
  BY <1>1, <1>4 DEF Start, LoadHistory, Reset, BeginSlash, BeginUnknownSlash,
                    BeginBootstrap, BeginPlain, Begin, PCs
<1>5. CASE Bootstrap(c)
  BY <1>1, <1>5 DEF Bootstrap, Route, AppendBootstrap, PCs
<1>6. CASE Condense(c)
  BY <1>1, <1>6 DEF Condense, SkipSummary, NeedSummary, HoldReadLock, SummarizeOldest,
                    NothingToSummarize, UpdateSummary, SummaryFails, EndSummary, PCs
<1>7. CASE Answer(c)
  <2>1. CASE Build(c) \/ GenerateFails(c) \/ GiveUp(c) \/ Reject(c)
    BY <1>1, <2>1 DEF Build, GenerateFails, GiveUp, Reject, PCs
  <2>2. CASE Generate(c)
    <3>1. PICK reply \in Replies :
              Set(c, [frame[c] EXCEPT !.reply = reply, !.view = EmptyView])
      BY <2>2, Zenon DEF Generate
    <3>2. frame'[c] = [frame[c] EXCEPT !.reply = reply, !.view = EmptyView]
      BY <3>1
    <3>3. frame'[c].op = frame[c].op
      BY <3>2 DEF Frame
    <3> QED BY <2>2, <3>3 DEF Generate, Placed, InHand, Streaming
  <2>3. CASE ValidateOK(c) \/ ValidateRejects(c)
    BY <1>2, <2>3 DEF ValidateOK, ValidateRejects, InHand, Streaming
  <2>4. CASE AppendReply(c)
    <3>1. frame'[c] = [frame[c] EXCEPT !.todo = frame[c].reply.calls]
      BY <2>4 DEF AppendReply
    <3>2. /\ frame'[c].todo = frame[c].reply.calls
          /\ frame'[c].reply = frame[c].reply
      BY <3>1 DEF Frame
    <3> DEFINE m == Say(c, "assistant", frame[c].reply.calls)
    <3>3. m \in Message /\ m.calls = frame[c].reply.calls /\ m.kind = "assistant"
      BY SayType DEF Say, Said, Kinds
    <3>4. history' = Append(history, m)
      BY <2>4 DEF AppendReply, Add
    <3> HIDE DEF m
    <3>5. PlacedAt(history', frame'[c].reply.calls, frame'[c].todo)
      BY <3>2, <3>3, <3>4, PlacedReply
    <3> QED BY <3>5 DEF Placed
  <2> QED BY <1>7, <2>1, <2>2, <2>3, <2>4 DEF Answer
<1>8. CASE RunTools(c)
  <2>1. CASE CallHandoff(c) \/ CallTool(c) \/ ToolsDone(c)
    BY <1>2, <2>1 DEF CallHandoff, CallTool, ToolsDone, InHand
  <2>2. CASE AppendFunctionResponse(c)
    <3>1. frame'[c] = [frame[c] EXCEPT !.todo = Tail(frame[c].todo)]
      BY <2>2 DEF AppendFunctionResponse
    <3>2. frame'[c].todo = Tail(frame[c].todo) /\ frame'[c].reply = frame[c].reply
      BY <3>1 DEF Frame
    <3>3. frame[c].todo # << >> /\ PlacedAt(history, frame[c].reply.calls, frame[c].todo)
      BY <2>2 DEF AppendFunctionResponse, CallOpen, TypeOK, Placed, InHand
    <3> DEFINE m == ToolResponse(frame[c].chat, Head(frame[c].todo))
    <3>4. <<Head(frame[c].todo)>> \in Seq(Tools)
      BY <3>3, HeadTailProperties
    <3>5. m \in Message /\ m.kind = "tool"
      BY <3>4, SaidType, FrameFields DEF ToolResponse, Said, Kinds
    <3>6. history' = Append(history, m)
      BY <2>2 DEF AppendFunctionResponse, Add
    <3> HIDE DEF m
    <3>7. PlacedAt(history', frame'[c].reply.calls, frame'[c].todo)
      BY <3>2, <3>3, <3>5, <3>6, PlacedResponse
    <3> QED BY <3>7 DEF Placed
  <2>3. CASE AppendWarning(c)
    BY <1>1, <2>3 DEF AppendWarning, PCs
  <2> QED BY <1>8, <2>1, <2>2, <2>3 DEF RunTools
<1>9. CASE Finish(c)
  BY <1>1, <1>9 DEF Finish, TakeHandoff, ContinueAfterTools, NextIteration, FinalReply,
                    GetHistory, SaveSession, PCs
<1>10. CASE UNCHANGED <<history, pc, frame>>
  BY <1>10 DEF Placed, InHand, Streaming
<1> QED
  BY <1>3, <1>4, <1>5, <1>6, <1>7, <1>8, <1>9, <1>10
     DEF Next, Step, Announce, RefreshPrompt, DeleteSession, Done, vars

LEMMA CallsKeptStep ==
    ASSUME NEW c, Clients = {c}, TypeOK, Owed(c), Placed(c),
           ToolCallsAnswered, CallsKept(c), [Next]_vars
    PROVE  ToolCallsAnswered' /\ CallsKept(c)'
<1> DEFINE chat == frame[c].chat
<1>0. /\ Typed /\ c \in Clients
      /\ frame[c] \in Frame /\ chat \in Chats
      /\ frame[c].snap \in Seq(Message)
      /\ frame[c].todo \in Seq(Tools)
      /\ frame[c].reply.calls \in Seq(Tools)
      /\ history \in Seq(Message)
  BY FrameFields DEF TypeOK, Typed
<1> USE <1>0 DEF Goto, Set, Return, Typed, agentVars, lockVars
<1>1. ASSUME store' = store, pc'[c] \in {"idle", "reset"}
      PROVE  ToolCallsAnswered' /\ CallsKept(c)'
  BY <1>1 DEF ToolCallsAnswered, CallsKept
\* A step that stores nothing; what it does to the history is to be shown.
<1>2. ASSUME store' = store, pc[c] \notin {"idle", "reset"},
             frame'[c].sess = frame[c].sess,
             AnsweredUpTo(history', frame'[c].todo), Paired(history'),
             pc'[c] \notin {"boot", "save"}
      PROVE  ToolCallsAnswered' /\ CallsKept(c)'
  BY <1>2 DEF ToolCallsAnswered, CallsKept
<1>3. ASSUME store' = store, history' = history, pc[c] \notin {"idle", "reset", "load"},
             frame'[c].sess = frame[c].sess, frame'[c].todo = frame[c].todo,
             pc'[c] \notin {"boot", "save"}
      PROVE  ToolCallsAnswered' /\ CallsKept(c)'
  BY <1>2, <1>3 DEF CallsKept
<1>4. CASE Receive(c) \/ ReceiveReset(c)
  <2>1. CASE ReceiveReset(c)
    BY <1>1, <2>1 DEF ReceiveReset
  <2>2. CASE Receive(c)
    <3>1. PICK op \in Modes, ch \in Chats, input \in InputChoices :
              Set(c, NewFrame(op, ch, input, store[ch]))
      BY <2>2 DEF Receive
    <3>2. frame'[c] = NewFrame(op, ch, input, store[ch])
      BY <3>1
    <3>3. frame'[c].sess = store[ch]
      BY <3>2 DEF NewFrame
    <3>4. AnsweredUpTo(store[ch], << >>) /\ Paired(store[ch])
      BY DEF ToolCallsAnswered, Answered, AnsweredUpTo, Paired
    <3> QED BY <2>2, <3>3, <3>4 DEF Receive, ToolCallsAnswered, CallsKept
  <2> QED BY <1>4, <2>1, <2>2
\* A message that has to do with no call is appended when no call is open.
<1>5. ASSUME NEW h \in Seq(Message), AnsweredUpTo(h, << >>), Paired(h),
             NEW m \in Message, m.kind \in {"user", "context"}
      PROVE  AnsweredUpTo(Append(h, m), << >>) /\ Paired(Append(h, m))
  BY <1>5, AnsweredOther, PairedAppend
<1>6. CASE Start(c)
  <2>1. CASE LoadHistory(c)
    BY <2>1 DEF LoadHistory, CallsKept, Owed, ToolCallsAnswered
  <2>2. CASE Reset(c)
    BY <1>1, <2>2 DEF Reset
  <2>3. ASSUME NEW next \in {"loop", "route"}, NEW added \in Seq(Message), Begin(c, next, added),
               AnsweredUpTo(history \o added, << >>), Paired(history \o added)
        PROVE  ToolCallsAnswered' /\ CallsKept(c)'
    <3>1. frame[c].todo = << >> /\ frame' = frame /\ store' = store /\ pc[c] = "begin"
          /\ pc'[c] = next /\ history' = history \o added
      BY <2>3 DEF Begin, Owed
    <3> QED BY <1>2, <2>3, <3>1
  <2>4. /\ User(c) \in Message /\ Context(c) \in Message
        /\ User(c).kind = "user" /\ Context(c).kind = "context"
    BY SayType, EmptySeq DEF User, Context, Say, Said, Kinds
  <2>5. /\ <<User(c)>> \in Seq(Message) /\ <<User(c), Context(c)>> \in Seq(Message)
        /\ << >> \in Seq(Message)
    BY <2>4, EmptySeq
  <2>6. ASSUME pc[c] = "begin", NEW added \in {<< >>, <<User(c)>>, <<User(c), Context(c)>>}
        PROVE  AnsweredUpTo(history \o added, << >>) /\ Paired(history \o added)
    <3>1. AnsweredUpTo(history, << >>) /\ Paired(history)
      BY <2>6 DEF CallsKept, Owed
    <3>2. AnsweredUpTo(Append(history, User(c)), << >>) /\ Paired(Append(history, User(c)))
      BY <2>4, <3>1, <1>5
    <3>3. /\ AnsweredUpTo(Append(Append(history, User(c)), Context(c)), << >>)
          /\ Paired(Append(Append(history, User(c)), Context(c)))
      <4>1. Append(history, User(c)) \in Seq(Message)
        BY <2>4, AppendType
      <4> QED BY <2>4, <3>2, <4>1, <1>5
    <3>4. /\ history \o << >> = history
          /\ history \o <<User(c)>> = Append(history, User(c))
      BY <2>4, ConcatEmptySeq, AppendIsConcat
    <3>5. history \o <<User(c), Context(c)>> = Append(Append(history, User(c)), Context(c))
      <4>1. <<User(c), Context(c)>> = Append(<<User(c)>>, Context(c))
        OBVIOUS
      <4> QED BY <2>4, <2>5, <4>1, ConcatAppend
    <3> QED BY <2>6, <3>1, <3>2, <3>3, <3>4, <3>5
  <2>7. CASE BeginSlash(c) \/ BeginUnknownSlash(c) \/ BeginBootstrap(c) \/ BeginPlain(c)
    <3>1. pc[c] = "begin"
      BY <2>7 DEF BeginSlash, BeginUnknownSlash, BeginBootstrap, BeginPlain, Begin
    <3> QED BY <2>3, <2>5, <2>6, <2>7, <3>1
            DEF BeginSlash, BeginUnknownSlash, BeginBootstrap, BeginPlain
  <2> QED BY <1>6, <2>1, <2>2, <2>7 DEF Start
<1>7. CASE Bootstrap(c)
  <2>1. CASE Route(c)
    <3>1. frame'[c] = [frame[c] EXCEPT !.snap = history]
      BY <2>1 DEF Route
    <3>2. /\ frame'[c].sess = frame[c].sess /\ frame'[c].todo = frame[c].todo
          /\ frame'[c].snap = history
      BY <3>1 DEF Frame
    <3>3. frame[c].todo = << >>
      BY <2>1 DEF Route, Owed
    <3> QED BY <2>1, <3>2, <3>3 DEF Route, CallsKept, ToolCallsAnswered
  <2>2. CASE AppendBootstrap(c)
    <3>1. frame'[c] = [frame[c] EXCEPT !.snap = << >>]
      BY <2>2 DEF AppendBootstrap
    <3>2. frame'[c].sess = frame[c].sess /\ frame'[c].todo = frame[c].todo
      BY <3>1 DEF Frame
    <3>3. frame[c].todo = << >> /\ AnsweredUpTo(frame[c].snap, << >>) /\ Paired(frame[c].snap)
      BY <2>2 DEF AppendBootstrap, Owed, CallsKept
    <3>4. Context(c) \in Message /\ Context(c).kind = "context"
      BY SayType, EmptySeq DEF Context, Say, Said, Kinds
    <3>5. AnsweredUpTo(history', << >>) /\ Paired(history')
      BY <1>5, <2>2, <3>3, <3>4 DEF AppendBootstrap
    <3> QED BY <1>2, <2>2, <3>2, <3>3, <3>5 DEF AppendBootstrap
  <2> QED BY <1>7, <2>1, <2>2 DEF Bootstrap
<1>8. CASE Condense(c)
  <2>1. CASE SkipSummary(c) \/ NeedSummary(c) \/ HoldReadLock(c) \/ NothingToSummarize(c)
    BY <1>3, <2>1 DEF SkipSummary, NeedSummary, HoldReadLock, NothingToSummarize
  <2>2. CASE SummarizeOldest(c)
    BY <1>3, <2>2 DEF SummarizeOldest
  <2>3. CASE UpdateSummary(c) \/ SummaryFails(c)
    <3>1. EndSummary(c)
      BY <2>3 DEF UpdateSummary, SummaryFails
    <3>2. frame'[c] = [frame[c] EXCEPT !.range = 0, !.snap = << >>]
      BY <3>1 DEF EndSummary
    <3>3. frame'[c].sess = frame[c].sess /\ frame'[c].todo = frame[c].todo
      BY <3>2 DEF Frame
    <3> QED BY <1>3, <3>1, <3>3 DEF EndSummary
  <2> QED BY <1>8, <2>1, <2>2, <2>3 DEF Condense
<1>9. CASE Answer(c)
  <2>1. CASE Build(c)
    BY <1>3, <2>1 DEF Build
  <2>2. CASE Generate(c)
    <3>1. PICK reply \in Replies :
              Set(c, [frame[c] EXCEPT !.reply = reply, !.view = EmptyView])
      BY <2>2, Zenon DEF Generate
    <3>2. frame'[c] = [frame[c] EXCEPT !.reply = reply, !.view = EmptyView]
      BY <3>1
    <3>3. frame'[c].sess = frame[c].sess /\ frame'[c].todo = frame[c].todo
      BY <3>2 DEF Frame
    <3> QED BY <1>3, <2>2, <3>3 DEF Generate
  <2>3. CASE GenerateFails(c) \/ GiveUp(c) \/ Reject(c)
    BY <1>1, <2>3 DEF GenerateFails, GiveUp, Reject, Add
  <2>4. CASE ValidateOK(c) \/ ValidateRejects(c)
    BY <1>3, <2>4 DEF ValidateOK, ValidateRejects
  <2>5. CASE AppendReply(c)
    <3>1. frame'[c] = [frame[c] EXCEPT !.todo = frame[c].reply.calls]
      BY <2>5 DEF AppendReply
    <3>2. frame'[c].sess = frame[c].sess /\ frame'[c].todo = frame[c].reply.calls
      BY <3>1 DEF Frame
    <3>3. pc[c] = "append" /\ AnsweredUpTo(history, << >>) /\ Paired(history)
      BY <2>5 DEF AppendReply, Owed, CallsKept
    <3> DEFINE m == Say(c, "assistant", frame[c].reply.calls)
    <3>4. m \in Message /\ m.calls = frame[c].reply.calls /\ m.kind = "assistant"
      BY SayType DEF Say, Said, Kinds
    <3>5. history' = Append(history, m) /\ store' = store
      BY <2>5 DEF AppendReply, Add
    <3> HIDE DEF m
    <3>6. AnsweredUpTo(history', frame'[c].todo) /\ Paired(history')
      BY <3>2, <3>3, <3>4, <3>5, AnsweredReply, PairedAppend
    <3>7. pc'[c] \notin {"boot", "save"}
      BY <2>5 DEF AppendReply
    <3> QED BY <1>2, <3>2, <3>3, <3>5, <3>6, <3>7
  <2> QED BY <1>9, <2>1, <2>2, <2>3, <2>4, <2>5 DEF Answer
<1>10. CASE RunTools(c)
  <2>1. CASE CallHandoff(c) \/ CallTool(c) \/ ToolsDone(c)
    BY <1>3, <2>1 DEF CallHandoff, CallTool, ToolsDone
  <2>2. CASE AppendFunctionResponse(c)
    <3>1. frame'[c] = [frame[c] EXCEPT !.todo = Tail(frame[c].todo)]
      BY <2>2 DEF AppendFunctionResponse
    <3>2. frame'[c].sess = frame[c].sess /\ frame'[c].todo = Tail(frame[c].todo)
      BY <3>1 DEF Frame
    <3>3. /\ pc[c] = "respond" /\ frame[c].todo # << >>
          /\ AnsweredUpTo(history, frame[c].todo) /\ Paired(history)
          /\ PlacedAt(history, frame[c].reply.calls, frame[c].todo)
      BY <2>2 DEF AppendFunctionResponse, CallOpen, TypeOK, CallsKept, Placed, InHand
    <3> DEFINE m == ToolResponse(frame[c].chat, Head(frame[c].todo))
    <3>4. <<Head(frame[c].todo)>> \in Seq(Tools)
      BY <3>3, HeadTailProperties
    <3>5. m \in Message /\ m.kind = "tool" /\ m.calls = <<Head(frame[c].todo)>>
      BY <3>4, SaidType DEF ToolResponse, Said, Kinds
    <3>6. history' = Append(history, m) /\ store' = store
      BY <2>2 DEF AppendFunctionResponse, Add
    <3> HIDE DEF m
    <3>9. AnsweredUpTo(history', frame'[c].todo)
      BY <3>2, <3>3, <3>5, <3>6, AnsweredCall
    <3>10. AnswersReply(Append(history, m), Len(history) + 1)
      BY <3>3, <3>5, PlacedResponse
    <3>11. Paired(history')
      BY <3>3, <3>5, <3>6, <3>10, PairedAppend
    <3>7. AnsweredUpTo(history', frame'[c].todo) /\ Paired(history')
      BY <3>9, <3>11
    <3>8. pc'[c] \notin {"boot", "save"}
      BY <2>2 DEF AppendFunctionResponse
    <3> QED BY <1>2, <3>2, <3>3, <3>6, <3>7, <3>8
  <2>3. CASE AppendWarning(c)
    <3> DEFINE m == Say(c, "warned", frame[c].reply.calls)
    <3>1. m \in Message /\ m.kind = "warned" /\ m.calls = frame[c].reply.calls
      BY SayType DEF Say, Said, Kinds
    <3>2. history' = Append(history, m) /\ store' = store /\ frame' = frame
          /\ pc[c] = "warn" /\ pc'[c] = "check"
      BY <2>3 DEF AppendWarning, Add
    <3>3. /\ frame[c].todo = << >> /\ AnsweredUpTo(history, << >>) /\ Paired(history)
          /\ PlacedAt(history, frame[c].reply.calls, << >>)
      BY <3>2 DEF Owed, CallsKept, Placed, InHand
    <3> HIDE DEF m
    <3>5. RepeatsReply(Append(history, m), Len(history) + 1)
      BY <3>1, <3>3, PlacedCopy
    <3>6. Paired(history')
      BY <3>1, <3>2, <3>3, <3>5, PairedAppend
    <3>7. AnsweredUpTo(history', << >>)
      BY <3>1, <3>2, <3>3, AnsweredOther
    <3>4. AnsweredUpTo(history', << >>) /\ Paired(history')
      BY <3>6, <3>7
    <3> QED BY <1>2, <3>2, <3>3, <3>4
  <2> QED BY <1>10, <2>1, <2>2, <2>3 DEF RunTools
<1>11. CASE Finish(c)
  <2>1. CASE TakeHandoff(c) \/ ContinueAfterTools(c)
    <3>1. NextIteration(c) /\ store' = store
      BY <2>1 DEF TakeHandoff, ContinueAfterTools, Add
    <3>2. frame'[c] = [frame[c] EXCEPT !.iter = frame[c].iter + 1, !.reply = NoReply,
                                       !.sent = Emitted(c)]
      BY <3>1 DEF NextIteration
    <3>3. /\ frame'[c].sess = frame[c].sess /\ frame'[c].todo = frame[c].todo
          /\ pc[c] = "check" /\ pc'[c] = "loop"
      BY <3>1, <3>2 DEF Frame, NextIteration
    <3>4. frame[c].todo = << >>
      BY <3>3 DEF Owed
    <3>5. Context(c) \in Message /\ Context(c).kind = "context"
      BY SayType, EmptySeq DEF Context, Say, Said, Kinds
    <3>6. history' \in {history, Append(history, Context(c))}
      BY <2>1 DEF TakeHandoff, ContinueAfterTools, Add
    <3>7. AnsweredUpTo(history', << >>) /\ Paired(history')
      BY <1>5, <3>3, <3>4, <3>5, <3>6 DEF CallsKept
    <3> QED BY <1>2, <3>1, <3>3, <3>4, <3>7
  <2>2. CASE FinalReply(c)
    BY <1>3, <2>2 DEF FinalReply
  <2>3. CASE GetHistory(c)
    <3>1. frame'[c] = [frame[c] EXCEPT !.snap = history]
      BY <2>3 DEF GetHistory
    <3>2. /\ frame'[c].sess = frame[c].sess /\ frame'[c].todo = frame[c].todo
          /\ frame'[c].snap = history
      BY <3>1 DEF Frame
    <3>3. frame[c].todo = << >>
      BY <2>3 DEF GetHistory, Owed
    <3> QED BY <2>3, <3>2, <3>3 DEF GetHistory, CallsKept, ToolCallsAnswered
  <2>4. CASE SaveSession(c)
    <3>1. AnsweredUpTo(frame[c].snap, << >>) /\ Paired(frame[c].snap)
      BY <2>4 DEF SaveSession, CallsKept
    <3>2. store' = [store EXCEPT ![chat] = frame[c].snap] /\ pc'[c] = "idle"
      BY <2>4 DEF SaveSession
    <3>3. \A ch \in Chats : AnsweredUpTo(store'[ch], << >>) /\ Paired(store'[ch])
      BY <3>1, <3>2 DEF ToolCallsAnswered, Answered, AnsweredUpTo, Paired
    <3> QED BY <3>2, <3>3, EmptySeq DEF CallsKept, ToolCallsAnswered, Answered, AnsweredUpTo, Paired
  <2> QED BY <1>11, <2>1, <2>2, <2>3, <2>4 DEF Finish
<1>12. ASSUME NEW d \in Chats, DeleteSession(d) PROVE ToolCallsAnswered' /\ CallsKept(c)'
  BY <1>12 DEF DeleteSession, ToolCallsAnswered, CallsKept
<1>13. CASE UNCHANGED <<store, history, pc, frame>>
  BY <1>13 DEF ToolCallsAnswered, CallsKept
<1> QED
  BY <1>4, <1>6, <1>7, <1>8, <1>9, <1>10, <1>11, <1>12, <1>13
     DEF Next, Step, Announce, RefreshPrompt, Done, vars

\* When requests come one at a time, every stored reply is followed by the
\* responses to its calls, in order; every stored response has its reply; and a
\* stored copy with a warning, whose calls nothing follows, directly follows the
\* reply it repeats and the responses to that.
THEOREM OneClientCallsAnswered ==
    ASSUME NEW c, Clients = {c}
    PROVE  Spec => []ToolCallsAnswered
<1>1. Init => Owed(c) /\ Placed(c) /\ CallsKept(c) /\ ToolCallsAnswered
  BY DEF Init, Owed, NoFrame, NewFrame, Streaming, CallsKept, Placed, InHand, ToolCallsAnswered
<1>2. TypeOK /\ Owed(c) /\ Placed(c) /\ CallsKept(c) /\ ToolCallsAnswered /\ [Next]_vars
      => Owed(c)' /\ Placed(c)' /\ CallsKept(c)' /\ ToolCallsAnswered'
  BY OwedStep, PlacedStep, CallsKeptStep
<1> QED BY <1>1, <1>2, TypeCorrect, PTL DEF Spec

(***************************************************************************)
(* One client: the requests keep the promise of ChatService.               *)
(***************************************************************************)
\* messages are what the chat held when the request of c arrived, then messages
\* of that chat.
Grows(c, messages) ==
    /\ Len(frame[c].sess) <= Len(messages)
    /\ \A i \in 1 .. Len(frame[c].sess) : messages[i] = frame[c].sess[i]
    /\ \A i \in Len(frame[c].sess) + 1 .. Len(messages) : messages[i].chat = frame[c].chat

\* ... and the last of them is a reply of this request that calls no tool.
EndsInReply(c, messages) ==
    /\ Len(messages) > Len(frame[c].sess)
    /\ messages[Len(messages)].kind \in {"assistant", "warned"}
    /\ messages[Len(messages)].calls = << >>

\* The reply without calls is the last message from its append to the end.
Replied(c) ==
    \/ pc[c] \in AtTools /\ frame[c].reply.calls = << >>
    \/ pc[c] = "validate" /\ Streaming(c) /\ frame[c].reply.calls = << >>
    \/ pc[c] = "fetch"

Extending(c) ==
    /\ pc[c] \notin {"idle", "reset", "load"} => Grows(c, history)
    /\ pc[c] \in {"boot", "save"} => Grows(c, frame[c].snap)
    /\ Replied(c) => EndsInReply(c, history)
    /\ pc[c] = "save" => EndsInReply(c, frame[c].snap)

LEMMA GrowsAppend ==
    ASSUME NEW c \in Clients, Typed, NEW h \in Seq(Message), Grows(c, h),
           NEW m \in Message, m.chat = frame[c].chat
    PROVE  /\ Grows(c, Append(h, m))
           /\ Len(Append(h, m)) > Len(frame[c].sess)
           /\ Append(h, m)[Len(Append(h, m))] = m
<1>1. /\ Append(h, m) \in Seq(Message) /\ Len(Append(h, m)) = Len(h) + 1
      /\ \A i \in 1 .. Len(h) : Append(h, m)[i] = h[i]
      /\ Append(h, m)[Len(h) + 1] = m
  BY AppendProperties
<1>2. Len(h) \in Nat /\ Len(frame[c].sess) \in Nat /\ Len(frame[c].sess) <= Len(h)
  BY FrameFields, LenProperties DEF Grows
<1>3. \A i \in 1 .. Len(frame[c].sess) : Append(h, m)[i] = frame[c].sess[i]
  BY <1>1, <1>2 DEF Grows
<1>4. \A i \in Len(frame[c].sess) + 1 .. Len(Append(h, m)) :
          Append(h, m)[i].chat = frame[c].chat
  BY <1>1, <1>2 DEF Grows
<1> QED BY <1>1, <1>2, <1>3, <1>4 DEF Grows

LEMMA ExtendingStep ==
    ASSUME NEW c, Clients = {c}, TypeOK, Owed(c), Extending(c), [Next]_vars
    PROVE  Extending(c)'
<1> DEFINE chat == frame[c].chat
<1>0. /\ Typed /\ c \in Clients
      /\ frame[c] \in Frame /\ chat \in Chats
      /\ frame[c].sess \in Seq(Message) /\ frame[c].snap \in Seq(Message)
      /\ frame[c].todo \in Seq(Tools)
      /\ frame[c].reply.calls \in Seq(Tools)
      /\ history \in Seq(Message)
  BY FrameFields DEF TypeOK, Typed
<1> USE <1>0 DEF Goto, Set, Return, Typed, agentVars, lockVars, AtTools
<1>1. ASSUME pc'[c] \in {"idle", "reset", "load"} PROVE Extending(c)'
  BY <1>1 DEF Extending, Replied
\* No reply yet.
<1>2. ASSUME pc'[c] \notin AtTools \cup {"boot", "validate", "fetch", "save"},
             frame'[c].chat = chat, frame'[c].sess = frame[c].sess,
             Grows(c, history')
      PROVE  Extending(c)'
  BY <1>2 DEF Extending, Replied, Grows
\* The history stays, and the reply with it.
<1>3. ASSUME history' = history, pc[c] \notin {"idle", "reset", "load"},
             pc'[c] \notin {"boot", "save"},
             frame'[c].chat = chat, frame'[c].sess = frame[c].sess,
             Replied(c)' => Replied(c)
      PROVE  Extending(c)'
  BY <1>3 DEF Extending, Grows, EndsInReply
<1>4. CASE Receive(c) \/ ReceiveReset(c)
  BY <1>1, <1>4 DEF Receive, ReceiveReset
\* The messages that are not replies.
<1>5. /\ User(c) \in Message /\ Context(c) \in Message
      /\ User(c).chat = chat /\ Context(c).chat = chat
  BY SayType, EmptySeq DEF User, Context, Say, Said, Kinds
<1>6. CASE Start(c)
  <2>1. CASE LoadHistory(c)
    <3>1. history' = frame[c].sess /\ frame' = frame /\ pc'[c] = "begin"
      BY <2>1 DEF LoadHistory
    <3>2. Grows(c, frame[c].sess)
      BY LenProperties DEF Grows
    <3>3. Grows(c, history')
      BY <3>1, <3>2
    <3> QED BY <1>2, <3>1, <3>3
  <2>2. CASE Reset(c)
    BY <1>1, <2>2 DEF Reset
  <2>3. ASSUME NEW next \in {"loop", "route"}, NEW added, Begin(c, next, added),
               Grows(c, history \o added)
        PROVE  Extending(c)'
    <3>1. frame' = frame /\ pc'[c] = next /\ history' = history \o added
      BY <2>3 DEF Begin
    <3> QED BY <1>2, <2>3, <3>1
  <2>4. ASSUME pc[c] = "begin" PROVE /\ Grows(c, history \o << >>)
                                     /\ Grows(c, history \o <<User(c)>>)
                                     /\ Grows(c, history \o <<User(c), Context(c)>>)
    <3>1. Grows(c, history)
      BY <2>4 DEF Extending
    <3>2. Grows(c, Append(history, User(c)))
      BY <1>5, <3>1, GrowsAppend
    <3>3. Grows(c, Append(Append(history, User(c)), Context(c)))
      BY <1>5, <3>2, GrowsAppend, AppendType
    <3>4. /\ history \o << >> = history
          /\ history \o <<User(c)>> = Append(history, User(c))
      BY <1>5, ConcatEmptySeq, AppendIsConcat
    <3>5. history \o <<User(c), Context(c)>> = Append(Append(history, User(c)), Context(c))
      <4>1. <<User(c), Context(c)>> = Append(<<User(c)>>, Context(c))
        OBVIOUS
      <4> QED BY <1>5, <4>1, ConcatAppend
    <3> QED BY <3>1, <3>2, <3>3, <3>4, <3>5
  <2>5. CASE BeginSlash(c) \/ BeginUnknownSlash(c) \/ BeginBootstrap(c) \/ BeginPlain(c)
    <3>1. pc[c] = "begin"
      BY <2>5 DEF BeginSlash, BeginUnknownSlash, BeginBootstrap, BeginPlain, Begin
    <3> QED BY <2>3, <2>4, <2>5, <3>1
            DEF BeginSlash, BeginUnknownSlash, BeginBootstrap, BeginPlain
  <2> QED BY <1>6, <2>1, <2>2, <2>5 DEF Start
<1>7. CASE Bootstrap(c)
  <2>1. CASE Route(c)
    <3>1. frame'[c] = [frame[c] EXCEPT !.snap = history]
      BY <2>1 DEF Route
    <3>2. /\ frame'[c].sess = frame[c].sess /\ frame'[c].chat = chat
          /\ frame'[c].snap = history
      BY <3>1 DEF Frame
    <3> QED BY <2>1, <3>2 DEF Route, Extending, Replied, Grows
  <2>2. CASE AppendBootstrap(c)
    <3>1. frame'[c] = [frame[c] EXCEPT !.snap = << >>]
      BY <2>2 DEF AppendBootstrap
    <3>2. frame'[c].sess = frame[c].sess /\ frame'[c].chat = chat
      BY <3>1 DEF Frame
    <3>3. Grows(c, frame[c].snap)
      BY <2>2 DEF AppendBootstrap, Extending
    <3>4. Grows(c, history')
      BY <1>5, <2>2, <3>3, GrowsAppend DEF AppendBootstrap
    <3> QED BY <1>2, <2>2, <3>2, <3>4 DEF AppendBootstrap
  <2> QED BY <1>7, <2>1, <2>2 DEF Bootstrap
<1>8. CASE Condense(c)
  <2>1. CASE SkipSummary(c) \/ NeedSummary(c) \/ HoldReadLock(c) \/ NothingToSummarize(c)
    BY <1>3, <2>1 DEF SkipSummary, NeedSummary, HoldReadLock, NothingToSummarize, Replied
  <2>2. CASE SummarizeOldest(c)
    BY <1>3, <2>2 DEF SummarizeOldest, Replied
  <2>3. CASE UpdateSummary(c) \/ SummaryFails(c)
    <3>1. EndSummary(c)
      BY <2>3 DEF UpdateSummary, SummaryFails
    <3>2. frame'[c] = [frame[c] EXCEPT !.range = 0, !.snap = << >>]
      BY <3>1 DEF EndSummary
    <3>3. frame'[c].sess = frame[c].sess /\ frame'[c].chat = chat
      BY <3>2 DEF Frame
    <3> QED BY <1>3, <3>1, <3>3 DEF EndSummary, Replied
  <2> QED BY <1>8, <2>1, <2>2, <2>3 DEF Condense
<1>9. CASE Answer(c)
  <2>1. CASE Build(c)
    BY <1>3, <2>1 DEF Build, Replied
  <2>2. CASE Generate(c)
    <3>1. PICK reply \in Replies :
              Set(c, [frame[c] EXCEPT !.reply = reply, !.view = EmptyView])
      BY <2>2, Zenon DEF Generate
    <3>2. frame'[c] = [frame[c] EXCEPT !.reply = reply, !.view = EmptyView]
      BY <3>1
    <3>3. /\ frame'[c].sess = frame[c].sess /\ frame'[c].chat = chat
          /\ frame'[c].op = frame[c].op
      BY <3>2 DEF Frame
    <3>4. /\ pc[c] = "generate" /\ history' = history
          /\ pc'[c] = IF Streaming(c) THEN "append" ELSE "validate"
      BY <2>2 DEF Generate
    <3>5. ~Replied(c)'
      BY <3>3, <3>4 DEF Replied, Streaming
    <3> QED BY <1>3, <3>3, <3>4, <3>5
  <2>3. CASE GenerateFails(c) \/ GiveUp(c) \/ Reject(c)
    BY <1>1, <2>3 DEF GenerateFails, GiveUp, Reject, Add
  <2>4. CASE ValidateOK(c) \/ ValidateRejects(c)
    BY <1>3, <2>4 DEF ValidateOK, ValidateRejects, Replied, Streaming
  <2>5. CASE AppendReply(c)
    <3>1. frame'[c] = [frame[c] EXCEPT !.todo = frame[c].reply.calls]
      BY <2>5 DEF AppendReply
    <3>2. /\ frame'[c].sess = frame[c].sess /\ frame'[c].chat = chat
          /\ frame'[c].reply = frame[c].reply
      BY <3>1 DEF Frame
    <3> DEFINE m == Say(c, "assistant", frame[c].reply.calls)
    <3>3. /\ m \in Message /\ m.chat = chat /\ m.kind = "assistant"
          /\ m.calls = frame[c].reply.calls
      BY SayType DEF Say, Said, Kinds
    <3>4. history' = Append(history, m) /\ pc'[c] \in {"validate", "tools"}
          /\ pc[c] = "append"
      BY <2>5 DEF AppendReply, Add
    <3> HIDE DEF m
    <3>5. /\ Grows(c, history') /\ Len(history') > Len(frame[c].sess)
          /\ history'[Len(history')] = m
      BY <3>3, <3>4, GrowsAppend DEF Extending
    <3> QED BY <3>2, <3>3, <3>4, <3>5 DEF Extending, Grows, EndsInReply, Replied
  <2> QED BY <1>9, <2>1, <2>2, <2>3, <2>4, <2>5 DEF Answer
<1>10. CASE RunTools(c)
  <2>1. CASE CallHandoff(c) \/ CallTool(c) \/ ToolsDone(c)
    BY <1>3, <2>1 DEF CallHandoff, CallTool, ToolsDone, Replied
  \* A response belongs to a reply with calls.
  <2>2. CASE AppendFunctionResponse(c)
    <3>1. frame'[c] = [frame[c] EXCEPT !.todo = Tail(frame[c].todo)]
      BY <2>2 DEF AppendFunctionResponse
    <3>2. /\ frame'[c].sess = frame[c].sess /\ frame'[c].chat = chat
          /\ frame'[c].reply = frame[c].reply
      BY <3>1 DEF Frame
    <3>3. pc[c] = "respond" /\ pc'[c] = "tools" /\ frame[c].todo # << >>
      BY <2>2 DEF AppendFunctionResponse, CallOpen, TypeOK
    <3> DEFINE m == ToolResponse(frame[c].chat, Head(frame[c].todo))
    <3>4. <<Head(frame[c].todo)>> \in Seq(Tools)
      BY <3>3, HeadTailProperties
    <3>5. m \in Message /\ m.chat = chat
      BY <3>4, SaidType DEF ToolResponse, Said, Kinds
    <3>6. history' = Append(history, m)
      BY <2>2 DEF AppendFunctionResponse, Add
    <3> HIDE DEF m
    <3>7. Grows(c, history') /\ frame[c].reply.calls # << >>
      BY <3>3, <3>5, <3>6, GrowsAppend DEF Extending, Owed
    <3> QED BY <3>2, <3>3, <3>7 DEF Extending, Grows, Replied
  <2>3. CASE AppendWarning(c)
    <3> DEFINE m == Say(c, "warned", frame[c].reply.calls)
    <3>1. /\ m \in Message /\ m.chat = chat /\ m.kind = "warned"
          /\ m.calls = frame[c].reply.calls
      BY SayType DEF Say, Said, Kinds
    <3>2. history' = Append(history, m) /\ frame' = frame
          /\ pc[c] = "warn" /\ pc'[c] = "check"
      BY <2>3 DEF AppendWarning, Add
    <3> HIDE DEF m
    <3>3. /\ Grows(c, history') /\ Len(history') > Len(frame[c].sess)
          /\ history'[Len(history')] = m
      BY <3>1, <3>2, GrowsAppend DEF Extending
    <3> QED BY <3>1, <3>2, <3>3 DEF Extending, Grows, EndsInReply, Replied
  <2> QED BY <1>10, <2>1, <2>2, <2>3 DEF RunTools
<1>11. CASE Finish(c)
  <2>1. CASE TakeHandoff(c) \/ ContinueAfterTools(c)
    <3>1. NextIteration(c)
      BY <2>1 DEF TakeHandoff, ContinueAfterTools
    <3>2. frame'[c] = [frame[c] EXCEPT !.iter = frame[c].iter + 1, !.reply = NoReply,
                                       !.sent = Emitted(c)]
      BY <3>1 DEF NextIteration
    <3>3. /\ frame'[c].sess = frame[c].sess /\ frame'[c].chat = chat
          /\ pc[c] = "check" /\ pc'[c] = "loop"
      BY <3>1, <3>2 DEF Frame, NextIteration
    <3>4. history' \in {history, Append(history, Context(c))}
      BY <2>1 DEF TakeHandoff, ContinueAfterTools, Add
    <3>5. Grows(c, history')
      BY <1>5, <3>3, <3>4, GrowsAppend DEF Extending
    <3> QED BY <1>2, <3>3, <3>5
  <2>2. CASE FinalReply(c)
    <3>1. frame'[c] = [frame[c] EXCEPT !.sent = Emitted(c)]
      BY <2>2 DEF FinalReply
    <3>2. frame'[c].sess = frame[c].sess /\ frame'[c].chat = chat
      BY <3>1 DEF Frame
    <3> QED BY <1>3, <2>2, <3>2 DEF FinalReply, Replied
  <2>3. CASE GetHistory(c)
    <3>1. frame'[c] = [frame[c] EXCEPT !.snap = history]
      BY <2>3 DEF GetHistory
    <3>2. /\ frame'[c].sess = frame[c].sess /\ frame'[c].chat = chat
          /\ frame'[c].snap = history
      BY <3>1 DEF Frame
    <3> QED BY <2>3, <3>2 DEF GetHistory, Extending, Replied, Grows, EndsInReply
  <2>4. CASE SaveSession(c)
    BY <1>1, <2>4 DEF SaveSession
  <2> QED BY <1>11, <2>1, <2>2, <2>3, <2>4 DEF Finish
<1>12. CASE UNCHANGED <<history, pc, frame>>
  BY <1>12 DEF Extending, Replied, Grows, EndsInReply, Streaming
<1> QED
  BY <1>4, <1>6, <1>7, <1>8, <1>9, <1>10, <1>11, <1>12
     DEF Next, Step, Announce, RefreshPrompt, DeleteSession, Done, vars

\* What ChatService knows of the request of c.
OpenOf(c) ==
    IF pc[c] \in {"idle", "reset"} THEN << >>
    ELSE [chat |-> frame[c].chat, base |-> frame[c].sess]

LEMMA NotIdle == ASSUME NEW chat, NEW base PROVE [chat |-> chat, base |-> base] # << >>
<1>1. DOMAIN [chat |-> chat, base |-> base] = {"chat", "base"}
  OBVIOUS
<1>2. DOMAIN << >> = {}
  BY EmptySeq, LenProperties
<1> QED BY <1>1, <1>2

\* A chat that grew is one that ChatService may keep.
LEMMA Kept ==
    ASSUME NEW c \in Clients, Typed, NEW h \in Seq(Message), Grows(c, h), EndsInReply(c, h)
    PROVE  Service!Extends(frame[c].chat, frame[c].sess, h)
<1> DEFINE base == frame[c].sess
<1>1. base \in Seq(Message) /\ Len(base) \in Nat /\ Len(h) \in Nat /\ Len(base) <= Len(h)
  BY FrameFields, LenProperties DEF Grows
<1>2. SubSeq(h, 1, Len(base)) = base
  <2>1. \A i \in 1 .. Len(base) : h[i] \in Message
    BY <1>1, LenProperties
  <2>2. /\ SubSeq(h, 1, Len(base)) \in Seq(Message)
        /\ Len(SubSeq(h, 1, Len(base))) = Len(base)
        /\ \A i \in 1 .. Len(base) : SubSeq(h, 1, Len(base))[i] = h[i]
    BY <1>1, <2>1, SubSeqProperties
  <2>3. \A i \in 1 .. Len(base) : SubSeq(h, 1, Len(base))[i] = base[i]
    BY <2>2 DEF Grows
  <2> HIDE DEF base
  <2> QED BY <1>1, <2>2, <2>3, SeqEqual
<1> QED BY <1>1, <1>2 DEF Service!Extends, Grows, EndsInReply

LEMMA OneClientMaps ==
    ASSUME NEW c, Clients = {c}, TypeOK, TypeOK', Extending(c), [Next]_vars
    PROVE  [Service!Next]_<<store, Open>>
<1>0. /\ Typed /\ c \in Clients
      /\ frame[c] \in Frame /\ frame[c].chat \in Chats
      /\ frame[c].snap \in Seq(Message)
  BY FrameFields DEF TypeOK
<1> USE <1>0 DEF Goto, Set, Return, Typed, agentVars, lockVars
<1>1. Open = [d \in Clients |-> OpenOf(d)] /\ Open' = [d \in Clients |-> OpenOf(d)']
  BY DEF Open, OpenOf
\* Inside a request.
<1>2. ASSUME store' = store, OpenOf(c)' = OpenOf(c) PROVE UNCHANGED <<store, Open>>
  BY <1>1, <1>2
<1>3. ASSUME store' = store, pc[c] \notin {"idle", "reset"}, pc'[c] \notin {"idle", "reset"},
             frame'[c].chat = frame[c].chat, frame'[c].sess = frame[c].sess
      PROVE  UNCHANGED <<store, Open>>
  BY <1>2, <1>3 DEF OpenOf
\* It fails.
<1>4. ASSUME store' = store, pc[c] \notin {"idle", "reset"}, pc'[c] = "idle"
      PROVE  Service!Next
  <2>1. OpenOf(c) = [chat |-> frame[c].chat, base |-> frame[c].sess] /\ OpenOf(c)' = << >>
    BY <1>4 DEF OpenOf
  <2>2. Open[c] # << >> /\ Open' = [Open EXCEPT ![c] = << >>]
    BY <1>1, <2>1, NotIdle
  <2>3. Service!Fail(c)
    BY <1>4, <2>2 DEF Service!Fail
  <2> QED BY <2>3 DEF Service!Next
<1>5. CASE Receive(c) \/ ReceiveReset(c)
  <2>1. CASE ReceiveReset(c)
    BY <1>2, <2>1 DEF ReceiveReset, OpenOf
  <2>2. CASE Receive(c)
    <3>1. PICK op \in Modes, ch \in Chats, input \in InputChoices :
              Set(c, NewFrame(op, ch, input, store[ch]))
      BY <2>2 DEF Receive
    <3>2. frame'[c] = NewFrame(op, ch, input, store[ch])
      BY <3>1
    <3>3. frame'[c].chat = ch /\ frame'[c].sess = store[ch]
      BY <3>2 DEF NewFrame
    <3>4. OpenOf(c) = << >> /\ OpenOf(c)' = [chat |-> ch, base |-> store[ch]] /\ store' = store
      BY <2>2, <3>3 DEF Receive, OpenOf
    <3>5. Open[c] = << >> /\ Open' = [Open EXCEPT ![c] = [chat |-> ch, base |-> store[ch]]]
      BY <1>1, <3>4
    <3>6. Service!Begin(c)
      BY <3>4, <3>5 DEF Service!Begin
    <3> QED BY <3>6 DEF Service!Next
  <2> QED BY <1>5, <2>1, <2>2
<1>6. CASE Start(c)
  <2>1. CASE Reset(c)
    BY <1>2, <2>1 DEF Reset, OpenOf
  <2>2. CASE ~Reset(c)
    <3>1. /\ store' = store /\ frame' = frame /\ pc[c] \in {"load", "begin"}
          /\ pc'[c] \in {"begin", "loop", "route"}
      BY <1>6, <2>2 DEF Start, LoadHistory, BeginSlash, BeginUnknownSlash,
                        BeginBootstrap, BeginPlain, Begin
    <3> QED BY <1>3, <3>1
  <2> QED BY <2>1, <2>2
<1>7. CASE Bootstrap(c)
  <2>1. CASE Route(c)
    BY <1>3, <2>1 DEF Route
  <2>2. CASE AppendBootstrap(c)
    BY <1>3, <2>2 DEF AppendBootstrap
  <2> QED BY <1>7, <2>1, <2>2 DEF Bootstrap
<1>8. CASE Condense(c)
  <2>1. CASE SkipSummary(c) \/ NeedSummary(c) \/ HoldReadLock(c) \/ NothingToSummarize(c)
    BY <1>3, <2>1 DEF SkipSummary, NeedSummary, HoldReadLock, NothingToSummarize
  <2>2. CASE SummarizeOldest(c)
    BY <1>3, <2>2 DEF SummarizeOldest
  <2>3. CASE UpdateSummary(c) \/ SummaryFails(c)
    <3>1. EndSummary(c)
      BY <2>3 DEF UpdateSummary, SummaryFails
    <3>2. frame'[c] = [frame[c] EXCEPT !.range = 0, !.snap = << >>]
      BY <3>1 DEF EndSummary
    <3>3. frame'[c].sess = frame[c].sess /\ frame'[c].chat = frame[c].chat
      BY <3>2 DEF Frame
    <3> QED BY <1>3, <3>1, <3>3 DEF EndSummary
  <2> QED BY <1>8, <2>1, <2>2, <2>3 DEF Condense
<1>9. CASE Answer(c)
  <2>1. CASE Build(c)
    BY <1>3, <2>1 DEF Build
  <2>2. CASE Generate(c)
    <3>1. PICK reply \in Replies :
              Set(c, [frame[c] EXCEPT !.reply = reply, !.view = EmptyView])
      BY <2>2, Zenon DEF Generate
    <3>2. frame'[c] = [frame[c] EXCEPT !.reply = reply, !.view = EmptyView]
      BY <3>1
    <3>3. frame'[c].sess = frame[c].sess /\ frame'[c].chat = frame[c].chat
      BY <3>2 DEF Frame
    <3> QED BY <1>3, <2>2, <3>3 DEF Generate
  <2>3. CASE GenerateFails(c) \/ GiveUp(c) \/ Reject(c)
    BY <1>4, <2>3 DEF GenerateFails, GiveUp, Reject, Add
  <2>4. CASE ValidateOK(c) \/ ValidateRejects(c)
    BY <1>3, <2>4 DEF ValidateOK, ValidateRejects
  <2>5. CASE AppendReply(c)
    BY <1>3, <2>5 DEF AppendReply, Add
  <2> QED BY <1>9, <2>1, <2>2, <2>3, <2>4, <2>5 DEF Answer
<1>10. CASE RunTools(c)
  <2>1. CASE CallHandoff(c) \/ CallTool(c) \/ ToolsDone(c)
    BY <1>3, <2>1 DEF CallHandoff, CallTool, ToolsDone
  <2>2. CASE AppendFunctionResponse(c)
    BY <1>3, <2>2 DEF AppendFunctionResponse, Add
  <2>3. CASE AppendWarning(c)
    BY <1>3, <2>3 DEF AppendWarning, Add
  <2> QED BY <1>10, <2>1, <2>2, <2>3 DEF RunTools
<1>11. CASE Finish(c)
  <2>1. CASE TakeHandoff(c) \/ ContinueAfterTools(c)
    <3>1. NextIteration(c) /\ store' = store
      BY <2>1 DEF TakeHandoff, ContinueAfterTools, Add
    <3>2. frame'[c] = [frame[c] EXCEPT !.iter = frame[c].iter + 1, !.reply = NoReply,
                                       !.sent = Emitted(c)]
      BY <3>1 DEF NextIteration
    <3>3. frame'[c].sess = frame[c].sess /\ frame'[c].chat = frame[c].chat
      BY <3>2 DEF Frame
    <3> QED BY <1>3, <3>1, <3>3 DEF NextIteration
  <2>2. CASE FinalReply(c) \/ GetHistory(c)
    <3>1. \/ frame'[c] = [frame[c] EXCEPT !.sent = Emitted(c)]
          \/ frame'[c] = [frame[c] EXCEPT !.snap = history]
      BY <2>2 DEF FinalReply, GetHistory
    <3>2. frame'[c].sess = frame[c].sess /\ frame'[c].chat = frame[c].chat
      BY <3>1 DEF Frame
    <3> QED BY <1>3, <2>2, <3>2 DEF FinalReply, GetHistory
  \* It keeps its turn: the only step that stores anything.
  <2>3. CASE SaveSession(c)
    <3>1. /\ pc[c] = "save" /\ pc'[c] = "idle"
          /\ store' = [store EXCEPT ![frame[c].chat] = frame[c].snap]
      BY <2>3 DEF SaveSession
    <3>2. Service!Extends(frame[c].chat, frame[c].sess, store'[frame[c].chat])
      BY <3>1, Kept DEF Extending
    <3>3. OpenOf(c) = [chat |-> frame[c].chat, base |-> frame[c].sess] /\ OpenOf(c)' = << >>
      BY <3>1 DEF OpenOf
    <3>4. /\ Open[c] = [chat |-> frame[c].chat, base |-> frame[c].sess]
          /\ Open' = [Open EXCEPT ![c] = << >>]
      BY <1>1, <3>3
    <3>5. Open[c].chat = frame[c].chat /\ Open[c].base = frame[c].sess /\ Open[c] # << >>
      BY <3>4, NotIdle
    <3>6. \A ch \in Chats \ {Open[c].chat} : store'[ch] = store[ch]
      BY <3>1, <3>5
    <3>7. Service!Extends(Open[c].chat, Open[c].base, store'[Open[c].chat])
      BY <3>2, <3>5
    <3>8. Service!Answer(c)
      BY <3>4, <3>5, <3>6, <3>7 DEF Service!Answer
    <3> QED BY <3>8 DEF Service!Next
  <2> QED BY <1>11, <2>1, <2>2, <2>3 DEF Finish
<1>12. ASSUME NEW ch \in Chats, DeleteSession(ch) PROVE Service!Next
  <2>1. store' = [store EXCEPT ![ch] = << >>] /\ Open' = Open
    BY <1>12 DEF DeleteSession, Open, OpenOf
  <2>2. Service!Delete(ch)
    BY <2>1 DEF Service!Delete
  <2> QED BY <2>2 DEF Service!Next
<1>13. CASE UNCHANGED <<store, pc, frame>>
  BY <1>2, <1>13 DEF OpenOf
<1> QED
  BY <1>5, <1>6, <1>7, <1>8, <1>9, <1>10, <1>11, <1>12, <1>13
     DEF Next, Step, Announce, RefreshPrompt, Done, vars

\* When requests come one at a time the whole request path (the shared agent,
\* its loop, tools, handoffs and summaries) implements ChatService: a request
\* extends the chat it was sent to by its own turn or changes nothing.
THEOREM OneClientImplementsService ==
    ASSUME NEW c, Clients = {c}
    PROVE  Spec => ServiceSpec
<1>1. Init => Owed(c) /\ Extending(c) /\ Service!Init
  BY DEF Init, Owed, NoFrame, NewFrame, Streaming, Extending, Replied, AtTools, Service!Init, Open
<1>2. TypeOK /\ Owed(c) /\ Extending(c) /\ [Next]_vars => Owed(c)' /\ Extending(c)'
  BY OwedStep, ExtendingStep
<1>3. TypeOK /\ TypeOK' /\ Extending(c) /\ [Next]_vars => [Service!Next]_<<store, Open>>
  BY OneClientMaps
<1> QED
  BY <1>1, <1>2, <1>3, TypeCorrect, PTL DEF Spec, ServiceSpec, Service!Spec
=============================================================================
