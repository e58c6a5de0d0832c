--------------------------- MODULE ContextWindow ---------------------------
(***************************************************************************)
(* The conversation's message type and the pure parts of                   *)
(* core/context_window.go: what the model is shown (BuildLLMHistory), when *)
(* old messages are condensed (ShouldSummarize) and which messages one     *)
(* condensation covers (SummarizeOldest); and the rule on required tools   *)
(* of core/dispatcher.go, which reads the same history.                    *)
(*                                                                         *)
(* The text of a message is abstracted to what the properties tell apart:  *)
(* who wrote it, for which chat, and which tools it calls or answers.      *)
(***************************************************************************)
EXTENDS Naturals, Sequences

CONSTANTS
    Chats,        \* chat ids
    KeepRecent    \* CONTEXT_KEEP_RECENT, 7 by default

ASSUME KeepRecentAssumption == KeepRecent \in Nat

\* The registered tools, as far as the control flow tells them apart:
\* "search" stands for financial_research and tavily_search, "handoff" for a
\* handoff_request with all its arguments, "other" for the rest, calls that fail
\* included.
Tools == {"search", "calculate", "handoff", "other"}

\* "user": what the user typed.  "context": the bootstrap payload (a hidden
\* user message).  "assistant": a model reply.  "warned": the same reply
\* appended again with a warning about dates.  "rejected": the system's
\* notice that a required tool was not called.  "tool": one tool response.
Kinds == {"user", "context", "assistant", "warned", "rejected", "tool"}

Message == [kind : Kinds, chat : Chats, calls : Seq(Tools)]

Said(kind, chat, calls) == [kind |-> kind, chat |-> chat, calls |-> calls]
ToolResponse(chat, tool) == Said("tool", chat, <<tool>>)

-----------------------------------------------------------------------------
(* What a provider request shows of the conversation.                      *)

\* The first two messages are always shown: normally the user's question
\* and the bootstrap payload.
ProtectedCount(h) == IF Len(h) < 2 THEN Len(h) ELSE 2

\* Where the recent part starts (the number of messages before it).
RecentStart(h) ==
    LET start == IF Len(h) > KeepRecent THEN Len(h) - KeepRecent ELSE 0
    IN  IF start < ProtectedCount(h) THEN ProtectedCount(h) ELSE start

EmptyView == [summary |-> << >>, messages |-> << >>]

\* An empty history shows nothing, not even a summary.
BuildLLMHistory(h, summary) ==
    IF h = << >>
    THEN EmptyView
    ELSE [summary  |-> summary,
          messages |-> SubSeq(h, 1, ProtectedCount(h))
                         \o SubSeq(h, RecentStart(h) + 1, Len(h))]

-----------------------------------------------------------------------------
(* When and what to condense.                                              *)

\* ShouldSummarize answers FALSE below this length whatever the estimate of
\* tokens; above it the estimate, a function of the text, decides.
LongEnough(h) == Len(h) > KeepRecent + 2

\* SummarizeOldest condenses the messages summarized + 1 .. SummaryEnd(h).
SummaryEnd(h) == IF Len(h) <= KeepRecent THEN 0 ELSE Len(h) - KeepRecent

-----------------------------------------------------------------------------
(* The rule on required tools (Dispatcher.ValidateRequiredToolUsage).      *)

\* The tools an assistant message of the history has called.
CalledIn(h) ==
    UNION { {h[i].calls[j] : j \in DOMAIN h[i].calls} :
               i \in {k \in DOMAIN h : h[k].kind \in {"assistant", "warned"}} }

\* What is known of the text that userInput holds: how it was typed, and which
\* keywords it contains.  (Of a slash command it holds the arguments.)
Inputs ==
    [kind : {"text", "greeting", "slash", "unknown"},
     research : BOOLEAN, calc : BOOLEAN, realtime : BOOLEAN, digits : BOOLEAN]

RequiredToolsUsed(input, calls, h) ==
    LET used == {calls[j] : j \in DOMAIN calls} \cup CalledIn(h) IN
    /\ input.research /\ ~input.realtime =>
          \/ "search" \in used
          \/ "calculate" \in used /\ input.digits
    /\ input.calc => "calculate" \in used
=============================================================================
