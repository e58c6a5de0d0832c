---------------------------- MODULE ProviderCalls ----------------------------
(***************************************************************************)
(* The answers of Gemini, one request at a time: one that is streamed, and   *)
(* one that goes back to it with the next request (GeminiProvider).          *)
(***************************************************************************)
EXTENDS Requests, GeminiProvider

CONSTANTS StreamRequests, BackRequests

-----------------------------------------------------------------------------
(* What Gemini may answer, and what a chat may hold.                        *)

AnswerPart ==
    [text : Seq(STRING), signature : STRING \cup {None}, call : STRING \cup {None}]

SavedMessage ==
    [role : {"system", "user", "assistant", "tool"}, content : Seq(STRING),
     signature : STRING \cup {None}, attachments : Seq(STRING),
     calls : Seq([id : STRING \X Nat, name : STRING]), responses : Seq(STRING)]

StreamRequest(frames, broken) == [op |-> "stream", frames |-> frames, broken |-> broken]

BackRequest(history, parts) == [op |-> "back", history |-> history, parts |-> parts]

ASSUME StreamsAssumption ==
    /\ None \notin Seq(AnswerPart)
    /\ \A r \in StreamRequests :
        /\ r.op = "stream" /\ r.broken \in BOOLEAN
        /\ r.frames \in Seq(Seq(AnswerPart) \cup {Malformed, NoCandidates})

ASSUME BacksAssumption ==
    \A r \in BackRequests :
        r.op = "back" /\ r.history \in Seq(SavedMessage) /\ r.parts \in Seq(AnswerPart)

-----------------------------------------------------------------------------
CallsInit ==
    /\ task \in StreamRequests \/ task \in BackRequests
    /\ answer = Pending

Stream == AnswerWith("stream", GenerateStream(task.frames, task.broken))

Complete == AnswerWith("back", Generate(task.parts))

CallsNext == Stream \/ Complete

CallsSpec == CallsInit /\ [][CallsNext]_requestVars

-----------------------------------------------------------------------------
\* A streamed answer is the answer, and an answer goes back whole.
AnswersKept ==
    /\ Answered("stream") => StreamedAsWhole(answer, task.frames, task.broken)
    /\ Answered("back") => AnswerGoesBack(answer, task.history)
=============================================================================
