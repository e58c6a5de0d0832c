--------------------------- MODULE GeminiProvider ---------------------------
(***************************************************************************)
(* Talking to Gemini: providers/gemini.go.                                 *)
(*                                                                         *)
(* A message has a role, a text, a thought signature, attachments (their    *)
(* kinds), tool calls (id and name) and tool responses (the names).  A text *)
(* is a sequence of tokens, so that putting texts together is \o; a part of *)
(* an answer is a text, a signature and the name of the tool it calls,      *)
(* where None means that it has none.  An answer is streamed as a sequence  *)
(* of frames: a sequence of parts (of the first candidate), NoCandidates or *)
(* Malformed.                                                               *)
(***************************************************************************)
EXTENDS Integers, Loops, SequencesExt

CONSTANTS None, NoCandidates, Malformed

-----------------------------------------------------------------------------
(* The request.                                                             *)

SupportedKinds == {"image", "video", "audio", "pdf", "text"}
isGeminiSupportedMime(kind) == kind \in SupportedKinds

Part(kind, what, signature) == [kind |-> kind, what |-> what, signature |-> signature]

MapSeq(Op(_), s) == [i \in DOMAIN s |-> Op(s[i])]

TextParts(msg) ==
    IF msg.content = <<>> THEN <<>> ELSE <<Part("text", msg.content, msg.signature)>>

AttachmentParts(msg) ==
    MapSeq(LAMBDA kind : IF isGeminiSupportedMime(kind) THEN Part("data", kind, None)
                         ELSE Part("note", kind, None),
           msg.attachments)

CallParts(msg) ==
    MapSeq(LAMBDA call : Part("call", call.name, msg.signature), msg.calls)

\* A signature that neither a text nor a call carries goes alone.
LoneSignature(msg) ==
    IF msg.content = <<>> /\ msg.calls = <<>> /\ msg.signature # None
    THEN <<Part("signature", None, msg.signature)>> ELSE <<>>

ResponseParts(msg) == MapSeq(LAMBDA name : Part("response", name, None), msg.responses)

PartsOf(msg) ==
    TextParts(msg) \o AttachmentParts(msg) \o CallParts(msg) \o LoneSignature(msg)
    \o ResponseParts(msg)

GeminiRole(role) ==
    CASE role = "assistant" -> "model" [] role = "tool" -> "tool" [] OTHER -> "user"

\* (Written twice in the code, for Generate and for GenerateStream.)
GeminiRequest(history) ==
    LET IsSystem(msg) == msg.role = "system"
        others == Where(history, LAMBDA msg : ~IsSystem(msg))
    IN  [system |-> MapSeq(LAMBDA msg : msg.content, Where(history, IsSystem)),
         contents |-> MapSeq(LAMBDA msg : [role |-> GeminiRole(msg.role), parts |-> PartsOf(msg)],
                             others)]

-----------------------------------------------------------------------------
(* The answer.                                                              *)

NoReply == [text |-> <<>>, signature |-> None, calls |-> <<>>]

\* The id of a call is its tool's name and its number in the answer.
AddCall(calls, name) ==
    IF name = None THEN calls ELSE Append(calls, [id |-> <<name, Len(calls)>>, name |-> name])

AddPart(reply, part) ==
    [text |-> reply.text \o part.text,
     signature |-> IF part.signature = None THEN reply.signature ELSE part.signature,
     calls |-> AddCall(reply.calls, part.call)]

\* Generate: one body, None where there is an error or no candidate.
Generate(parts) == IF parts = None THEN None ELSE FoldLeft(AddPart, NoReply, parts)

\* GenerateStream: what the caller has been given so far (chunks), and what has
\* been put together for the last chunk.
Unread == [chunks |-> <<>>, reply |-> NoReply]

ReadPart(stream, part) ==
    [chunks |-> IF part.text = <<>> THEN stream.chunks
                ELSE Append(stream.chunks, [text |-> part.text, signature |-> part.signature]),
     reply |-> AddPart(stream.reply, part)]

\* (Mutant: a frame starts the calls again.)
ReadFrameAnew(stream, frame) ==
    IF frame \in {Malformed, NoCandidates} THEN stream
    ELSE FoldLeft(ReadPart, [stream EXCEPT !.reply.calls = <<>>], frame)
\* A frame that cannot be read is passed over.
ReadFrame(stream, frame) ==
    IF frame \in {Malformed, NoCandidates} THEN stream
    ELSE FoldLeft(ReadPart, stream, frame)

\* A line that is too long, or a connection that breaks, is an error: no last
\* chunk.  A connection that just ends is the end of the answer.
GenerateStream(frames, broken) ==
    LET read == FoldLeft(ReadFrame, Unread, frames)
    IN  [chunks |-> read.chunks, done |-> IF broken THEN None ELSE read.reply]

-----------------------------------------------------------------------------
MessageOf(reply) ==
    [role |-> "assistant", content |-> reply.text, signature |-> reply.signature,
     attachments |-> <<>>, calls |-> reply.calls, responses |-> <<>>]

\* However an answer is cut into frames, what has been shown piece by piece is the
\* text that is saved, text and calls are those of the same answer not streamed,
\* and no two calls have one id.  What is lost is what was in a frame that cannot
\* be read, and nothing tells that it is.
StreamedAsWhole(stream, frames, broken) ==
    LET readable == Where(frames, LAMBDA f : f \notin {Malformed, NoCandidates})
        whole == Generate(FlattenSeq(readable))
    IN  /\ FlattenSeq(MapSeq(LAMBDA c : c.text, stream.chunks)) = whole.text
        /\ broken \/ stream.done = whole
        /\ IsInjective(MapSeq(LAMBDA c : c.id, whole.calls))

\* An answer that goes back to Gemini in the next request has its text and its
\* calls in it, in their order, and its signature if it had one; and the results
\* of the calls come after it.
AnswerGoesBack(reply, history) ==
    LET names == MapSeq(LAMBDA c : c.name, reply.calls)
        results == [role |-> "tool", content |-> <<>>, signature |-> None,
                    attachments |-> <<>>, calls |-> <<>>, responses |-> names]
        sent == GeminiRequest(history \o <<MessageOf(reply), results>>)
        Sent(i, kind) ==
            MapSeq(LAMBDA p : p.what,
                   Where(sent.contents[i].parts, LAMBDA p : p.kind = kind))
        n == Len(sent.contents)
    IN  /\ n = Len(Where(history, LAMBDA msg : msg.role # "system")) + 2
        /\ Len(sent.system) = Len(history) - (n - 2)
        /\ sent.contents[n - 1].role = "model" /\ sent.contents[n].role = "tool"
        /\ FlattenSeq(Sent(n - 1, "text")) = reply.text
        /\ Sent(n - 1, "call") = names
        /\ Sent(n, "response") = names
        /\ reply.signature # None =>
              \E i \in DOMAIN sent.contents[n - 1].parts :
                  sent.contents[n - 1].parts[i].signature = reply.signature
=============================================================================
