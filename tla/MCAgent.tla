------------------------------ MODULE MCAgent ------------------------------
(***************************************************************************)
(* What TLC needs to check Agent: a few inputs and replies that reach every *)
(* branch of the request path.                                             *)
(***************************************************************************)
EXTENDS Agent

Input(kind, research, calc, digits) ==
    [kind |-> kind, research |-> research, calc |-> calc,
     realtime |-> FALSE, digits |-> digits]

ReplyOf(calls, text, dated) == [calls |-> calls, text |-> text, dated |-> dated]

Greeting == Input("greeting", FALSE, FALSE, FALSE)
Plain    == Input("text", FALSE, FALSE, FALSE)
Research == Input("text", TRUE, FALSE, TRUE)
Command  == Input("slash", FALSE, TRUE, FALSE)
Typo     == Input("unknown", FALSE, FALSE, FALSE)

Final      == ReplyOf(<< >>, TRUE, FALSE)
DatedFinal == ReplyOf(<< >>, TRUE, TRUE)
Empty      == ReplyOf(<< >>, FALSE, FALSE)
Search     == ReplyOf(<<"search">>, TRUE, FALSE)
Calculate  == ReplyOf(<<"other", "calculate">>, TRUE, TRUE)
Handoff    == ReplyOf(<<"handoff">>, FALSE, FALSE)

SerialInputs  == {Research, Command, Typo}
SerialReplies == {Final, DatedFinal, Empty, Search, Calculate, Handoff}

SmallInputs  == {Plain}
GreetingOnly == {Greeting}
ConcurrentInputs == {Plain, Command}
SmallReplies == {Final, Handoff}
=============================================================================
