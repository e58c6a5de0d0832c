----------------------------- MODULE Bootstrap -----------------------------
(***************************************************************************)
(* The market data of a request's first context, core/bootstrap.go: two     *)
(* searches run at once, and the request waits for both of them, but not     *)
(* longer than 30 seconds.                                                   *)
(***************************************************************************)
EXTENDS Naturals, Sequences, FiniteSets, SequencesExt

CONSTANT ChannelRoom    \* 2 in the code

Searches == {"google", "tavily"}

\* What a search returns, by how it begins: found, or an error, or nothing.
Results == {"found", "error", "empty"}

VARIABLES
    search,     \* of each search: running, sending or over, and its result
    resultsCh,
    timedOut,    \* the 30 seconds are over
    collector   \* how many answers the request waited for, what it has, if it is done

bootVars == <<search, resultsCh, timedOut, collector>>

Sent == [source : Searches, result : Results]

BootTypeOK ==
    /\ search \in [Searches -> [at : {"running", "sending", "over"}, result : Results]]
    /\ resultsCh \in Seq(Sent) /\ Len(resultsCh) <= ChannelRoom
    /\ timedOut \in BOOLEAN
    /\ collector \in [waited : 0 .. 2, has : [Searches -> Results], done : BOOLEAN, context : Seq(Searches)]

BootInit ==
    /\ search = [s \in Searches |-> [at |-> "running", result |-> "empty"]]
    /\ resultsCh = << >>
    /\ timedOut = FALSE
    /\ collector = [waited |-> 0, has |-> [s \in Searches |-> "empty"], done |-> FALSE, context |-> << >>]

\* The search knows nothing of the 30 seconds; it has timeouts of its own.
Find(s) ==
    /\ search[s].at = "running"
    /\ \E result \in Results : search' = [search EXCEPT ![s] = [at |-> "sending", result |-> result]]
    /\ UNCHANGED <<resultsCh, timedOut, collector>>

Send(s) ==
    /\ search[s].at = "sending"
    /\ Len(resultsCh) < ChannelRoom
    /\ resultsCh' = Append(resultsCh, [source |-> s, result |-> search[s].result])
    /\ search' = [search EXCEPT ![s].at = "over"]
    /\ UNCHANGED <<timedOut, collector>>

\* The context is over: its time is up, or the request has returned (cancel).
CtxDone == timedOut \/ collector.done

Abandon(s) ==
    /\ search[s].at = "sending"
    /\ CtxDone
    /\ search' = [search EXCEPT ![s].at = "over"]
    /\ UNCHANGED <<resultsCh, timedOut, collector>>

TimeOut ==
    /\ ~timedOut /\ ~collector.done
    /\ timedOut' = TRUE
    /\ UNCHANGED <<search, resultsCh, collector>>

\* (Mutant: an answer is filed by its turn.)
FiledByTurn(sent) == IF collector.waited = 0 THEN "google" ELSE "tavily"
FiledUnder(sent) == sent.source

Receive ==
    /\ collector.waited < 2
    /\ resultsCh # << >>
    /\ collector' = [collector EXCEPT !.waited = @ + 1,
                                      !.has[FiledUnder(Head(resultsCh))] = Head(resultsCh).result]
    /\ resultsCh' = Tail(resultsCh)
    /\ UNCHANGED <<search, timedOut>>

\* (Mutant: the request waits for both searches.)
WaitForBoth == FALSE /\ UNCHANGED bootVars
StopWaiting ==
    /\ collector.waited < 2
    /\ timedOut
    /\ collector' = [collector EXCEPT !.waited = 2]
    /\ UNCHANGED <<search, resultsCh, timedOut>>

\* The part of the context that a search gives: none where it failed.
Part(s) == IF collector.has[s] = "found" THEN <<s>> ELSE << >>
combinedResults == Part("google") \o Part("tavily")

Finish ==
    /\ collector.waited = 2
    /\ ~collector.done
    /\ collector' = [collector EXCEPT !.done = TRUE, !.context = combinedResults]
    /\ UNCHANGED <<search, resultsCh, timedOut>>

BootNext ==
    \/ \E s \in Searches : Find(s)
    \/ \E s \in Searches : Send(s)
    \/ \E s \in Searches : Abandon(s)
    \/ TimeOut
    \/ Receive
    \/ StopWaiting
    \/ Finish

\* Goroutines go on and 30 seconds end; a search need not.
BootFairness ==
    /\ \A s \in Searches : WF_bootVars(Send(s) \/ Abandon(s))
    /\ WF_bootVars(TimeOut) /\ WF_bootVars(Receive \/ StopWaiting) /\ WF_bootVars(Finish)

BootSpec == BootInit /\ [][BootNext]_bootVars /\ BootFairness

-----------------------------------------------------------------------------
\* The context holds what each search found under the name of that search, in one
\* order whichever came first, and without the 30 seconds passing nothing that
\* was found is missing.
ContextComplete ==
    collector.done =>
        /\ \A s \in ToSet(collector.context) : search[s].result = "found"
        /\ collector.context \in {<< >>, <<"google">>, <<"tavily">>, <<"google", "tavily">>}
        /\ ~timedOut => \A s \in Searches : search[s].result = "found" => s \in ToSet(collector.context)

\* The request goes on though a search hangs, and a search that does end is not
\* left waiting for a request that has gone.
SearchesLetGo ==
    /\ <>collector.done
    /\ \A s \in Searches : search[s].at = "sending" ~> search[s].at = "over"
=============================================================================
