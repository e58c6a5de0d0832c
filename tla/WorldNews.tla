----------------------------- MODULE WorldNews -----------------------------
(***************************************************************************)
(* The morning report, worldnews/service.go and worldnews/stocks.go: a      *)
(* report is served from the cache or built by the reader that asks.  A     *)
(* builder starts one worker per stock, waits for all of them, empties      *)
(* their channel into tabs, and goes on alone: futures, news, key numbers,  *)
(* summary.  What a price or a headline is: NewsQuotes, NewsFeeds.          *)
(***************************************************************************)
EXTENDS Integers, Sequences, FiniteSets, SequencesExt, Loops

CONSTANTS
    Readers, Dates,
    WorldStockTabDefs,      \* the tabs, each a sequence of symbols
    SP500,                  \* the symbol no report goes without
    CacheTTL, MaxBuild, MaxTime

\* What a sequence of sequences of symbols shows.
Shown(tabs) == UNION {ToSet(tabs[i]) : i \in DOMAIN tabs}
Symbols == Shown(WorldStockTabDefs)

\* No symbol is in two tabs, or in one tab twice.
ASSUME WorldNewsAssumption ==
    /\ SP500 \in Symbols
    /\ WorldStockTabDefs \in Seq(Seq(Symbols))
    /\ \A i, j \in DOMAIN WorldStockTabDefs :
         \A k \in DOMAIN WorldStockTabDefs[i], l \in DOMAIN WorldStockTabDefs[j] :
            WorldStockTabDefs[i][k] = WorldStockTabDefs[j][l] => i = j /\ k = l

ASSUME NewsTimesAssumption == CacheTTL \in Nat \ {0} /\ MaxBuild \in Nat /\ MaxTime \in Nat

VARIABLES
    now, cache,
    reader,     \* where each reader is, with what it has built so far
    worker,     \* the symbols whose worker has not answered yet
    channel     \* what a builder's workers have sent

vars == <<now, cache, reader, worker, channel>>

\* A worker's answer: some service had a quote, or none had.
Answer == [symbol : Symbols, quoted : BOOLEAN]

\* `asked`: when its building began.
Report == [date : Dates, asked : 0 .. MaxTime, tabs : Seq(Seq(Symbols))]
Entry == [report : Report, expires : Nat]
Nothing == [none |-> TRUE]

Phases == {"idle", "stocks", "futures", "numbers", "built", "answered"}
Reader == [phase : Phases, since : 0 .. MaxTime, ok : BOOLEAN, report : Report]

Blank(d) == [date |-> d, asked |-> 0, tabs |-> << >>]

Idle(d) == [phase |-> "idle", since |-> 0, ok |-> FALSE, report |-> Blank(d)]

\* Nobody looks at the parts of a report once it is stored: whose it is and when
\* its building began stand for it.
Stored(report) == [Blank(report.date) EXCEPT !.asked = report.asked]

Init ==
    /\ now = 0
    /\ cache = [d \in Dates |-> Nothing]
    /\ reader \in [Readers -> {Idle(d) : d \in Dates}]
    /\ worker = [r \in Readers |-> {}]
    /\ channel = [r \in Readers |-> << >>]

TypeOK ==
    /\ now \in 0 .. MaxTime
    /\ cache \in [Dates -> Entry \cup {Nothing}]
    /\ \A d \in Dates : cache[d] # Nothing => cache[d].report.date = d
    /\ reader \in [Readers -> Reader]
    /\ worker \in [Readers -> SUBSET Symbols]
    /\ channel \in [Readers -> Seq(Answer)]
    /\ \A r \in Readers :
         worker[r] # {} \/ channel[r] # << >> => reader[r].phase = "stocks"

\* An error returns at once: "answered", and not ok.
Goto(r, phase, report) ==
    reader' = [reader EXCEPT ![r] =
        [@ EXCEPT !.phase = phase, !.report = report, !.ok = (phase = "built")]]

-----------------------------------------------------------------------------
(* GetReport                                                                *)

Live(d) == cache[d] # Nothing /\ now < cache[d].expires

Cached(r, d) ==
    /\ reader[r].phase = "idle"
    /\ Live(d)
    /\ reader' = [reader EXCEPT ![r] =
            [phase |-> "answered", since |-> now, ok |-> TRUE, report |-> cache[d].report]]
    /\ UNCHANGED <<now, cache, worker, channel>>

buildReport(r, d) ==
    /\ reader[r].phase = "idle"
    /\ ~Live(d)
    /\ reader' = [reader EXCEPT ![r] =
            [phase |-> "stocks", since |-> now, ok |-> FALSE, report |-> [Blank(d) EXCEPT !.asked = now]]]
    /\ worker' = [worker EXCEPT ![r] = Symbols]
    /\ UNCHANGED <<now, cache, channel>>

-----------------------------------------------------------------------------
(* fetchWorldStockQuotes                                                    *)

\* The mutant's channel holds one answer per tab.
ChannelPerTab == Len(WorldStockTabDefs)
ChannelSize == Cardinality(Symbols)

\* CNBC is asked, then Yahoo if it fails; both may fail.
Send(r, s) ==
    /\ s \in worker[r]
    /\ Len(channel[r]) < ChannelSize
    /\ \E quoted \in BOOLEAN :
         channel' = [channel EXCEPT ![r] = Append(@, [symbol |-> s, quoted |-> quoted])]
    /\ worker' = [worker EXCEPT ![r] = @ \ {s}]
    /\ UNCHANGED <<now, cache, reader>>

Quoted(sent) == {a.symbol : a \in {b \in ToSet(sent) : b.quoted}}

\* One tab per definition that has a quote, its instruments as defined.
\* (Mutant: as they arrived.)
TabsAsArrived(sent) ==
    LET arrived == [k \in DOMAIN sent |-> sent[k].symbol]
        all == [i \in DOMAIN WorldStockTabDefs |->
                   Kept(arrived, {k \in DOMAIN sent : sent[k].quoted /\
                                     arrived[k] \in ToSet(WorldStockTabDefs[i])})]
    IN  Kept(all, {i \in DOMAIN all : all[i] # << >>})
Instruments(def, quoted) == Kept(def, {k \in DOMAIN def : def[k] \in quoted})
Tabs(sent) ==
    LET all == [i \in DOMAIN WorldStockTabDefs |-> Instruments(WorldStockTabDefs[i], Quoted(sent))]
    IN  Kept(all, {i \in DOMAIN all : all[i] # << >>})

\* (Mutant: the first answer ends the wait.)
FirstAnswer(r) == channel[r] # << >>
AllAnswers(r) == worker[r] = {}

\* wg.Wait, then the channel is emptied.  No report without the S&P 500.
Gather(r) ==
    /\ reader[r].phase = "stocks"
    /\ AllAnswers(r)
    /\ IF SP500 \in Quoted(channel[r])
       THEN Goto(r, "futures", [reader[r].report EXCEPT !.tabs = Tabs(channel[r])])
       ELSE Goto(r, "answered", reader[r].report)
    /\ channel' = [channel EXCEPT ![r] = << >>]
    /\ UNCHANGED <<now, cache, worker>>

-----------------------------------------------------------------------------
(* The rest of buildReport, by one goroutine.                               *)

\* No report without WTI.  WTI stands in for Brent; gold and DXY may be missing.
fetchFutures(r) ==
    /\ reader[r].phase = "futures"
    /\ \/ Goto(r, "answered", Stored(reader[r].report))
       \/ Goto(r, "numbers", reader[r].report)
    /\ UNCHANGED <<now, cache, worker, channel>>

\* News, key numbers, summary: each request has a fallback of its own, for a key
\* number a quote the report has already, so none of their failures is an error.
FinishReport(r) ==
    /\ reader[r].phase = "numbers"
    /\ Goto(r, "built", reader[r].report)
    /\ UNCHANGED <<now, cache, worker, channel>>

\* (Mutant: a report that is there already stays, for another five minutes.)
Prolong(d, report) ==
    [report |-> IF cache[d] = Nothing THEN Stored(report) ELSE cache[d].report,
     expires |-> now + CacheTTL]
NewEntry(d, report) == [report |-> Stored(report), expires |-> now + CacheTTL]

Store(r) ==
    /\ reader[r].phase = "built"
    /\ LET report == reader[r].report
       IN  cache' = [cache EXCEPT ![report.date] = NewEntry(report.date, report)]
    /\ reader' = [reader EXCEPT ![r].phase = "answered", ![r].report = Stored(@)]
    /\ UNCHANGED <<now, worker, channel>>

\* The reply is written; the reader may ask again.
Reply(r) ==
    /\ reader[r].phase = "answered"
    /\ reader' = [reader EXCEPT ![r] = Idle(reader[r].report.date)]
    /\ UNCHANGED <<now, cache, worker, channel>>

\* Every request a builder makes has a timeout.
Tick ==
    /\ now < MaxTime
    /\ \A r \in Readers :
         reader[r].phase \in Phases \ {"idle", "answered"} => now < reader[r].since + MaxBuild
    /\ now' = now + 1
    /\ UNCHANGED <<cache, reader, worker, channel>>

GetReport(r) ==
    \/ \E d \in Dates : Cached(r, d)
    \/ \E d \in Dates : buildReport(r, d)

Work(r) ==
    \/ \E s \in Symbols : Send(r, s)
    \/ Gather(r)
    \/ fetchFutures(r)
    \/ FinishReport(r)
    \/ Store(r)
    \/ Reply(r)

Next ==
    \/ \E r \in Readers : GetReport(r)
    \/ \E r \in Readers : Work(r)
    \/ Tick

\* A builder and its workers are goroutines: each goes on.
Spec == Init /\ [][Next]_vars /\ \A r \in Readers : WF_vars(Work(r))

-----------------------------------------------------------------------------
\* Where a symbol is defined: the number of its tab and its place there.
SameTab(s, t) ==
    \E i \in DOMAIN WorldStockTabDefs : {s, t} \subseteq ToSet(WorldStockTabDefs[i])
DefinedBefore(s, t) ==
    \E i, j \in DOMAIN WorldStockTabDefs :
        \E k \in DOMAIN WorldStockTabDefs[i], l \in DOMAIN WorldStockTabDefs[j] :
            /\ s = WorldStockTabDefs[i][k] /\ t = WorldStockTabDefs[j][l]
            /\ i < j \/ (i = j /\ k < l)

\* Workers finish in any order, and some with nothing: the S&P 500 is always
\* there, no tab is empty, what one definition lists is in one tab, and nothing
\* else is, and all is in the order of the definitions, so none twice.
TabsInOrder ==
    \A r \in Readers : reader[r].phase \in {"futures", "numbers", "built"} =>
      LET tabs == reader[r].report.tabs
      IN  /\ SP500 \in Shown(tabs)
          /\ \A i \in DOMAIN tabs : tabs[i] # << >>
          /\ \A i, j \in DOMAIN tabs : \A k \in DOMAIN tabs[i], l \in DOMAIN tabs[j] :
               /\ SameTab(tabs[i][k], tabs[j][l]) <=> i = j
               /\ i < j \/ (i = j /\ k < l) => DefinedBefore(tabs[i][k], tabs[j][l])

\* Whoever asks for a report gets it or an error.
EveryReaderAnswered ==
    \A r \in Readers : reader[r].phase = "stocks" ~> reader[r].phase = "idle"

\* A reader is served as by a read-through cache that keeps no failure.
AnswerOf(r) == [key |-> reader[r].report.date, asked |-> reader[r].report.asked, ok |-> reader[r].ok]
ReadThrough == INSTANCE ReadThrough WITH
    Keys <- Dates, Callers <- Readers, TTL <- CacheTTL, MaxFetch <- MaxBuild, KeepsFailure <- {},
    cache <- [d \in Dates |->
        IF cache[d] = Nothing THEN Nothing
        ELSE [answer |-> [key |-> d, asked |-> cache[d].report.asked, ok |-> TRUE],
              expires |-> cache[d].expires]],
    call <- [r \in Readers |->
        [phase |-> CASE reader[r].phase \in {"idle", "answered"} -> reader[r].phase
                     [] reader[r].phase = "built" -> "fetched"
                     [] OTHER -> "fetching",
         key |-> reader[r].report.date, since |-> reader[r].since, answer |-> AnswerOf(r)]]

ImplementsReadThrough == ReadThrough!Spec
=============================================================================
