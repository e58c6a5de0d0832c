------------------------------ MODULE Contents ------------------------------
(***************************************************************************)
(* The contents of a bulletin, one request at a time: the news of a section *)
(* (NewsFeeds), a quote of Yahoo, and of CNBC a stock or a key number        *)
(* (NewsQuotes).                                                            *)
(* A request comes with what the services answer to it.                     *)
(***************************************************************************)
EXTENDS Requests, NewsFeeds, NewsQuotes

CONSTANTS SectionRequests, QuoteRequests, NumberRequests

-----------------------------------------------------------------------------
(* What the services may answer.                                            *)

SectionRequest(section, day, feeds, queries, answers) ==
    [op |-> "section", section |-> section, day |-> day, feeds |-> feeds,
     queries |-> queries, answers |-> answers]

\* A feed answers with its entries, a search with those that it finds.
Asked(sources, answers) ==
    /\ sources \in Seq(FeedSource)
    /\ answers \in Seq(Seq(PublishedEntry))
    /\ Len(answers) = Len(sources)

ASSUME SectionsAssumption ==
    \A r \in SectionRequests :
        /\ r.op = "section" /\ r.section \in Sections /\ r.day \in Int
        /\ Asked(r.feeds, r.answers[1])
        /\ Asked(r.queries, r.answers[2])

QuoteRequest(day, equity, halfHours, days) ==
    [op |-> "quote", day |-> day, equity |-> equity, halfHours |-> halfHours, days |-> days]

\* Bars in the order of their time; the price before them is older, and the
\* market price of an index or a stock is the latest price there is.
ChartOf(chart, equity, cutoff) ==
    /\ chart.bars \in Seq([at : Int, closed : BOOLEAN])
    /\ chart.rm \in Int \cup {NoTime}
    /\ chart.before \in Int \cup {NoTime}
    /\ \A i, j \in DOMAIN chart.bars : i < j => chart.bars[i].at < chart.bars[j].at
    /\ chart.before # NoTime => \A i \in DOMAIN chart.bars : chart.before <= chart.bars[i].at
    /\ equity /\ chart.rm # NoTime /\ chart.rm <= cutoff =>
          \A i \in DOMAIN chart.bars :
            chart.bars[i].closed /\ chart.bars[i].at <= cutoff => chart.bars[i].at <= chart.rm

Snapshots == [price : Int, prev : Int, time : Int, points : Seq(Int), labels : Seq(Int)]

ASSUME QuotesAssumption ==
    /\ Failed \notin Snapshots
    /\ \A r \in QuoteRequests :
        /\ r.op = "quote" /\ r.day \in Int /\ r.equity \in BOOLEAN
        /\ ChartOf(r.halfHours, r.equity, morningDigestWindow(r.day).until)
        /\ ChartOf(r.days, r.equity, morningDigestWindow(r.day).until)

\* A stock or an index of the tabs, the key number of gold, or another key number.
Kinds == {"stock", "gold", "key"}

NumberRequest(day, kind, bodies, minutes) ==
    [op |-> "number", day |-> day, kind |-> kind, bodies |-> bodies, minutes |-> minutes]

FormattedQuote ==
    [last : Int \cup {Failed}, lastTime : [kind : {"none", "day", "at"}, value : Int],
     change : Int \cup {Failed}, prev : Int, open : Int, low : Int, high : Int]

ASSUME NumbersAssumption ==
    /\ Failed \notin Int
    /\ \A r \in NumberRequests :
        /\ r.op = "number" /\ r.day \in Int /\ r.kind \in Kinds
        /\ r.bodies \in Seq([formatted : FormattedQuote \cup {Failed},
                             quick : FormattedQuote \cup {Failed}])
        /\ r.minutes.bars \in Seq([at : Int, closed : BOOLEAN])

-----------------------------------------------------------------------------
ContentsInit ==
    /\ \/ task \in SectionRequests
       \/ task \in QuoteRequests
       \/ task \in NumberRequests
    /\ answer = Pending

Window(r) == morningDigestWindow(r.day)

GetSection ==
    AnswerWith("section", SectionNews(task.section, task.feeds, task.queries, task.answers, Window(task)))

GetQuote == AnswerWith("quote", fetchQuote(task.halfHours, task.days, task.equity, task.day))

GetStock ==
    /\ task.op = "number" /\ task.kind = "stock"
    /\ AnswerWith("number", fetchCNBCStockQuote(task.bodies, task.day))

GetKeyNumber ==
    /\ task.op = "number" /\ task.kind # "stock"
    /\ AnswerWith("number",
                  fetchCNBCKeyNumber(task.bodies, task.minutes, task.kind = "gold", task.day))

ContentsNext == GetSection \/ GetQuote \/ GetStock \/ GetKeyNumber

ContentsSpec == ContentsInit /\ [][ContentsNext]_requestVars

-----------------------------------------------------------------------------
\* The news of a section are of its day and of its publishers, none twice in the
\* stock section, the newest first where they are sorted.
SectionsSound == Answered("section") => SectionSound(task.section, answer, Window(task))

\* A section is short of news only when feeds and archive have no more, and its
\* images are looked for in its order until enough are found.
NewsComplete ==
    Answered("section") =>
        LET fresh == filterNewsBetween(Read(task.feeds, task.answers[1]), Window(task))
            found == filterNewsBetween(Read(task.queries, task.answers[2]), Window(task))
            items == SectionItems(task.section, task.feeds, task.queries, task.answers, Window(task))
        IN  /\ NothingMissing(task.section, answer, fresh, found)
            /\ ImagesSpentInOrder(answer, items, ImageLimit(task.section))

\* What Yahoo's charts give, the prices, their times and the axes of their charts,
\* is from before the cutoff: no price of today is taken for one of the session.
YahooBeforeCutoff ==
    Answered("quote") /\ answer # Failed =>
        QuoteBeforeCutoff(answer, task.halfHours, task.days, task.equity, task.day)

\* What CNBC's quotes become has a time from before the cutoff; where the price of
\* gold comes too late it is replaced with its change, its time and its line.
NumbersAtCutoff ==
    Answered("number") /\ answer # Failed =>
        NumberAtCutoff(answer, fetchCNBCFormattedQuote(task.bodies), task.minutes, task.kind, task.day)

\* Violated: the prices of CNBC that nothing replaces, of stocks, Brent and the S&P
\* 500, are from before 07:00, as the data line of a bulletin says (service.go:166).
PricesBeforeCutoff ==
    Answered("number") /\ answer # Failed /\ task.kind # "gold" =>
        answer.price <= Window(task).until
=============================================================================
