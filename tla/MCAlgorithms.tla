----------------------------- MODULE MCAlgorithms -----------------------------
(***************************************************************************)
(* Runs the functions of the news service, of the provider and of the       *)
(* calculator on all the inputs of a small set: a task is given at the      *)
(* start, and its function answers it.  One task is to follow the bulletins  *)
(* that are asked for while the clock runs.                                 *)
(***************************************************************************)
EXTENDS Bulletin, Contents, ProviderCalls, NewsSummary

CONSTANTS Invalid

Calculator == INSTANCE Evaluator
Template == INSTANCE NewsSummary WITH HighlightSummaryMinWords <- 9, HighlightSummaryMaxWords <- 12

UpTo(n, S) == UNION {[1 .. k -> S] : k \in 0 .. n}

-----------------------------------------------------------------------------
(* Three weeks from a Monday, summer in New York from the first Sunday to   *)
(* the second: around seven in the morning and midnight in Vietnam, and      *)
(* twelve hours from there.                                                  *)

MCSummerFrom == 6 * 1440 + 7 * 60
MCSummerTo == 13 * 1440 + 6 * 60

MCFirstInstants == {-1, 0, 17 * 60 - 1, 17 * 60}
MCPauses == {720}
MCLastInstant == 20 * 1440

FollowBulletins == [op |-> "bulletin"]

-----------------------------------------------------------------------------
(* News of day 8.                                                           *)

SectionDay == 8
DayWindow == morningDigestWindow(SectionDay)

Feed(name, kind, format) == [name |-> name, kind |-> kind, format |-> format]

Feeds(section) ==
    CASE section = "stocks" -> <<Feed("CNBC", "stocks", "rss"), Feed("Reuters", "stocks", "rss")>>
      [] section = "vietnam" -> <<Feed("VNeconomy", "vietnam", "rss"), Feed("Vietstock", "vietnam", "atom")>>
      [] section = "breaking" -> <<Feed("CNBC", "global", "rss"), Feed("Bloomberg", "breaking", "rss")>>
      [] section = "vtv" -> <<Feed("VTVIndex", "vtv", "rss")>>

Queries(section) ==
    CASE section = "stocks" -> <<Feed("Google", "stocks", "rss")>>
      [] section = "vietnam" -> <<Feed("Google", "breaking", "rss"), Feed("Google", "vietnam", "rss")>>
      [] section = "breaking" -> <<Feed("Google", "breaking", "rss"), Feed("Google", "breaking", "rss")>>
      [] section = "vtv" -> <<Feed("Google", "vtv", "rss")>>

Entry(story, suffix, about, date, link, source, image, page) ==
    [story |-> story, suffix |-> suffix, about |-> about, date |-> date, link |-> link,
     source |-> source, image |-> image, page |-> page]

Odd == {
    Entry("rates", "", {"fed"}, DayWindow.since + 300, "cnbc.com", "", FALSE, TRUE),
    Entry("rates", "", {"fed"}, DayWindow.since + 400, "blog.example", "", TRUE, TRUE),
    Entry("crude", "Reuters", {"oil"}, DayWindow.since + 700, "news.google.com", "reuters.com", FALSE, TRUE),
    Entry("crude", "A blog", {"oil"}, DayWindow.since, "blog.example", "", FALSE, FALSE),
    Entry("gold", "", {"gold"}, NoDate, "cnbc.com", "", FALSE, TRUE),
    Entry("gold", "", {"gold"}, DayWindow.until, "cnbc.com", "", FALSE, TRUE),
    Entry("dollar", "", {"usd"}, DayWindow.since - 1, "cnbc.com", "", FALSE, TRUE),
    Entry("", "", {}, DayWindow.since + 5, "cnbc.com", "", FALSE, TRUE)}

\* Stories of the day, none like another, the dates up and down.
Fill(n) ==
    [i \in 1 .. n |-> Entry(<<"one", "two", "three", "four", "five">>[i], "", {},
                            DayWindow.since + 100 * ((i * 3) % 5), "cnbc.com", "", FALSE, i # 2)]

\* What the feeds or the searches answer: the last of them the last entry.
Deal(sources, entries, last) ==
    IF Len(sources) = 1 THEN <<entries \o last>> ELSE <<entries, last>>

MCSectionRequests ==
    {SectionRequest(s, SectionDay, Feeds(s), Queries(s),
                    <<Deal(Feeds(s), Fill(n), odd), Deal(Queries(s), h, l)>>) :
        s \in Sections, n \in 0 .. 5, odd \in UpTo(1, Odd), h \in UpTo(1, Odd), l \in UpTo(1, Odd)}

-----------------------------------------------------------------------------
(* Prices: of a Monday after a Sunday on which summer begins, of a Tuesday  *)
(* and of a Saturday.                                                       *)

QuoteDays == {1, 7, 12}

\* A chart with bars at the given instants, closed at some of them.
Chart(instants, closed, rm, before) ==
    [bars |-> [i \in DOMAIN instants |->
                  [at |-> instants[i], closed |-> instants[i] \in closed]],
     rm |-> rm, before |-> before]

HalfHours(c) == <<c - 1440, c - 630, c - 30, c, c + 30>>
\* The session itself may have a second bar.
Sessions(q) == [i \in 1 .. 4 |-> IF i < 4 THEN EasternTime(q - 3 + i, 9 * 60 + 30)
                                 ELSE EasternTime(q, 18 * 60)]

MCQuoteRequests ==
    UNION {
        LET c == morningDigestWindow(d).until
            q == digestMarketQuoteDay(d)
            times == {NoTime, SessionClose(q), c - 90, c + 100, SessionClose(q) - 1440}
            requests ==
                {QuoteRequest(d, equity, Chart(HalfHours(c), closed, rm, NoTime),
                              Chart(Sessions(q), sessions, rm, SessionClose(q - 7))) :
                    equity \in BOOLEAN, rm \in times,
                    closed \in SUBSET ToSet(HalfHours(c)), sessions \in SUBSET ToSet(Sessions(q))}
        IN  {r \in requests : ChartOf(r.halfHours, r.equity, c) /\ ChartOf(r.days, r.equity, c)} :
        d \in QuoteDays}

\* The quote is in the first body or in the second one, in one form or the other.
Bodies(quote, second) ==
    IF second THEN <<[formatted |-> Failed, quick |-> Failed], [formatted |-> Failed, quick |-> quote]>>
    ELSE <<[formatted |-> quote, quick |-> Failed], [formatted |-> Failed, quick |-> Failed]>>

MCNumberRequests ==
    UNION {
        LET c == morningDigestWindow(d).until
            q == digestMarketQuoteDay(d)
            \* A price that is given with its instant is the price of then.
            times(last) == {[kind |-> "none", value |-> 0], [kind |-> "day", value |-> q],
                            [kind |-> "at", value |-> IF last > 0 THEN last ELSE c - 60]}
            quotes == UNION {[last : {IF last < 0 THEN Failed ELSE last}, lastTime : times(last),
                              change : {Failed, 4}, prev : {0, 8}, open : {0, 12}, low : {0, 6},
                              high : {0, 20}] : last \in {-1, 0, c - 60, c + 200}}
        IN  {NumberRequest(d, kind, Bodies(quote, second),
                           Chart(<<c - 2, c - 1, c>>, closed, NoTime, NoTime)) :
                kind \in Kinds, quote \in quotes \cup {Failed}, second \in BOOLEAN,
                closed \in {{}, {c}, {c - 2, c - 1}, {c - 2, c}}} :
        d \in {7}}

-----------------------------------------------------------------------------
(* Texts of at most five words, with and without paragraphs.                *)

MCPadding == <<Word(0), Stopped(Word(0))>>

\* The words k[1], k[2], ... cut into paragraphs after the places in `cuts`.
Text(k, cuts) ==
    LET ends == {0, Len(k)} \cup cuts
        From(e) == Max({c \in ends : c < e})
        w == [i \in DOMAIN k |-> [id |-> i, number |-> k[i].number, stop |-> k[i].stop]]
    IN  [j \in 1 .. Cardinality(ends) - 1 |->
            LET e == CHOOSE e \in ends : Cardinality({c \in ends : c < e}) = j
            IN  SubSeq(w, From(e) + 1, e)]

ProseTasks ==
    UNION {[op : {"prose"}, raw : {Text(k, cuts) : k \in [1 .. n -> [number : BOOLEAN, stop : BOOLEAN]],
                                                   cuts \in SUBSET (1 .. n - 1)}] : n \in 1 .. 5}

TemplateTasks ==
    {[op |-> "template",
      given |-> [intro |-> <<Stopped(Word(1))>>,
                 indices |-> [i \in 1 .. indices |-> <<Stopped(Word(2))>>],
                 goods |-> [i \in 1 .. goods |-> <<Word(2 + i)>>],
                 leadIn |-> <<Word(6)>>,
                 news |-> [i \in 1 .. news |-> <<Stopped(Word(6 + i))>>],
                 advice |-> <<Stopped(Word(20))>>]] :
        indices \in 0 .. 1, goods \in 0 .. 3, news \in 0 .. 11}

-----------------------------------------------------------------------------
(* Answers of Gemini of at most two frames.                                 *)

AnswerParts == {
    [text |-> <<"a">>, signature |-> None, call |-> None],
    [text |-> <<"b">>, signature |-> "s", call |-> None],
    [text |-> <<>>, signature |-> None, call |-> "search"],
    [text |-> <<>>, signature |-> "t", call |-> "search"],
    [text |-> <<>>, signature |-> "t", call |-> None]}

MCStreamRequests ==
    {StreamRequest(frames, broken) :
        frames \in UpTo(2, UpTo(2, AnswerParts) \cup {Malformed, NoCandidates}), broken \in BOOLEAN}

Message(role, content, attachments) ==
    [role |-> role, content |-> content, signature |-> None, attachments |-> attachments,
     calls |-> <<>>, responses |-> <<>>]

Messages == {Message("system", <<"rules">>, <<>>), Message("user", <<"q">>, <<>>),
             Message("user", <<>>, <<"image", "zip">>)}

MCBackRequests ==
    {BackRequest(history, parts) : history \in UpTo(2, Messages), parts \in UpTo(3, AnswerParts)}

-----------------------------------------------------------------------------
(* Expressions.                                                             *)

Expressions == Calculator!Trees(Calculator!Trees({<<"1">>, <<"2">>}))
ExpressionTasks == [op : {"expression"}, tree : Expressions]
TokenTasks == [op : {"tokens"}, tokens : UpTo(4, {"1", "+", "-", "*", "^", "(", ")"})]

-----------------------------------------------------------------------------
Init ==
    /\ \/ ContentsInit
       \/ CallsInit
       \/ /\ \/ task \in ProseTasks
             \/ task \in TemplateTasks
             \/ task \in ExpressionTasks
             \/ task \in TokenTasks
             \/ task = FollowBulletins
          /\ answer = Pending
    /\ BulletinInit
    \* What time it is matters to the bulletins alone.
    /\ task.op # "bulletin" => clock = 0

Answer(op, value) == AnswerWith(op, value) /\ UNCHANGED bulletinVars

Next ==
    \/ ContentsNext /\ UNCHANGED bulletinVars
    \/ CallsNext /\ UNCHANGED bulletinVars
    \/ Answer("prose", generateHighlightSummaryAI(task.raw))
    \/ Answer("template", Template!buildHighlightSummary(task.given))
    \/ Answer("expression", Calculator!evalExpression(Calculator!Written(task.tree)))
    \/ Answer("tokens", Calculator!evalExpression(task.tokens))
    \/ task.op = "bulletin" /\ BulletinNext /\ UNCHANGED <<task, answer>>

Spec == Init /\ [][Next]_<<task, answer, bulletinVars>>

-----------------------------------------------------------------------------
\* The summary keeps to its number of words and to what it is made from.
SummaryFits ==
    /\ Answered("prose") => ProseFits(task.raw)
    /\ Answered("template") => Template!TemplateFits(task.given)

\* The calculator computes what is written, from its beginning.
ReadAsWritten ==
    /\ Answered("expression") => Calculator!ReadAsWritten(task.tree)
    /\ Answered("tokens") => Calculator!ReadsABeginning(task.tokens)
=============================================================================
