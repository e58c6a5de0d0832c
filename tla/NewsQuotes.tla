----------------------------- MODULE NewsQuotes -----------------------------
(***************************************************************************)
(* The prices of a bulletin: worldnews/market.go (Yahoo charts) and        *)
(* worldnews/cnbc.go (CNBC quotes), with keynumbers.go.                    *)
(*                                                                         *)
(* A price is named by the instant at which it was the price, so that one  *)
(* can see how old it is.  A chart is a list of bars, an instant and        *)
(* whether there is a close; the empty list stands for a failed request,    *)
(* an unreadable body and an empty result, which are treated alike.         *)
(* A chart's rm is the instant of its regular-market price, or NoTime.      *)
(***************************************************************************)
EXTENDS NewsDigest, Loops, SequencesExt

CONSTANTS NoTime, Failed

-----------------------------------------------------------------------------
(* Labels.                                                                  *)

\* An axis ends before 07:00: what is later that day is drawn at 06:59.
formatChartVNLabel(t) ==
    IF VnClock(t) >= MorningDigestHour * Hour
    THEN VnTime(VnDay(t), MorningDigestHour * Hour - 1)
    ELSE t

chartLabelForDailyBar(t) == formatChartVNLabel(SessionClose(EasternDay(t)))

\* (Mutant: a price of today is taken for one of the session.)
LiveAnyDay(rm, quoteDay, cutoff) == rm # NoTime
LiveIn(rm, quoteDay, cutoff) ==
    rm # NoTime /\ rm <= cutoff /\ EasternDay(rm) = quoteDay

resolvePriceTime(rm, quoteDay, bar, intraday, cutoff) ==
    CASE LiveIn(rm, quoteDay, cutoff) -> rm
      [] ~LiveIn(rm, quoteDay, cutoff) /\ intraday /\ bar <= cutoff -> bar
      [] OTHER -> SessionClose(quoteDay)

-----------------------------------------------------------------------------
(* Yahoo.                                                                   *)

BarsUntil(chart, cutoff) ==
    Where(chart.bars, LAMBDA bar : bar.closed /\ bar.at <= cutoff)

Snapshot(price, prev, time, points, labels) ==
    [price |-> price, prev |-> prev, time |-> time, points |-> points, labels |-> labels]

\* The last close of half an hour, compared with the one before it.
fetchPriceAtCutoff(chart, equity, quoteDay, cutoff) ==
    LET bars == BarsUntil(chart, cutoff)
        last == Last(bars).at
        prev == IF Len(bars) > 1 THEN bars[Len(bars) - 1].at ELSE last
        price == IF equity /\ LiveIn(chart.rm, quoteDay, cutoff) THEN chart.rm ELSE last
    IN  IF bars = <<>> THEN Failed
        ELSE Snapshot(price, prev,
                      resolvePriceTime(chart.rm, quoteDay, price, TRUE, cutoff), <<>>, <<>>)

\* The last bar of the day, or else the last one.
selectBarIndex(bars, quoteDay) ==
    LET ofDay == {i \in DOMAIN bars : EasternDay(bars[i].at) = quoteDay}
    IN  IF ofDay # {} THEN Max(ofDay) ELSE Len(bars)

\* (Daily charts only: nothing asks for one of another kind.)
parseChartResponse(chart, equity, quoteDay, cutoff) ==
    LET bars == BarsUntil(chart, cutoff)
        idx == selectBarIndex(bars, quoteDay)
        shown == SubSeq(bars, Max({1, idx - 7}), idx)
        drawn == equity /\ chart.rm # NoTime /\ chart.rm <= cutoff
        Label(i) == IF i = Len(shown) /\ drawn THEN formatChartVNLabel(chart.rm)
                    ELSE chartLabelForDailyBar(shown[i].at)
    IN  IF bars = <<>> THEN Failed
        ELSE Snapshot(
                IF equity /\ LiveIn(chart.rm, quoteDay, cutoff) THEN chart.rm ELSE bars[idx].at,
                CASE idx > 1 -> bars[idx - 1].at
                  [] idx = 1 /\ chart.before # NoTime -> chart.before
                  [] OTHER -> bars[idx].at,
                resolvePriceTime(chart.rm, quoteDay, bars[idx].at, FALSE, cutoff),
                [i \in DOMAIN shown |-> shown[i].at],
                [i \in DOMAIN shown |-> Label(i)])

fetchDailyQuote(chart, equity, quoteDay, cutoff) ==
    parseChartResponse(chart, equity, quoteDay, cutoff)

fetchQuote(halfHours, days, equity, day) ==
    LET cutoff == morningDigestWindow(day).until
        quoteDay == digestMarketQuoteDay(day)
        now == fetchPriceAtCutoff(halfHours, equity, quoteDay, cutoff)
        daily == fetchDailyQuote(days, equity, quoteDay, cutoff)
    IN  CASE now = Failed -> daily
          [] now # Failed /\ daily = Failed -> now
          [] OTHER -> [now EXCEPT !.points = daily.points, !.labels = daily.labels]

\* The last close of a minute before the cutoff.
fetchYahooIntradayAtCutoff(minutes, cutoff) ==
    LET bars == Where(minutes.bars, LAMBDA bar : bar.closed /\ bar.at < cutoff)
    IN  IF bars = <<>> THEN Failed ELSE Last(bars).at

-----------------------------------------------------------------------------
(* CNBC.  A quote has its last price (Failed: a text that is no number,     *)
(* such as a dash), the time that is given for it ("day": a date; "at": an  *)
(* instant; "none": neither), the change and the four prices of the         *)
(* session, 0 where there is none.  A body has a quote of one form, of the  *)
(* other, or of neither.                                                    *)

parseCNBCQuoteBody(body) ==
    IF body.formatted # Failed THEN body.formatted ELSE body.quick

fetchCNBCFormattedQuote(bodies) ==
    LET usable == {i \in DOMAIN bodies : parseCNBCQuoteBody(bodies[i]) # Failed}
    IN  IF usable = {} THEN Failed ELSE parseCNBCQuoteBody(bodies[Min(usable)])

parseCNBCLastTime(quote) ==
    CASE quote.lastTime.kind = "none" -> NoTime
      [] quote.lastTime.kind = "day" -> SessionClose(quote.lastTime.value)
      [] quote.lastTime.kind = "at" -> quote.lastTime.value

cnbcChangeFromPrev(price, prev) == IF prev = 0 THEN 0 ELSE price - prev

cnbcResolvedChange(quote) ==
    IF quote.change # Failed THEN quote.change ELSE cnbcChangeFromPrev(quote.last, quote.prev)

cnbcIsAfterDigestCutoff(quote, day) ==
    LET at == parseCNBCLastTime(quote)
    IN  \/ at = NoTime
        \/ VnDay(at) # day
        \/ at > morningDigestWindow(day).until

cnbcDigestCutoffTimeLabel(day) == VnTime(day, MorningDigestHour * Hour - 1)

cnbcKeyNumberPriceTime(quote, day) ==
    IF cnbcIsAfterDigestCutoff(quote, day) THEN cnbcDigestCutoffTimeLabel(day)
    ELSE parseCNBCLastTime(quote)

\* A price that is not given is taken from its neighbour, if any is given.
cnbcSessionSparkline(quote) ==
    LET Given(price, other) == IF price = 0 THEN other ELSE price
        prev == Given(quote.prev, quote.open)
        open == Given(quote.open, prev)
        low == Given(quote.low, open)
        high == Given(quote.high, quote.last)
    IN  IF {quote.prev, quote.open, quote.low, quote.high, quote.last} = {0} THEN <<>> ELSE
        <<prev, (prev + open) \div 2, open, (open + low) \div 2, low, (low + high) \div 2,
          high, Given(quote.last, high)>>

\* The last price is taken as it is, whatever the day of the bulletin.
resolveCNBCKeyNumber(quote, day) ==
    IF quote.last = Failed THEN Failed ELSE
    [price |-> quote.last, change |-> cnbcResolvedChange(quote),
     time |-> cnbcKeyNumberPriceTime(quote, day), points |-> cnbcSessionSparkline(quote)]

EndAt(points, price) ==
    IF points = <<>> THEN <<>> ELSE [points EXCEPT ![Len(points)] = price]

\* (Mutant: the change is still that of the price before.)
applyCNBCCutoffPriceAlone(number, price, prev, time) ==
    [number EXCEPT !.price = price, !.time = time, !.points = EndAt(@, price)]
applyCNBCCutoffPrice(number, price, prev, time) ==
    [number EXCEPT !.price = price, !.change = cnbcChangeFromPrev(price, prev), !.time = time,
                   !.points = EndAt(@, price)]

fetchCNBCStockQuote(bodies, day) ==
    LET quote == fetchCNBCFormattedQuote(bodies)
    IN  IF quote = Failed THEN Failed ELSE resolveCNBCKeyNumber(quote, day)

\* Gold alone is priced again when CNBC's price is too late.
fetchCNBCKeyNumber(bodies, minutes, isGold, day) ==
    LET quote == fetchCNBCFormattedQuote(bodies)
        number == IF quote = Failed THEN Failed ELSE resolveCNBCKeyNumber(quote, day)
        price == fetchYahooIntradayAtCutoff(minutes, morningDigestWindow(day).until)
    IN  CASE number = Failed -> Failed
          [] number # Failed /\ isGold /\ cnbcIsAfterDigestCutoff(quote, day) /\ price # Failed ->
                applyCNBCCutoffPrice(number, price, quote.prev, price)
          [] OTHER -> number

\* Without CNBC a key number is the snapshot that Yahoo gave.
keyNumberFromQuote(snapshot) ==
    [price |-> snapshot.price, change |-> snapshot.price - snapshot.prev,
     time |-> snapshot.time, points |-> snapshot.points]

-----------------------------------------------------------------------------
\* A chart of days has, as a rule, one bar for a session.
OneBarADay(chart) ==
    \A i, j \in DOMAIN chart.bars :
        i < j => EasternDay(chart.bars[i].at) < EasternDay(chart.bars[j].at)

\* What Yahoo's charts give for a bulletin is from before its cutoff: the price,
\* the price that it is compared with, the chart and the time that is shown.  No
\* label of the chart is past 07:00 of its day, and they go up, if no session has
\* two bars; and where there is a half-hour price, the time shown for an index or
\* a stock is that of its price.
QuoteBeforeCutoff(snapshot, halfHours, days, equity, day) ==
    LET cutoff == morningDigestWindow(day).until
        labels == snapshot.labels
    IN  /\ snapshot.price <= cutoff
        /\ snapshot.prev <= snapshot.price
        /\ snapshot.time <= cutoff
        /\ equity /\ BarsUntil(halfHours, cutoff) # <<>> => snapshot.time = snapshot.price
        /\ \A at \in ToSet(snapshot.points) : at <= cutoff
        /\ Len(labels) = Len(snapshot.points)
        /\ \A i \in DOMAIN labels :
              /\ labels[i] < cutoff
              /\ VnClock(labels[i]) < MorningDigestHour * Hour
              /\ OneBarADay(days) /\ i > 1 => labels[i - 1] < labels[i]

\* What a quote of CNBC becomes, a stock's or a key number's: the time shown is
\* from before the cutoff, and the line ends at the price that is shown (there is no
\* price of 0).  The price may be later than both: it is CNBC's last one.  Gold's
\* alone is one from before the cutoff, unless Yahoo has none or CNBC's time
\* does not tell; then the time, the change and the end of the line are its own.
NumberAtCutoff(number, quote, minutes, kind, day) ==
    LET cutoff == morningDigestWindow(day).until
    IN  /\ number.time <= cutoff
        /\ number.price # 0 /\ number.points # <<>> => Last(number.points) = number.price
        /\ number.price # quote.last =>
              /\ kind = "gold"
              /\ number.price < cutoff
              /\ number.time = number.price
              /\ number.change = cnbcChangeFromPrev(number.price, quote.prev)
        /\ kind = "gold" /\ number.price > cutoff =>
              \/ \A bar \in ToSet(minutes.bars) : ~bar.closed \/ bar.at >= cutoff
              \/ ~cnbcIsAfterDigestCutoff(quote, day)
=============================================================================
