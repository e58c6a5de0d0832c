----------------------------- MODULE NewsProofs -----------------------------
(***************************************************************************)
(* Theorems about the building and caching of the morning report            *)
(* (WorldNews), for any readers, dates, tabs and times.                      *)
(***************************************************************************)
EXTENDS WorldNews, AlgorithmsProofs

-----------------------------------------------------------------------------
(* Types.                                                                   *)

LEMMA SymbolTypes ==
    /\ SP500 \in Symbols
    /\ WorldStockTabDefs \in Seq(Seq(Symbols))
    /\ \A i \in DOMAIN WorldStockTabDefs : WorldStockTabDefs[i] \in Seq(Symbols)
    /\ WorldStockTabDefs \in [1 .. Len(WorldStockTabDefs) -> Seq(Symbols)]
BY WorldNewsAssumption

LEMMA InstrumentsType ==
    ASSUME NEW sent, NEW i \in DOMAIN WorldStockTabDefs
    PROVE  Instruments(WorldStockTabDefs[i], Quoted(sent)) \in Seq(Symbols)
BY SymbolTypes, KeptLists DEF Instruments

LEMMA TabsType == ASSUME NEW sent PROVE Tabs(sent) \in Seq(Seq(Symbols))
<1>. DEFINE all == [i \in DOMAIN WorldStockTabDefs |-> Instruments(WorldStockTabDefs[i], Quoted(sent))]
<1>1. all \in [1 .. Len(WorldStockTabDefs) -> Seq(Symbols)]
    BY InstrumentsType, SymbolTypes
<1>2. all \in Seq(Seq(Symbols))
  <2>1. Len(WorldStockTabDefs) \in Nat
      BY SymbolTypes
  <2>. HIDE DEF all
  <2>. QED  BY <1>1, <2>1
<1>. HIDE DEF all
<1>3. Kept(all, {i \in DOMAIN all : all[i] # << >>}) \in Seq(Seq(Symbols))
    BY <1>2, KeptLists
<1>. QED  BY <1>3 DEF Tabs, all

LEMMA BlankReport == ASSUME NEW d \in Dates, MaxTime \in Nat PROVE Blank(d) \in Report
<1>1. << >> \in Seq(Seq(Symbols))
    OBVIOUS
<1>. QED  BY <1>1 DEF Blank, Report

LEMMA BlankAsked ==
    ASSUME NEW d \in Dates, NEW t \in 0 .. MaxTime
    PROVE  /\ [Blank(d) EXCEPT !.asked = t] \in Report
           /\ [Blank(d) EXCEPT !.asked = t].date = d
           /\ [Blank(d) EXCEPT !.asked = t].asked = t
<1>1. << >> \in Seq(Seq(Symbols))
    OBVIOUS
<1>. QED  BY <1>1 DEF Blank, Report

LEMMA StoredReport ==
    ASSUME NEW report \in Report
    PROVE  /\ Stored(report) \in Report
           /\ Stored(report).date = report.date
           /\ Stored(report).asked = report.asked
<1>1. report.date \in Dates /\ report.asked \in 0 .. MaxTime
    BY DEF Report
<1>. HIDE DEF Report
<1>. QED  BY <1>1, BlankAsked DEF Stored

-----------------------------------------------------------------------------
(* One reader moves.                                                        *)

Others(r) == \A q \in Readers : q # r => reader'[q] = reader[q]

LEMMA Moves ==
    ASSUME TypeOK, NEW r \in Readers, NEW x \in Reader, reader' = [reader EXCEPT ![r] = x]
    PROVE  reader' \in [Readers -> Reader] /\ reader'[r] = x /\ Others(r)
BY DEF TypeOK, Others

LEMMA GotoMoves ==
    ASSUME TypeOK, NEW r \in Readers, NEW p \in Phases, NEW report \in Report, Goto(r, p, report)
    PROVE  /\ reader' \in [Readers -> Reader]
           /\ reader'[r].phase = p
           /\ reader'[r].since = reader[r].since
           /\ reader'[r].ok = (p = "built")
           /\ reader'[r].report = report
           /\ Others(r)
<1>1. reader \in [Readers -> Reader] /\ reader[r] \in Reader
    BY DEF TypeOK
<1>. DEFINE b == (p = "built")
            x == [reader[r] EXCEPT !.phase = p, !.report = report, !.ok = b]
<1>2. b \in BOOLEAN
    BY Zenon
<1>3. reader' = [reader EXCEPT ![r] = x]
    BY DEF Goto
<1>4. x \in Reader /\ x.phase = p /\ x.since = reader[r].since /\ x.ok = b /\ x.report = report
  <2>. HIDE DEF b
  <2>. QED  BY <1>1, <1>2 DEF Reader
<1>. HIDE DEF x, b
<1>5. reader' \in [Readers -> Reader] /\ reader'[r] = x /\ Others(r)
    BY <1>3, <1>4, Moves
<1>. QED  BY <1>4, <1>5, Zenon DEF b

-----------------------------------------------------------------------------
(* What each step does to a reader.                                         *)

LEMMA CachedMoves ==
    ASSUME TypeOK, NEW r \in Readers, NEW d \in Dates, Cached(r, d)
    PROVE  /\ reader' \in [Readers -> Reader]
           /\ reader'[r].phase = "answered" /\ reader'[r].since = now /\ reader'[r].ok
           /\ reader'[r].report = cache[d].report
           /\ cache[d] \in Entry /\ cache[d].report.date = d
           /\ Others(r)
<1>1. cache[d] \in Entry /\ cache[d].report.date = d
    BY DEF Cached, Live, TypeOK
<1>2. cache[d].report \in Report
    BY <1>1 DEF Entry
<1>. DEFINE x == [phase |-> "answered", since |-> now, ok |-> TRUE, report |-> cache[d].report]
<1>3. x \in Reader
    BY <1>2 DEF Reader, Phases, TypeOK
<1>4. reader' = [reader EXCEPT ![r] = x]
    BY DEF Cached
<1>5. x.phase = "answered" /\ x.since = now /\ x.ok /\ x.report = cache[d].report
    OBVIOUS
<1>. HIDE DEF x
<1>. QED  BY <1>1, <1>3, <1>4, <1>5, Moves

LEMMA buildReportMoves ==
    ASSUME TypeOK, NEW r \in Readers, NEW d \in Dates, buildReport(r, d)
    PROVE  /\ reader' \in [Readers -> Reader]
           /\ reader'[r].phase = "stocks" /\ reader'[r].since = now /\ ~reader'[r].ok
           /\ reader'[r].report.date = d /\ reader'[r].report.asked = now
           /\ Others(r)
<1>. DEFINE report == [Blank(d) EXCEPT !.asked = now]
            x == [phase |-> "stocks", since |-> now, ok |-> FALSE, report |-> report]
<1>1. now \in 0 .. MaxTime
    BY DEF TypeOK
<1>2. report \in Report /\ report.date = d /\ report.asked = now
    BY <1>1, BlankAsked
<1>3. reader' = [reader EXCEPT ![r] = x]
    BY DEF buildReport
<1>. HIDE DEF report
<1>4. x \in Reader
    BY <1>1, <1>2 DEF Reader, Phases
<1>5. x.phase = "stocks" /\ x.since = now /\ ~x.ok /\ x.report = report
    OBVIOUS
<1>. HIDE DEF x
<1>. QED  BY <1>2, <1>3, <1>4, <1>5, Moves

LEMMA GatherMoves ==
    ASSUME TypeOK, NEW r \in Readers, Gather(r)
    PROVE  /\ reader' \in [Readers -> Reader]
           /\ reader'[r].since = reader[r].since /\ ~reader'[r].ok
           /\ reader'[r].report.date = reader[r].report.date
           /\ reader'[r].report.asked = reader[r].report.asked
           /\ \/ /\ reader'[r].phase = "futures"
                 /\ SP500 \in Quoted(channel[r])
                 /\ reader'[r].report.tabs = Tabs(channel[r])
              \/ reader'[r].phase = "answered"
           /\ Others(r)
<1>1. reader[r].report \in Report
    BY DEF TypeOK, Reader
<1>2. "futures" \in Phases /\ "answered" \in Phases
    BY DEF Phases
<1>3. CASE SP500 \in Quoted(channel[r])
  <2>. DEFINE report == [reader[r].report EXCEPT !.tabs = Tabs(channel[r])]
  <2>1. Goto(r, "futures", report)
      BY <1>3 DEF Gather
  <2>2. Tabs(channel[r]) \in Seq(Seq(Symbols))
      BY TabsType
  <2>3. /\ report \in Report /\ report.tabs = Tabs(channel[r])
        /\ report.date = reader[r].report.date /\ report.asked = reader[r].report.asked
      BY <1>1, <2>2 DEF Report
  <2>. HIDE DEF report
  <2>. QED  BY <1>2, <1>3, <2>1, <2>3, GotoMoves
<1>4. CASE SP500 \notin Quoted(channel[r])
  <2>1. Goto(r, "answered", reader[r].report)
      BY <1>4 DEF Gather
  <2>. QED  BY <1>1, <1>2, <2>1, GotoMoves
<1>. QED  BY <1>3, <1>4

LEMMA fetchFuturesMoves ==
    ASSUME TypeOK, NEW r \in Readers, fetchFutures(r)
    PROVE  /\ reader' \in [Readers -> Reader]
           /\ reader'[r].since = reader[r].since /\ ~reader'[r].ok
           /\ reader'[r].report.date = reader[r].report.date
           /\ reader'[r].report.asked = reader[r].report.asked
           /\ \/ /\ reader'[r].phase = "numbers"
                 /\ reader'[r].report.tabs = reader[r].report.tabs
              \/ reader'[r].phase = "answered"
           /\ Others(r)
<1>1. reader[r].report \in Report
    BY DEF TypeOK, Reader
<1>2. "numbers" \in Phases /\ "answered" \in Phases
    BY DEF Phases
<1>3. CASE Goto(r, "answered", Stored(reader[r].report))
  <2>. DEFINE report == Stored(reader[r].report)
  <2>1. /\ report \in Report /\ report.date = reader[r].report.date
        /\ report.asked = reader[r].report.asked
      BY <1>1, StoredReport
  <2>2. Goto(r, "answered", report)
      BY <1>3
  <2>. HIDE DEF report
  <2>. QED  BY <1>2, <2>1, <2>2, GotoMoves
<1>4. CASE Goto(r, "numbers", reader[r].report)
    BY <1>1, <1>2, <1>4, GotoMoves
<1>. QED  BY <1>3, <1>4 DEF fetchFutures

LEMMA FinishReportMoves ==
    ASSUME TypeOK, NEW r \in Readers, FinishReport(r)
    PROVE  /\ reader' \in [Readers -> Reader]
           /\ reader'[r].phase = "built" /\ reader'[r].since = reader[r].since /\ reader'[r].ok
           /\ reader'[r].report.date = reader[r].report.date
           /\ reader'[r].report.asked = reader[r].report.asked
           /\ reader'[r].report.tabs = reader[r].report.tabs
           /\ Others(r)
<1>1. reader[r].report \in Report
    BY DEF TypeOK, Reader
<1>2. "built" \in Phases
    BY DEF Phases
<1>3. Goto(r, "built", reader[r].report)
    BY DEF FinishReport
<1>4. /\ reader' \in [Readers -> Reader] /\ Others(r)
      /\ reader'[r].phase = "built" /\ reader'[r].since = reader[r].since
      /\ reader'[r].report = reader[r].report
    BY <1>1, <1>2, <1>3, GotoMoves
<1>5. reader'[r].ok
  <2>1. reader'[r].ok = ("built" = "built")
      BY <1>1, <1>2, <1>3, GotoMoves
  <2>. QED  BY <2>1, Zenon
<1>. QED  BY <1>4, <1>5

LEMMA StoreMoves ==
    ASSUME TypeOK, NEW r \in Readers, Store(r)
    PROVE  LET report == reader[r].report
           IN  /\ reader' \in [Readers -> Reader]
               /\ reader'[r].phase = "answered" /\ reader'[r].since = reader[r].since
               /\ reader'[r].ok = reader[r].ok
               /\ reader'[r].report.date = report.date /\ reader'[r].report.asked = report.asked
               /\ Others(r)
               /\ cache' = [cache EXCEPT ![report.date] = NewEntry(report.date, report)]
               /\ NewEntry(report.date, report) \in Entry
               /\ NewEntry(report.date, report).report.date = report.date
               /\ NewEntry(report.date, report).report.asked = report.asked
               /\ NewEntry(report.date, report).expires = now + CacheTTL
<1>. DEFINE report == reader[r].report
            x == [reader[r] EXCEPT !.phase = "answered", !.report = Stored(@)]
<1>1. reader[r] \in Reader /\ report \in Report
    BY DEF TypeOK, Reader
<1>2. /\ Stored(report) \in Report /\ Stored(report).date = report.date
      /\ Stored(report).asked = report.asked
    BY <1>1, StoredReport
<1>3. reader' = [reader EXCEPT ![r] = x]
  <2>1. reader \in [Readers -> Reader]
      BY DEF TypeOK
  <2>. QED  BY <2>1 DEF Store
<1>4. /\ x \in Reader /\ x.phase = "answered" /\ x.since = reader[r].since
      /\ x.ok = reader[r].ok /\ x.report = Stored(report)
    BY <1>1, <1>2 DEF Reader, Phases
<1>. HIDE DEF x
<1>5. reader' \in [Readers -> Reader] /\ reader'[r] = x /\ Others(r)
    BY <1>3, <1>4, Moves
<1>6. /\ NewEntry(report.date, report) \in Entry
      /\ NewEntry(report.date, report).report = Stored(report)
      /\ NewEntry(report.date, report).expires = now + CacheTTL
    BY <1>2, NewsTimesAssumption DEF NewEntry, Entry, TypeOK
<1>7. cache' = [cache EXCEPT ![report.date] = NewEntry(report.date, report)]
    BY DEF Store
<1>. QED  BY <1>2, <1>4, <1>5, <1>6, <1>7

LEMMA ReplyMoves ==
    ASSUME TypeOK, NEW r \in Readers, Reply(r)
    PROVE  /\ reader' \in [Readers -> Reader]
           /\ reader'[r].phase = "idle" /\ reader'[r].since = 0 /\ ~reader'[r].ok
           /\ reader'[r].report.date = reader[r].report.date
           /\ reader'[r].report.asked = 0
           /\ Others(r)
<1>. DEFINE d == reader[r].report.date
<1>1. d \in Dates
    BY DEF TypeOK, Reader, Report
<1>2. Blank(d) \in Report /\ Blank(d).date = d /\ Blank(d).asked = 0
    BY <1>1, BlankReport, NewsTimesAssumption DEF Blank
<1>3. Idle(d) \in Reader
    BY <1>2, NewsTimesAssumption DEF Idle, Reader, Phases
<1>4. /\ Idle(d).phase = "idle" /\ Idle(d).since = 0 /\ ~Idle(d).ok /\ Idle(d).report = Blank(d)
    BY DEF Idle
<1>5. reader' = [reader EXCEPT ![r] = Idle(d)]
    BY DEF Reply
<1>. QED  BY <1>2, <1>3, <1>4, <1>5, Moves

-----------------------------------------------------------------------------
(* TypeOK.                                                                  *)

\* Only a reader in "stocks" has workers, or answers of theirs in its channel.
Workers(r) == worker[r] # {} \/ channel[r] # << >> => reader[r].phase = "stocks"

\* A step of reader r that leaves cache and time alone keeps TypeOK if it keeps
\* what r itself has to keep.
LEMMA TypeKept ==
    ASSUME TypeOK, NEW r \in Readers, reader' \in [Readers -> Reader], Others(r),
           UNCHANGED <<now, cache>>,
           \/ worker' = worker
           \/ \E W \in SUBSET Symbols : worker' = [worker EXCEPT ![r] = W],
           \/ channel' = channel
           \/ \E C \in Seq(Answer) : channel' = [channel EXCEPT ![r] = C],
           Workers(r)'
    PROVE  TypeOK'
<1>1. /\ worker' \in [Readers -> SUBSET Symbols]
      /\ \A q \in Readers : q # r => worker'[q] = worker[q]
    BY DEF TypeOK
<1>2. /\ channel' \in [Readers -> Seq(Answer)]
      /\ \A q \in Readers : q # r => channel'[q] = channel[q]
    BY DEF TypeOK
<1>3. \A q \in Readers : worker'[q] # {} \/ channel'[q] # << >> => reader'[q].phase = "stocks"
    BY <1>1, <1>2 DEF TypeOK, Others, Workers
<1>. QED  BY <1>1, <1>2, <1>3 DEF TypeOK

LEMMA NoWorkers ==
    ASSUME TypeOK, NEW r \in Readers, reader[r].phase # "stocks"
    PROVE  worker[r] = {} /\ channel[r] = << >>
BY DEF TypeOK

LEMMA TypeStep == TypeOK /\ [Next]_vars => TypeOK'
<1>. SUFFICES ASSUME TypeOK, [Next]_vars PROVE TypeOK'
    OBVIOUS
<1>1. ASSUME NEW r \in Readers, NEW d \in Dates, Cached(r, d) PROVE TypeOK'
  <2>1. worker[r] = {} /\ channel[r] = << >>
      BY <1>1, NoWorkers DEF Cached
  <2>2. UNCHANGED <<now, cache, worker, channel>>
      BY <1>1 DEF Cached
  <2>3. reader' \in [Readers -> Reader] /\ Others(r)
      BY <1>1, CachedMoves
  <2>. QED  BY <2>1, <2>2, <2>3, TypeKept DEF Workers
<1>2. ASSUME NEW r \in Readers, NEW d \in Dates, buildReport(r, d) PROVE TypeOK'
  <2>1. UNCHANGED <<now, cache, channel>> /\ worker' = [worker EXCEPT ![r] = Symbols]
      BY <1>2 DEF buildReport
  <2>2. reader' \in [Readers -> Reader] /\ Others(r) /\ reader'[r].phase = "stocks"
      BY <1>2, buildReportMoves
  <2>3. \E W \in SUBSET Symbols : worker' = [worker EXCEPT ![r] = W]
      BY <2>1
  <2>. QED  BY <2>1, <2>2, <2>3, TypeKept DEF Workers
<1>3. ASSUME NEW r \in Readers, NEW s \in Symbols, Send(r, s) PROVE TypeOK'
  <2>1. UNCHANGED <<now, cache, reader>> /\ s \in worker[r]
      BY <1>3 DEF Send
  <2>2. reader'[r].phase = "stocks" /\ reader' \in [Readers -> Reader] /\ Others(r)
      BY <2>1 DEF TypeOK, Others
  <2>3. \E W \in SUBSET Symbols : worker' = [worker EXCEPT ![r] = W]
    <3>1. worker' = [worker EXCEPT ![r] = worker[r] \ {s}] /\ worker[r] \ {s} \in SUBSET Symbols
        BY <1>3 DEF Send, TypeOK
    <3>. QED  BY <3>1
  <2>4. \E C \in Seq(Answer) : channel' = [channel EXCEPT ![r] = C]
    <3>1. PICK quoted \in BOOLEAN :
            channel' = [channel EXCEPT ![r] = Append(@, [symbol |-> s, quoted |-> quoted])]
        BY <1>3 DEF Send
    <3>2. [symbol |-> s, quoted |-> quoted] \in Answer
        BY DEF Answer
    <3>. DEFINE a == [symbol |-> s, quoted |-> quoted]
    <3>. HIDE DEF a
    <3>3. channel[r] \in Seq(Answer)
        BY DEF TypeOK
    <3>4. Append(channel[r], a) \in Seq(Answer)
        BY <3>2, <3>3 DEF a
    <3>5. channel' = [channel EXCEPT ![r] = Append(channel[r], a)]
        BY <3>1 DEF TypeOK, a
    <3>. QED  BY <3>4, <3>5
  <2>. QED  BY <2>1, <2>2, <2>3, <2>4, TypeKept DEF Workers
<1>4. ASSUME NEW r \in Readers, Gather(r) PROVE TypeOK'
  <2>1. UNCHANGED <<now, cache, worker>> /\ channel' = [channel EXCEPT ![r] = << >>] /\ worker[r] = {}
      BY <1>4 DEF Gather, AllAnswers
  <2>2. << >> \in Seq(Answer)
      OBVIOUS
  <2>3. \E C \in Seq(Answer) : channel' = [channel EXCEPT ![r] = C]
      BY <2>1, <2>2
  <2>4. channel'[r] = << >> /\ worker'[r] = {}
      BY <2>1 DEF TypeOK
  <2>5. reader' \in [Readers -> Reader] /\ Others(r)
      BY <1>4, GatherMoves
  <2>. QED  BY <2>1, <2>3, <2>4, <2>5, TypeKept DEF Workers
<1>5. ASSUME NEW r \in Readers, fetchFutures(r) \/ FinishReport(r) \/ Reply(r) PROVE TypeOK'
  <2>1. UNCHANGED <<now, cache, worker, channel>>
      BY <1>5 DEF fetchFutures, FinishReport, Reply
  <2>2. worker[r] = {} /\ channel[r] = << >>
      BY <1>5, NoWorkers DEF fetchFutures, FinishReport, Reply
  <2>3. reader' \in [Readers -> Reader] /\ Others(r)
      BY <1>5, fetchFuturesMoves, FinishReportMoves, ReplyMoves
  <2>. QED  BY <2>1, <2>2, <2>3, TypeKept DEF Workers
<1>6. ASSUME NEW r \in Readers, Store(r) PROVE TypeOK'
  <2>. DEFINE report == reader[r].report
              e == NewEntry(report.date, report)
  <2>1. UNCHANGED <<now, worker, channel>>
      BY <1>6 DEF Store
  <2>2. worker[r] = {} /\ channel[r] = << >>
      BY <1>6, NoWorkers DEF Store
  <2>3. /\ reader' \in [Readers -> Reader] /\ Others(r)
        /\ cache' = [cache EXCEPT ![report.date] = e] /\ e \in Entry /\ e.report.date = report.date
      BY <1>6, StoreMoves
  <2>. HIDE DEF e
  <2>4. cache' \in [Dates -> Entry \cup {Nothing}]
      BY <2>3 DEF TypeOK
  <2>5. \A d \in Dates : cache'[d] # Nothing => cache'[d].report.date = d
      BY <2>3 DEF TypeOK
  <2>6. \A q \in Readers : worker'[q] # {} \/ channel'[q] # << >> => reader'[q].phase = "stocks"
      BY <2>1, <2>2, <2>3 DEF TypeOK, Others
  <2>. QED  BY <2>1, <2>3, <2>4, <2>5, <2>6 DEF TypeOK
<1>7. CASE Tick
    BY <1>7, NewsTimesAssumption DEF Tick, TypeOK
<1>8. CASE UNCHANGED vars
    BY <1>8 DEF vars, TypeOK
<1>. QED
    BY <1>1, <1>2, <1>3, <1>4, <1>5, <1>6, <1>7, <1>8 DEF Next, GetReport, Work

LEMMA NewsInit == Init => TypeOK
<1>. SUFFICES ASSUME Init PROVE TypeOK
    OBVIOUS
<1>1. \A d \in Dates : Idle(d) \in Reader /\ Idle(d).phase = "idle"
  <2>1. \A d \in Dates : Blank(d) \in Report
      BY BlankReport, NewsTimesAssumption
  <2>. QED  BY <2>1, NewsTimesAssumption DEF Idle, Reader, Phases
<1>2. reader \in [Readers -> Reader]
    BY <1>1 DEF Init
<1>3. << >> \in Seq(Answer) /\ 0 \in 0 .. MaxTime
    BY NewsTimesAssumption
<1>. QED  BY <1>2, <1>3 DEF Init, TypeOK

\* Every reachable state of the report's service is well typed, and only a reader
\* that waits for its stocks has workers or answers waiting (the wait comes before
\* the channel is emptied, fetchWorldStockQuotes).
THEOREM NewsTyped == Spec => []TypeOK
BY NewsInit, TypeStep, PTL DEF Spec

-----------------------------------------------------------------------------
(* The tabs.                                                                *)

defs == WorldStockTabDefs

LEMMA DefsDomains ==
    /\ DOMAIN defs = 1 .. Len(defs) /\ Len(defs) \in Nat
    /\ \A i \in DOMAIN defs : DOMAIN defs[i] = 1 .. Len(defs[i]) /\ Len(defs[i]) \in Nat
BY SymbolTypes DEF defs

\* Each symbol is defined in one place.
LEMMA OnePlace ==
    \A i, j \in DOMAIN defs : \A k \in DOMAIN defs[i], l \in DOMAIN defs[j] :
        defs[i][k] = defs[j][l] => i = j /\ k = l
BY WorldNewsAssumption DEF defs

LEMMA SameTabAt ==
    ASSUME NEW i \in DOMAIN defs, NEW j \in DOMAIN defs, NEW k \in DOMAIN defs[i], NEW l \in DOMAIN defs[j]
    PROVE  SameTab(defs[i][k], defs[j][l]) <=> i = j
<1>1. ASSUME i = j PROVE SameTab(defs[i][k], defs[j][l])
  <2>1. {defs[i][k], defs[j][l]} \subseteq ToSet(defs[i])
      BY <1>1 DEF ToSet
  <2>. QED  BY <2>1 DEF SameTab, defs
<1>2. ASSUME SameTab(defs[i][k], defs[j][l]) PROVE i = j
  <2>1. PICK m \in DOMAIN defs : {defs[i][k], defs[j][l]} \subseteq ToSet(defs[m])
      BY <1>2 DEF SameTab, defs
  <2>2. PICK x \in DOMAIN defs[m] : defs[i][k] = defs[m][x]
      BY <2>1 DEF ToSet
  <2>3. PICK y \in DOMAIN defs[m] : defs[j][l] = defs[m][y]
      BY <2>1 DEF ToSet
  <2>. QED  BY <2>2, <2>3, OnePlace
<1>. QED  BY <1>1, <1>2

LEMMA DefinedBeforeAt ==
    ASSUME NEW i \in DOMAIN defs, NEW j \in DOMAIN defs, NEW k \in DOMAIN defs[i], NEW l \in DOMAIN defs[j],
           i < j \/ (i = j /\ k < l)
    PROVE  DefinedBefore(defs[i][k], defs[j][l])
BY DEF DefinedBefore, defs

ListsQuoted(tab, def, quoted) ==
    \E place \in [1 .. Len(tab) -> DOMAIN def] :
        /\ \A k \in 1 .. Len(tab) : tab[k] = def[place[k]]
        /\ \A k, l \in 1 .. Len(tab) : k < l => place[k] < place[l]
        /\ \A p \in DOMAIN def : def[p] \in quoted => \E k \in 1 .. Len(tab) : place[k] = p

\* The instruments of a tab are those of its definition that got a quote, in order.
LEMMA InstrumentsListed ==
    ASSUME NEW sent, NEW i \in DOMAIN defs
    PROVE  /\ Instruments(defs[i], Quoted(sent)) \in Seq(Symbols)
           /\ ListsQuoted(Instruments(defs[i], Quoted(sent)), defs[i], Quoted(sent))
<1>. DEFINE P == {k \in DOMAIN defs[i] : defs[i][k] \in Quoted(sent)}
            tab == Kept(defs[i], P)
<1>1. defs[i] \in Seq(Symbols)
    BY SymbolTypes DEF defs
<1>. HIDE DEF P
<1>2. tab \in Seq(Symbols) /\ Lists(tab, defs[i], P, Len(defs[i]))
    BY <1>1, KeptLists
<1>. HIDE DEF tab
<1>3. PICK place \in [1 .. Len(tab) -> 1 .. Len(defs[i])] :
        /\ \A k \in 1 .. Len(tab) : place[k] \in P /\ tab[k] = defs[i][place[k]]
        /\ \A k, l \in 1 .. Len(tab) : k < l => place[k] < place[l]
        /\ \A p \in 1 .. Len(defs[i]) : p \in P => \E k \in 1 .. Len(tab) : place[k] = p
    BY <1>2, Zenon DEF Lists
<1>4. DOMAIN defs[i] = 1 .. Len(defs[i])
    BY DefsDomains
<1>5. \A p \in DOMAIN defs[i] : defs[i][p] \in Quoted(sent) => \E k \in 1 .. Len(tab) : place[k] = p
    BY <1>3, <1>4 DEF P
<1>6. place \in [1 .. Len(tab) -> DOMAIN defs[i]]
    BY <1>3, <1>4
<1>7. Instruments(defs[i], Quoted(sent)) = tab
    BY DEF Instruments, tab, P
<1>8. ListsQuoted(tab, defs[i], Quoted(sent))
    BY <1>3, <1>5, <1>6, Zenon DEF ListsQuoted
<1>. QED  BY <1>2, <1>7, <1>8

\* The tabs are those of the definitions that have an instrument, in order.
LEMMA TabsListed ==
    ASSUME NEW sent
    PROVE  LET tabs == Tabs(sent)
           IN  /\ tabs \in Seq(Seq(Symbols))
               /\ \E place \in [1 .. Len(tabs) -> DOMAIN defs] :
                    /\ \A i \in 1 .. Len(tabs) :
                         /\ tabs[i] = Instruments(defs[place[i]], Quoted(sent))
                         /\ tabs[i] # << >>
                    /\ \A i, j \in 1 .. Len(tabs) : i < j => place[i] < place[j]
                    /\ \A p \in DOMAIN defs :
                         Instruments(defs[p], Quoted(sent)) # << >>
                            => \E i \in 1 .. Len(tabs) : place[i] = p
<1>. DEFINE all == [i \in DOMAIN defs |-> Instruments(defs[i], Quoted(sent))]
            P == {i \in DOMAIN all : all[i] # << >>}
            tabs == Kept(all, P)
<1>1. all \in Seq(Seq(Symbols)) /\ Len(all) = Len(defs)
  <2>1. \A i \in DOMAIN defs : Instruments(defs[i], Quoted(sent)) \in Seq(Symbols)
      BY InstrumentsType DEF defs
  <2>2. all \in [1 .. Len(defs) -> Seq(Symbols)]
      BY <2>1, DefsDomains
  <2>. HIDE DEF all
  <2>. QED  BY <2>2, DefsDomains
<1>2. \A i \in DOMAIN defs : all[i] = Instruments(defs[i], Quoted(sent))
    OBVIOUS
<1>3. DOMAIN all = DOMAIN defs
    OBVIOUS
<1>. HIDE DEF all
<1>4. P = {i \in DOMAIN defs : Instruments(defs[i], Quoted(sent)) # << >>}
    BY <1>2, <1>3
<1>. HIDE DEF P
<1>5. tabs \in Seq(Seq(Symbols)) /\ Lists(tabs, all, P, Len(all))
    BY <1>1, KeptLists
<1>. HIDE DEF tabs
<1>6. PICK place \in [1 .. Len(tabs) -> 1 .. Len(all)] :
        /\ \A i \in 1 .. Len(tabs) : place[i] \in P /\ tabs[i] = all[place[i]]
        /\ \A i, j \in 1 .. Len(tabs) : i < j => place[i] < place[j]
        /\ \A p \in 1 .. Len(all) : p \in P => \E i \in 1 .. Len(tabs) : place[i] = p
    BY <1>5, Zenon DEF Lists
<1>7. DOMAIN defs = 1 .. Len(all)
    BY <1>1, DefsDomains
<1>8. place \in [1 .. Len(tabs) -> DOMAIN defs]
    BY <1>6, <1>7
<1>9. \A i \in 1 .. Len(tabs) :
        tabs[i] = Instruments(defs[place[i]], Quoted(sent)) /\ tabs[i] # << >>
    BY <1>2, <1>4, <1>6
<1>10. \A p \in DOMAIN defs :
        Instruments(defs[p], Quoted(sent)) # << >> => \E i \in 1 .. Len(tabs) : place[i] = p
    BY <1>4, <1>6, <1>7
<1>11. Tabs(sent) = tabs
    BY DEF Tabs, tabs, P, all, defs
<1>. QED  BY <1>5, <1>6, <1>8, <1>9, <1>10, <1>11, Zenon

\* What TabsInOrder says of the tabs of one report.
InDefinedOrder(tabs) ==
    /\ SP500 \in Shown(tabs)
    /\ \A i \in DOMAIN tabs : tabs[i] # << >>
    /\ \A i, j \in DOMAIN tabs : \A k \in DOMAIN tabs[i], l \in DOMAIN tabs[j] :
         /\ SameTab(tabs[i][k], tabs[j][l]) <=> i = j
         /\ i < j \/ (i = j /\ k < l) => DefinedBefore(tabs[i][k], tabs[j][l])

LEMMA TabsOrdered ==
    ASSUME NEW sent, SP500 \in Quoted(sent)
    PROVE  InDefinedOrder(Tabs(sent))
<1>. DEFINE tabs == Tabs(sent)
            tab(p) == Instruments(defs[p], Quoted(sent))
<1>1. tabs \in Seq(Seq(Symbols)) /\ DOMAIN tabs = 1 .. Len(tabs)
    BY TabsType
<1>2. PICK at \in [1 .. Len(tabs) -> DOMAIN defs] :
        /\ \A i \in 1 .. Len(tabs) : tabs[i] = tab(at[i]) /\ tabs[i] # << >>
        /\ \A i, j \in 1 .. Len(tabs) : i < j => at[i] < at[j]
        /\ \A p \in DOMAIN defs : tab(p) # << >> => \E i \in 1 .. Len(tabs) : at[i] = p
    BY TabsListed, Zenon
<1>3. \A p \in DOMAIN defs :
        /\ tab(p) \in Seq(Symbols) /\ DOMAIN tab(p) = 1 .. Len(tab(p))
        /\ ListsQuoted(tab(p), defs[p], Quoted(sent))
  <2>. TAKE p \in DOMAIN defs
  <2>1. tab(p) \in Seq(Symbols) /\ ListsQuoted(tab(p), defs[p], Quoted(sent))
      BY InstrumentsListed
  <2>. HIDE DEF tab
  <2>. QED  BY <2>1
<1>. HIDE DEF tabs, tab
<1>4. SP500 \in Shown(tabs)
  <2>1. PICK p \in DOMAIN defs : SP500 \in ToSet(defs[p])
      BY SymbolTypes DEF Symbols, Shown, defs
  <2>2. PICK x \in DOMAIN defs[p] : defs[p][x] = SP500
      BY <2>1 DEF ToSet
  <2>3. PICK k \in 1 .. Len(tab(p)) : tab(p)[k] = SP500
    <3>1. PICK place \in [1 .. Len(tab(p)) -> DOMAIN defs[p]] :
             /\ \A k \in 1 .. Len(tab(p)) : tab(p)[k] = defs[p][place[k]]
             /\ \A y \in DOMAIN defs[p] :
                  defs[p][y] \in Quoted(sent) => \E k \in 1 .. Len(tab(p)) : place[k] = y
        BY <1>3, Zenon DEF ListsQuoted
    <3>. QED  BY <2>2, <3>1
  <2>4. tab(p) # << >> /\ k \in DOMAIN tab(p)
      BY <1>3, <2>3
  <2>5. PICK i \in 1 .. Len(tabs) : at[i] = p
      BY <1>2, <2>4
  <2>6. SP500 \in ToSet(tabs[i])
      BY <1>2, <2>3, <2>4, <2>5 DEF ToSet
  <2>. QED  BY <1>1, <2>5, <2>6 DEF Shown
<1>5. \A i \in DOMAIN tabs : tabs[i] # << >>
    BY <1>1, <1>2
<1>6. ASSUME NEW i \in DOMAIN tabs, NEW j \in DOMAIN tabs,
             NEW k \in DOMAIN tabs[i], NEW l \in DOMAIN tabs[j]
      PROVE  /\ SameTab(tabs[i][k], tabs[j][l]) <=> i = j
             /\ i < j \/ (i = j /\ k < l) => DefinedBefore(tabs[i][k], tabs[j][l])
  <2>. DEFINE p == at[i]
              q == at[j]
  <2>1. /\ p \in DOMAIN defs /\ q \in DOMAIN defs /\ tabs[i] = tab(p) /\ tabs[j] = tab(q)
        /\ i \in 1 .. Len(tabs) /\ j \in 1 .. Len(tabs)
      BY <1>1, <1>2
  <2>2. PICK f \in [1 .. Len(tab(p)) -> DOMAIN defs[p]] :
          /\ \A m \in 1 .. Len(tab(p)) : tab(p)[m] = defs[p][f[m]]
          /\ \A m, n \in 1 .. Len(tab(p)) : m < n => f[m] < f[n]
      BY <1>3, <2>1, Zenon DEF ListsQuoted
  <2>3. PICK g \in [1 .. Len(tab(q)) -> DOMAIN defs[q]] :
          /\ \A m \in 1 .. Len(tab(q)) : tab(q)[m] = defs[q][g[m]]
          /\ i = j => g = f
    <3>1. CASE i = j
        BY <2>1, <2>2, <3>1
    <3>2. CASE i # j
        BY <1>3, <2>1, <3>2, Zenon DEF ListsQuoted
    <3>. QED  BY <3>1, <3>2
  <2>4. k \in 1 .. Len(tab(p)) /\ l \in 1 .. Len(tab(q))
      BY <1>3, <2>1
  <2>5. tabs[i][k] = defs[p][f[k]] /\ tabs[j][l] = defs[q][g[l]]
      BY <2>1, <2>2, <2>3, <2>4
  <2>6. f[k] \in DOMAIN defs[p] /\ g[l] \in DOMAIN defs[q]
      BY <2>2, <2>3, <2>4
  <2>7. p = q <=> i = j
    <3>1. p \in Nat /\ q \in Nat /\ i \in Nat /\ j \in Nat
        BY <2>1, DefsDomains
    <3>2. (i < j => p < q) /\ (j < i => q < p)
        BY <1>2, <2>1
    <3>. HIDE DEF p, q
    <3>3. i = j => p = q
        BY DEF p, q
    <3>. QED  BY <3>1, <3>2, <3>3
  <2>8. SameTab(tabs[i][k], tabs[j][l]) <=> i = j
      BY <2>1, <2>5, <2>6, <2>7, SameTabAt
  <2>9. ASSUME i < j \/ (i = j /\ k < l) PROVE DefinedBefore(tabs[i][k], tabs[j][l])
    <3>1. CASE i < j
      <4>1. p < q
          BY <1>2, <2>1, <3>1
      <4>. QED  BY <2>1, <2>5, <2>6, <4>1, DefinedBeforeAt
    <3>2. CASE i = j /\ k < l
      <4>1. p = q /\ f[k] < g[l]
          BY <2>2, <2>3, <2>4, <2>7, <3>2
      <4>. QED  BY <2>1, <2>5, <2>6, <4>1, DefinedBeforeAt
    <3>. QED  BY <2>9, <3>1, <3>2
  <2>. QED  BY <2>8, <2>9
<1>. QED  BY <1>4, <1>5, <1>6 DEF InDefinedOrder, tabs

-----------------------------------------------------------------------------
(* TabsInOrder.                                                             *)

\* What a reader's report has to be like where the reader is.
SoundReport(r) ==
    reader[r].phase \in {"futures", "numbers", "built"} => InDefinedOrder(reader[r].report.tabs)

LEMMA SoundReports == (\A r \in Readers : SoundReport(r)) <=> TabsInOrder
BY DEF SoundReport, InDefinedOrder, TabsInOrder

LEMMA ReportsStep ==
    ASSUME TypeOK, [Next]_vars, \A r \in Readers : SoundReport(r)
    PROVE  \A r \in Readers : SoundReport(r)'
<1>1. ASSUME NEW r \in Readers, Others(r), SoundReport(r)' PROVE \A q \in Readers : SoundReport(q)'
    BY <1>1 DEF Others, SoundReport
<1>2. ASSUME UNCHANGED reader PROVE \A q \in Readers : SoundReport(q)'
    BY <1>2 DEF SoundReport
<1>3. ASSUME NEW r \in Readers, NEW d \in Dates, Cached(r, d) \/ buildReport(r, d)
      PROVE  \A q \in Readers : SoundReport(q)'
  <2>1. Others(r) /\ reader'[r].phase \in {"answered", "stocks"}
      BY <1>3, CachedMoves, buildReportMoves
  <2>2. SoundReport(r)'
      BY <2>1 DEF SoundReport
  <2>. QED  BY <1>1, <2>1, <2>2
<1>4. ASSUME NEW r \in Readers, Gather(r) PROVE \A q \in Readers : SoundReport(q)'
  <2>1. /\ Others(r)
        /\ \/ /\ reader'[r].phase = "futures" /\ SP500 \in Quoted(channel[r])
              /\ reader'[r].report.tabs = Tabs(channel[r])
           \/ reader'[r].phase = "answered"
      BY <1>4, GatherMoves
  <2>2. SoundReport(r)'
      BY <2>1, TabsOrdered DEF SoundReport
  <2>. QED  BY <1>1, <2>1, <2>2
<1>5. ASSUME NEW r \in Readers, fetchFutures(r) PROVE \A q \in Readers : SoundReport(q)'
  <2>1. /\ Others(r) /\ reader[r].phase = "futures"
        /\ \/ /\ reader'[r].phase = "numbers" /\ reader'[r].report.tabs = reader[r].report.tabs
           \/ reader'[r].phase = "answered"
      BY <1>5, fetchFuturesMoves DEF fetchFutures
  <2>2. SoundReport(r)'
      BY <2>1 DEF SoundReport
  <2>. QED  BY <1>1, <2>1, <2>2
<1>6. ASSUME NEW r \in Readers, FinishReport(r) PROVE \A q \in Readers : SoundReport(q)'
  <2>1. /\ Others(r) /\ reader[r].phase = "numbers"
        /\ reader'[r].report.tabs = reader[r].report.tabs
      BY <1>6, FinishReportMoves DEF FinishReport
  <2>2. SoundReport(r)'
      BY <2>1 DEF SoundReport
  <2>. QED  BY <1>1, <2>1, <2>2
<1>7. ASSUME NEW r \in Readers, Store(r) \/ Reply(r) PROVE \A q \in Readers : SoundReport(q)'
  <2>1. Others(r) /\ reader'[r].phase \in {"answered", "idle"}
      BY <1>7, StoreMoves, ReplyMoves
  <2>2. SoundReport(r)'
      BY <2>1 DEF SoundReport
  <2>. QED  BY <1>1, <2>1, <2>2
<1>8. ASSUME NEW r \in Readers, NEW s \in Symbols, Send(r, s) PROVE UNCHANGED reader
    BY <1>8 DEF Send
<1>9. Tick \/ UNCHANGED vars => UNCHANGED reader
    BY DEF Tick, vars
<1>. QED
    BY <1>2, <1>3, <1>4, <1>5, <1>6, <1>7, <1>8, <1>9 DEF Next, GetReport, Work

LEMMA ReportsInit == Init => \A r \in Readers : SoundReport(r)
BY DEF Init, SoundReport, Idle

\* In whatever order the workers answer and whichever of them fail: the tabs of a
\* report follow their definitions, without a double and without an empty tab, and
\* the S&P 500 is there (fetchWorldStockQuotes).
THEOREM TabsAlwaysInOrder == Spec => []TabsInOrder
<1>. DEFINE Inv == TypeOK /\ \A r \in Readers : SoundReport(r)
<1>1. Init => Inv
    BY NewsInit, ReportsInit
<1>2. Inv /\ [Next]_vars => Inv'
    BY TypeStep, ReportsStep
<1>3. Inv => TabsInOrder
    BY SoundReports
<1>. QED  BY <1>1, <1>2, <1>3, PTL DEF Spec

-----------------------------------------------------------------------------
(* The report's cache as a read-through cache.                              *)

\* The entries and the calls that ReadThrough sees in a state.
Entries ==
    [d \in Dates |->
        IF cache[d] = Nothing THEN Nothing
        ELSE [answer |-> [key |-> d, asked |-> cache[d].report.asked, ok |-> TRUE],
              expires |-> cache[d].expires]]
Outward(phase) ==
    CASE phase \in {"idle", "answered"} -> phase
      [] phase = "built" -> "fetched"
      [] OTHER -> "fetching"
CallAs(phase, k, t, asked, ok) ==
    [phase |-> phase, key |-> k, since |-> t, answer |-> [key |-> k, asked |-> asked, ok |-> ok]]
Outcome(r) ==
    CallAs(Outward(reader[r].phase), reader[r].report.date, reader[r].since,
           reader[r].report.asked, reader[r].ok)
Calls == [r \in Readers |-> Outcome(r)]

\* The actions of ReadThrough, in these words.
LEMMA AsHit ==
    ASSUME NEW r \in Readers, NEW d \in Dates,
           Calls[r].phase = "idle", Entries[d] # Nothing, now < Entries[d].expires,
           Calls' = [Calls EXCEPT ![r] =
                [phase |-> "answered", key |-> d, since |-> now, answer |-> Entries[d].answer]],
           now' = now, Entries' = Entries
    PROVE  ReadThrough!Hit(r, d)
BY Zenon DEF ReadThrough!Hit, ReadThrough!Live, ReadThrough!Nothing, Nothing, Entries, Calls, Outcome,
          CallAs, Outward, AnswerOf

LEMMA AsMiss ==
    ASSUME NEW r \in Readers, NEW d \in Dates,
           Calls[r].phase = "idle", ~(Entries[d] # Nothing /\ now < Entries[d].expires),
           Calls' = [Calls EXCEPT ![r] = CallAs("fetching", d, now, now, FALSE)],
           now' = now, Entries' = Entries
    PROVE  ReadThrough!Miss(r, d)
BY Zenon DEF ReadThrough!Miss, ReadThrough!Live, ReadThrough!Nothing, ReadThrough!Waiting, Nothing, Entries, Calls,
          Outcome, CallAs, Outward, AnswerOf

LEMMA AsFetch ==
    ASSUME NEW r \in Readers, NEW ok \in BOOLEAN,
           Calls[r].phase = "fetching",
           Calls' = [Calls EXCEPT ![r] =
                CallAs(IF ok \/ Calls[r].key \in {} THEN "fetched" ELSE "answered",
                       Calls[r].key, Calls[r].since, Calls[r].since, ok)],
           now' = now, Entries' = Entries
    PROVE  ReadThrough!Fetch(r)
BY Zenon DEF ReadThrough!Fetch, ReadThrough!Fetched, Entries, Calls, Outcome, CallAs, Outward, AnswerOf

LEMMA AsStore ==
    ASSUME NEW r \in Readers,
           Calls[r].phase = "fetched",
           Entries' = [Entries EXCEPT ![Calls[r].key] = [answer |-> Calls[r].answer, expires |-> now + CacheTTL]],
           Calls' = [Calls EXCEPT ![r].phase = "answered"],
           now' = now
    PROVE  ReadThrough!Store(r)
BY Zenon DEF ReadThrough!Store, Entries, Calls, Outcome, CallAs, Outward, AnswerOf

LEMMA AsReturn ==
    ASSUME NEW r \in Readers,
           Calls[r].phase = "answered",
           Calls' = [Calls EXCEPT ![r] = CallAs("idle", Calls[r].key, 0, 0, FALSE)],
           now' = now, Entries' = Entries
    PROVE  ReadThrough!Return(r)
BY Zenon DEF ReadThrough!Return, ReadThrough!Waiting, Entries, Calls, Outcome, CallAs, Outward, AnswerOf

LEMMA AsTick ==
    ASSUME now < MaxTime,
           \A r \in Readers :
             Calls[r].phase \in {"fetching", "fetched"} => now < Calls[r].since + MaxBuild,
           now' = now + 1, Entries' = Entries, Calls' = Calls
    PROVE  ReadThrough!Tick
BY Zenon DEF ReadThrough!Tick, Entries, Calls, Outcome, CallAs, Outward, AnswerOf

LEMMA AsStutter ==
    ASSUME now' = now, Entries' = Entries, Calls' = Calls
    PROVE  UNCHANGED ReadThrough!vars
BY Zenon DEF ReadThrough!vars, Entries, Calls, Outcome, CallAs, Outward, AnswerOf

\* What a reader's call looks like from outside follows from these fields.
LEMMA CallsAt ==
    ASSUME NEW r \in Readers
    PROVE  Calls[r] = Outcome(r)
BY DEF Calls

LEMMA CallsMove ==
    ASSUME TypeOK, NEW r \in Readers, Others(r)
    PROVE  Calls' = [Calls EXCEPT ![r] = Outcome(r)']
<1>1. \A q \in Readers : q # r => Outcome(q)' = Outcome(q)
    BY DEF Others, Outcome
<1>. QED  BY <1>1 DEF Calls

LEMMA EntriesAt ==
    ASSUME TypeOK, NEW d \in Dates
    PROVE  /\ cache[d] = Nothing <=> Entries[d] = Nothing
           /\ cache[d] # Nothing =>
                /\ Entries[d].answer = [key |-> d, asked |-> cache[d].report.asked, ok |-> TRUE]
                /\ Entries[d].expires = cache[d].expires
<1>. DEFINE e == [answer |-> [key |-> d, asked |-> cache[d].report.asked, ok |-> TRUE],
                  expires |-> cache[d].expires]
<1>1. Entries[d] = IF cache[d] = Nothing THEN Nothing ELSE e
    BY DEF Entries
<1>2. e # Nothing
  <2>1. "none" \in DOMAIN Nothing /\ "none" \notin DOMAIN e
      BY DEF Nothing
  <2>. HIDE DEF e
  <2>. QED  BY <2>1
<1>3. /\ e.answer = [key |-> d, asked |-> cache[d].report.asked, ok |-> TRUE]
      /\ e.expires = cache[d].expires
    OBVIOUS
<1>. HIDE DEF e
<1>. QED  BY <1>1, <1>2, <1>3

LEMMA EntryThere == \A e \in Entry : e # Nothing
<1>. SUFFICES ASSUME NEW e \in Entry, e = Nothing PROVE FALSE
    OBVIOUS
<1>1. "none" \in DOMAIN e
    BY DEF Nothing
<1>2. "none" \notin DOMAIN e
    BY DEF Entry
<1>. QED  BY <1>1, <1>2

\* A reader at work asked when its work began, and has nothing to show before the
\* report is built.
Progress(r) ==
    /\ reader[r].phase \in {"stocks", "futures", "numbers", "built"} =>
         reader[r].report.asked = reader[r].since
    /\ reader[r].phase # "answered" => (reader[r].ok <=> reader[r].phase = "built")

LEMMA OutwardPhases ==
    /\ Outward("idle") = "idle" /\ Outward("answered") = "answered" /\ Outward("built") = "fetched"
    /\ Outward("stocks") = "fetching" /\ Outward("futures") = "fetching"
    /\ Outward("numbers") = "fetching"
BY DEF Outward

LEMMA CallFields ==
    \A phase, k, t, asked, ok :
        LET c == CallAs(phase, k, t, asked, ok)
        IN  c.phase = phase /\ c.key = k /\ c.since = t
BY DEF CallAs

\* One reader's step, seen from outside: an operation of the cache, or nothing.
LEMMA ReadersStep ==
    ASSUME TypeOK, \A q \in Readers : Progress(q), NEW r \in Readers, GetReport(r) \/ Work(r)
    PROVE  /\ ReadThrough!Step(r) \/ UNCHANGED ReadThrough!vars
           /\ Progress(r)' /\ Others(r)
<1>. DEFINE old == reader[r]
            new == reader'[r]
<1>1. /\ old \in Reader /\ old.ok \in BOOLEAN /\ old.report \in Report /\ old.report.date \in Dates
      /\ Calls[r] = CallAs(Outward(old.phase), old.report.date, old.since, old.report.asked, old.ok)
      /\ Progress(r)
    BY CallsAt DEF TypeOK, Reader, Report, Outcome
<1>2. Outcome(r)' = CallAs(Outward(new.phase), new.report.date, new.since, new.report.asked, new.ok)
    BY DEF Outcome
<1>3. /\ Calls[r].phase = Outward(old.phase) /\ Calls[r].key = old.report.date
      /\ Calls[r].since = old.since
  <2>. HIDE DEF old
  <2>. QED  BY <1>1, CallFields
<1>4. cache' = cache => Entries' = Entries
    BY DEF Entries
<1>5. ASSUME NEW d \in Dates, Cached(r, d)
      PROVE  ReadThrough!Hit(r, d) /\ Progress(r)' /\ Others(r)
  <2>1. /\ new.phase = "answered" /\ new.since = now /\ new.ok /\ new.report = cache[d].report
        /\ cache[d].report.date = d /\ Others(r) /\ new \in Reader
      BY <1>5, CachedMoves
  <2>2. old.phase = "idle" /\ cache[d] # Nothing /\ now < cache[d].expires /\ now' = now /\ cache' = cache
      BY <1>5 DEF Cached, Live
  <2>3. new.ok = TRUE
      BY <2>1 DEF Reader
  <2>. HIDE DEF old, new
  <2>4. /\ Entries[d] # Nothing /\ now < Entries[d].expires
        /\ Entries[d].answer = [key |-> d, asked |-> cache[d].report.asked, ok |-> TRUE]
      BY <2>2, EntriesAt
  <2>5. Outcome(r)' = CallAs("answered", d, now, cache[d].report.asked, TRUE)
      BY <1>2, <2>1, <2>3, OutwardPhases
  <2>6. Outcome(r)' = [phase |-> "answered", key |-> d, since |-> now, answer |-> Entries[d].answer]
      BY <2>4, <2>5 DEF CallAs
  <2>7. Calls' = [Calls EXCEPT ![r] =
            [phase |-> "answered", key |-> d, since |-> now, answer |-> Entries[d].answer]]
      BY <2>1, <2>6, CallsMove
  <2>8. ReadThrough!Hit(r, d)
      BY <1>3, <1>4, <2>2, <2>4, <2>7, OutwardPhases, AsHit
  <2>9. Progress(r)'
      BY <2>1 DEF Progress, new
  <2>. QED  BY <2>1, <2>8, <2>9
<1>6. ASSUME NEW d \in Dates, buildReport(r, d)
      PROVE  ReadThrough!Miss(r, d) /\ Progress(r)' /\ Others(r)
  <2>1. /\ new.phase = "stocks" /\ new.since = now /\ ~new.ok /\ new.report.date = d
        /\ new.report.asked = now /\ Others(r) /\ new \in Reader
      BY <1>6, buildReportMoves
  <2>2. old.phase = "idle" /\ ~(cache[d] # Nothing /\ now < cache[d].expires) /\ now' = now /\ cache' = cache
      BY <1>6 DEF buildReport, Live
  <2>3. new.ok = FALSE
      BY <2>1 DEF Reader
  <2>. HIDE DEF old, new
  <2>4. ~(Entries[d] # Nothing /\ now < Entries[d].expires)
      BY <2>2, EntriesAt
  <2>5. Outcome(r)' = CallAs("fetching", d, now, now, FALSE)
      BY <1>2, <2>1, <2>3, OutwardPhases
  <2>6. Calls' = [Calls EXCEPT ![r] = CallAs("fetching", d, now, now, FALSE)]
      BY <2>1, <2>5, CallsMove
  <2>7. ReadThrough!Miss(r, d)
      BY <1>3, <1>4, <2>2, <2>4, <2>6, OutwardPhases, AsMiss
  <2>8. Progress(r)'
      BY <2>1 DEF Progress, new
  <2>. QED  BY <2>1, <2>7, <2>8
<1>7. ASSUME NEW s \in Symbols, Send(r, s)
      PROVE  UNCHANGED ReadThrough!vars /\ Progress(r)' /\ Others(r)
  <2>1. UNCHANGED <<now, cache, reader>>
      BY <1>7 DEF Send
  <2>2. Calls' = Calls /\ Progress(r)' /\ Others(r)
      BY <1>1, <2>1 DEF Calls, Outcome, Progress, Others
  <2>. QED  BY <1>4, <2>1, <2>2, AsStutter
<1>8. ASSUME Gather(r) \/ fetchFutures(r)
      PROVE  ReadThrough!Fetch(r) \/ UNCHANGED ReadThrough!vars
  <2>1. /\ new.phase \in {"futures", "numbers", "answered"} /\ new.since = old.since /\ ~new.ok
        /\ new.report.date = old.report.date /\ new.report.asked = old.report.asked
        /\ Others(r) /\ new \in Reader
      BY <1>8, GatherMoves, fetchFuturesMoves
  <2>2. old.phase \in {"stocks", "futures"} /\ now' = now /\ cache' = cache
      BY <1>8 DEF Gather, fetchFutures
  <2>3. new.ok = FALSE /\ old.ok = FALSE /\ old.report.asked = old.since
      BY <1>1, <2>1, <2>2 DEF Reader, Progress
  <2>4. Outward(old.phase) = "fetching"
      BY <2>2, OutwardPhases
  <2>. HIDE DEF old, new
  <2>5. CASE new.phase = "answered"
    <3>1. Outcome(r)' = CallAs("answered", Calls[r].key, Calls[r].since, Calls[r].since, FALSE)
        BY <1>2, <1>3, <2>1, <2>3, <2>5, OutwardPhases
    <3>2. Calls' = [Calls EXCEPT ![r] =
                CallAs(IF FALSE \/ Calls[r].key \in {} THEN "fetched" ELSE "answered",
                       Calls[r].key, Calls[r].since, Calls[r].since, FALSE)]
        BY <2>1, <3>1, CallsMove
    <3>. QED  BY <1>3, <1>4, <2>2, <2>4, <3>2, AsFetch
  <2>6. CASE new.phase # "answered"
    <3>1. Outward(new.phase) = "fetching"
        BY <2>1, <2>6, OutwardPhases
    <3>2. Outcome(r)' = Calls[r]
        BY <1>1, <1>2, <2>1, <2>3, <2>4, <3>1
    <3>3. Calls' = [Calls EXCEPT ![r] = Calls[r]]
        BY <2>1, <3>2, CallsMove
    <3>4. Calls' = Calls
        BY <3>3 DEF Calls
    <3>. QED  BY <1>4, <2>2, <3>4, AsStutter
  <2>. QED  BY <2>5, <2>6
<1>9. ASSUME Gather(r) \/ fetchFutures(r)
      PROVE  Progress(r)' /\ Others(r)
  <2>1. /\ new.phase \in {"futures", "numbers", "answered"} /\ new.since = old.since /\ ~new.ok
        /\ new.report.asked = old.report.asked /\ Others(r)
      BY <1>9, GatherMoves, fetchFuturesMoves
  <2>2. old.phase \in {"stocks", "futures"}
      BY <1>9 DEF Gather, fetchFutures
  <2>. QED  BY <1>1, <2>1, <2>2 DEF Progress
<1>10. ASSUME FinishReport(r)
       PROVE  ReadThrough!Fetch(r) /\ Progress(r)' /\ Others(r)
  <2>1. /\ new.phase = "built" /\ new.since = old.since /\ new.ok
        /\ new.report.date = old.report.date /\ new.report.asked = old.report.asked
        /\ Others(r) /\ new \in Reader
      BY <1>10, FinishReportMoves
  <2>2. old.phase = "numbers" /\ now' = now /\ cache' = cache
      BY <1>10 DEF FinishReport
  <2>3. new.ok = TRUE /\ old.report.asked = old.since
      BY <1>1, <2>1, <2>2 DEF Reader, Progress
  <2>. HIDE DEF old, new
  <2>4. Outcome(r)' = CallAs("fetched", Calls[r].key, Calls[r].since, Calls[r].since, TRUE)
      BY <1>2, <1>3, <2>1, <2>3, OutwardPhases
  <2>5. Calls' = [Calls EXCEPT ![r] =
              CallAs(IF TRUE \/ Calls[r].key \in {} THEN "fetched" ELSE "answered",
                     Calls[r].key, Calls[r].since, Calls[r].since, TRUE)]
      BY <2>1, <2>4, CallsMove
  <2>6. ReadThrough!Fetch(r)
      BY <1>3, <1>4, <2>2, <2>5, OutwardPhases, AsFetch
  <2>7. Progress(r)'
      BY <2>1, <2>3 DEF Progress, new
  <2>. QED  BY <2>1, <2>6, <2>7
<1>11. ASSUME Store(r)
       PROVE  ReadThrough!Store(r) /\ Progress(r)' /\ Others(r)
  <2>. DEFINE d == old.report.date
              e == NewEntry(d, old.report)
  <2>1. /\ new.phase = "answered" /\ new.since = old.since /\ new.ok = old.ok
        /\ new.report.date = d /\ new.report.asked = old.report.asked /\ Others(r)
        /\ cache' = [cache EXCEPT ![d] = e] /\ e \in Entry /\ e.report.asked = old.report.asked
        /\ e.expires = now + CacheTTL
      BY <1>11, StoreMoves
  <2>2. old.phase = "built" /\ now' = now
      BY <1>11 DEF Store
  <2>3. old.ok = TRUE /\ cache \in [Dates -> Entry \cup {Nothing}] /\ d \in Dates
      BY <1>1, <2>2 DEF Progress, TypeOK
  <2>. HIDE DEF e, old, new
  <2>4. e # Nothing
      BY <2>1, EntryThere
  <2>. DEFINE a == [key |-> d, asked |-> old.report.asked, ok |-> TRUE]
  <2>5. Calls[r] = [phase |-> "fetched", key |-> d, since |-> old.since, answer |-> a]
      BY <1>1, <2>2, <2>3, OutwardPhases DEF CallAs
  <2>6. Outcome(r)' = [phase |-> "answered", key |-> d, since |-> old.since, answer |-> a]
      BY <1>2, <2>1, <2>3, OutwardPhases DEF CallAs
  <2>7. /\ Calls[r].key = d /\ Calls[r].answer = a
        /\ Outcome(r)' = [Calls[r] EXCEPT !.phase = "answered"]
    <3>. HIDE DEF a, d
    <3>. QED  BY <2>5, <2>6
  <2>8. Entries' = [Entries EXCEPT ![d] = [answer |-> a, expires |-> now + CacheTTL]]
    <3>1. Entries'[d] = [answer |-> a, expires |-> now + CacheTTL]
        BY <2>1, <2>3, <2>4 DEF Entries
    <3>2. \A c \in Dates : c # d => Entries'[c] = Entries[c]
        BY <2>1, <2>3 DEF Entries
    <3>3. DOMAIN Entries = Dates /\ DOMAIN Entries' = Dates
        BY DEF Entries
    <3>4. Entries = [c \in Dates |-> Entries[c]] /\ Entries' = [c \in Dates |-> Entries'[c]]
        BY DEF Entries
    <3>. HIDE DEF a, d
    <3>. QED  BY <3>1, <3>2, <3>3, <3>4
  <2>9. Calls' = [Calls EXCEPT ![r].phase = "answered"]
    <3>1. Calls' = [Calls EXCEPT ![r] = [Calls[r] EXCEPT !.phase = "answered"]]
        BY <2>1, <2>7, CallsMove
    <3>. QED  BY <3>1
  <2>10. ReadThrough!Store(r)
      BY <1>3, <2>2, <2>7, <2>8, <2>9, OutwardPhases, AsStore
  <2>11. Progress(r)'
      BY <2>1 DEF Progress, new
  <2>. QED  BY <2>1, <2>10, <2>11
<1>12. ASSUME Reply(r)
       PROVE  ReadThrough!Return(r) /\ Progress(r)' /\ Others(r)
  <2>1. /\ new.phase = "idle" /\ new.since = 0 /\ ~new.ok
        /\ new.report.date = old.report.date /\ new.report.asked = 0
        /\ Others(r) /\ new \in Reader
      BY <1>12, ReplyMoves
  <2>2. old.phase = "answered" /\ now' = now /\ cache' = cache
      BY <1>12 DEF Reply
  <2>3. new.ok = FALSE
      BY <2>1 DEF Reader
  <2>. HIDE DEF old, new
  <2>4. Outcome(r)' = CallAs("idle", Calls[r].key, 0, 0, FALSE)
      BY <1>2, <1>3, <2>1, <2>3, OutwardPhases
  <2>5. Calls' = [Calls EXCEPT ![r] = CallAs("idle", Calls[r].key, 0, 0, FALSE)]
      BY <2>1, <2>4, CallsMove
  <2>6. ReadThrough!Return(r)
      BY <1>3, <1>4, <2>2, <2>5, OutwardPhases, AsReturn
  <2>7. Progress(r)'
      BY <2>1 DEF Progress, new
  <2>. QED  BY <2>1, <2>6, <2>7
<1>. HIDE DEF old, new
<1>13. CASE GetReport(r)
  <2>1. PICK d \in Dates : Cached(r, d) \/ buildReport(r, d)
      BY <1>13 DEF GetReport
  <2>2. ReadThrough!Hit(r, d) \/ ReadThrough!Miss(r, d)
      BY <1>5, <1>6, <2>1
  <2>3. ReadThrough!Step(r)
      BY <2>2 DEF ReadThrough!Step
  <2>. QED  BY <1>5, <1>6, <2>1, <2>3
<1>14. CASE Work(r)
  <2>1. CASE \E s \in Symbols : Send(r, s)
      BY <1>7, <2>1
  <2>2. CASE Gather(r) \/ fetchFutures(r)
    <3>1. ReadThrough!Fetch(r) \/ UNCHANGED ReadThrough!vars
        BY <1>8, <2>2
    <3>2. ReadThrough!Step(r) \/ UNCHANGED ReadThrough!vars
        BY <3>1, Zenon DEF ReadThrough!Step
    <3>. QED  BY <1>9, <2>2, <3>2
  <2>3. CASE FinishReport(r)
    <3>1. ReadThrough!Step(r)
        BY <1>10, <2>3, Zenon DEF ReadThrough!Step
    <3>. QED  BY <1>10, <2>3, <3>1
  <2>4. CASE Store(r)
    <3>1. ReadThrough!Step(r)
        BY <1>11, <2>4, Zenon DEF ReadThrough!Step
    <3>. QED  BY <1>11, <2>4, <3>1
  <2>5. CASE Reply(r)
    <3>1. ReadThrough!Step(r)
        BY <1>12, <2>5, Zenon DEF ReadThrough!Step
    <3>. QED  BY <1>12, <2>5, <3>1
  <2>. QED  BY <1>14, <2>1, <2>2, <2>3, <2>4, <2>5 DEF Work
<1>. QED  BY <1>13, <1>14

Sound == TypeOK /\ \A r \in Readers : Progress(r)

LEMMA SoundStep ==
    ASSUME Sound, [Next]_vars
    PROVE  Sound' /\ (ReadThrough!Next \/ UNCHANGED ReadThrough!vars)
<1>. USE DEF Sound
<1>1. TypeOK'
    BY TypeStep
<1>2. ASSUME NEW r \in Readers, GetReport(r) \/ Work(r)
      PROVE  (\A q \in Readers : Progress(q)') /\ (ReadThrough!Next \/ UNCHANGED ReadThrough!vars)
  <2>1. /\ ReadThrough!Step(r) \/ UNCHANGED ReadThrough!vars
        /\ Progress(r)' /\ Others(r)
      BY <1>2, ReadersStep
  <2>2. ReadThrough!Step(r) => ReadThrough!Next
      BY Zenon DEF ReadThrough!Next
  <2>3. \A q \in Readers : Progress(q)'
      BY <2>1 DEF Others, Progress
  <2>. QED  BY <2>1, <2>2, <2>3
<1>3. ASSUME Tick
      PROVE  (\A q \in Readers : Progress(q)') /\ ReadThrough!Next
  <2>1. now < MaxTime /\ now' = now + 1 /\ UNCHANGED <<cache, reader>>
      BY <1>3 DEF Tick
  <2>2. Calls' = Calls /\ Entries' = Entries
      BY <2>1 DEF Calls, Outcome, Entries
  <2>3. \A r \in Readers :
          Calls[r].phase \in {"fetching", "fetched"} => now < Calls[r].since + MaxBuild
    <3>. TAKE r \in Readers
    <3>1. Calls[r].phase = Outward(reader[r].phase) /\ Calls[r].since = reader[r].since
        BY CallsAt, CallFields DEF Outcome
    <3>2. reader[r].phase \in Phases
        BY DEF TypeOK, Reader
    <3>3. Outward(reader[r].phase) \in {"fetching", "fetched"}
             => reader[r].phase \in Phases \ {"idle", "answered"}
        BY <3>2, OutwardPhases DEF Phases
    <3>. QED  BY <1>3, <3>1, <3>3 DEF Tick
  <2>4. ReadThrough!Tick
      BY <2>1, <2>2, <2>3, AsTick
  <2>5. \A q \in Readers : Progress(q)'
      BY <2>1 DEF Progress
  <2>. QED  BY <2>4, <2>5, Zenon DEF ReadThrough!Next
<1>4. CASE UNCHANGED vars
  <2>1. Calls' = Calls /\ Entries' = Entries /\ now' = now
      BY <1>4 DEF Calls, Outcome, Entries, vars
  <2>2. \A q \in Readers : Progress(q)'
      BY <1>4 DEF Progress, vars
  <2>. QED  BY <1>1, <2>1, <2>2, AsStutter
<1>. QED  BY <1>1, <1>2, <1>3, <1>4 DEF Next

LEMMA SoundInit == Init => Sound /\ ReadThrough!Init
<1>. SUFFICES ASSUME Init PROVE Sound /\ ReadThrough!Init
    OBVIOUS
<1>1. \A r \in Readers : \E d \in Dates : reader[r] = Idle(d)
    BY DEF Init
<1>2. \A d \in Dates : /\ Idle(d).phase = "idle" /\ Idle(d).since = 0 /\ Idle(d).ok = FALSE
                       /\ Idle(d).report.date = d /\ Idle(d).report.asked = 0
    BY DEF Idle, Blank
<1>3. \A r \in Readers : Progress(r)
    BY <1>1, <1>2 DEF Progress
<1>4. \A r \in Readers : \E d \in Dates : Outcome(r) = CallAs("idle", d, 0, 0, FALSE)
    BY <1>1, <1>2, OutwardPhases DEF Outcome
<1>5. Calls \in [Readers -> {CallAs("idle", d, 0, 0, FALSE) : d \in Dates}]
    BY <1>4 DEF Calls
<1>6. now = 0 /\ Entries = [d \in Dates |-> Nothing]
  <2>1. \A d \in Dates : cache[d] = Nothing
      BY DEF Init
  <2>. QED  BY <2>1 DEF Init, Entries
<1>7. ReadThrough!Init
    BY <1>5, <1>6, Zenon DEF ReadThrough!Init, ReadThrough!Waiting, ReadThrough!Nothing, Nothing,
           Entries, Calls, Outcome, CallAs, Outward, AnswerOf
<1>. QED  BY <1>3, <1>7, NewsInit DEF Sound

\* GetReport is a read-through cache that keeps no failure: whatever becomes of the
\* workers and of the four parts that follow, a reader sees a cached answer, or one
\* attempt that fails, or one that succeeds and is stored.
THEOREM NewsImplementsReadThrough == Spec => ImplementsReadThrough
<1>1. [Next]_vars /\ Sound => Sound' /\ [ReadThrough!Next]_(ReadThrough!vars)
    BY SoundStep
<1>2. Init => Sound /\ ReadThrough!Init
    BY SoundInit
<1>. QED  BY <1>1, <1>2, PTL DEF Spec, ImplementsReadThrough, ReadThrough!Spec

Served == INSTANCE ReadThroughProofs WITH
    Keys <- Dates, Callers <- Readers, TTL <- CacheTTL, MaxFetch <- MaxBuild, KeepsFailure <- {},
    cache <- Entries, call <- Calls

LEMMA ServedAlike ==
    /\ ReadThrough!Init => Served!Init
    /\ [ReadThrough!Next]_(ReadThrough!vars) => [Served!Next]_(Served!vars)
<1>. USE DEF Entries, Calls, Outcome, CallAs, Outward, AnswerOf, Nothing, ReadThrough!Nothing, Served!Nothing,
             ReadThrough!Waiting, Served!Waiting
<1>1. ReadThrough!Init => Served!Init
    BY Zenon DEF ReadThrough!Init, Served!Init
<1>2. ReadThrough!vars = Served!vars
    BY Zenon DEF ReadThrough!vars, Served!vars
<1>10. ReadThrough!vars' = Served!vars'
    BY Zenon DEF ReadThrough!vars, Served!vars
<1>3. \A r \in Readers, d \in Dates : ReadThrough!Hit(r, d) => Served!Hit(r, d)
    BY Zenon DEF ReadThrough!Hit, Served!Hit, ReadThrough!Live, Served!Live
<1>4. \A r \in Readers, d \in Dates : ReadThrough!Miss(r, d) => Served!Miss(r, d)
    BY Zenon DEF ReadThrough!Miss, Served!Miss, ReadThrough!Live, Served!Live
<1>5. \A r \in Readers : ReadThrough!Fetch(r) => Served!Fetch(r)
    BY Zenon DEF ReadThrough!Fetch, Served!Fetch, ReadThrough!Fetched, Served!Fetched
<1>6. \A r \in Readers : ReadThrough!Store(r) => Served!Store(r)
    BY Zenon DEF ReadThrough!Store, Served!Store
<1>7. \A r \in Readers : ReadThrough!Return(r) => Served!Return(r)
    BY Zenon DEF ReadThrough!Return, Served!Return
<1>8. ReadThrough!Tick => Served!Tick
    BY Zenon DEF ReadThrough!Tick, Served!Tick
<1>9. ReadThrough!Next => Served!Next
  <2>1. \A r \in Readers : ReadThrough!Step(r) => Served!Step(r)
      BY <1>3, <1>4, <1>5, <1>6, <1>7, Zenon DEF ReadThrough!Step, Served!Step
  <2>. QED  BY <1>8, <2>1, Zenon DEF ReadThrough!Next, Served!Next
<1>. QED  BY <1>1, <1>2, <1>10, <1>9, Zenon

\* What a reader is shown was built no longer ago than an entry lives and a build
\* takes, and a failure is the reader's own.
RecentReport(r) ==
    reader[r].phase = "answered" =>
        /\ reader[r].since < reader[r].report.asked + MaxBuild + CacheTTL
        /\ reader[r].ok \/ reader[r].report.asked = reader[r].since

LEMMA RecentFromOutside == Served!AnswersAreRecent => \A r \in Readers : RecentReport(r)
<1>. SUFFICES ASSUME Served!AnswersAreRecent, NEW r \in Readers, reader[r].phase = "answered"
              PROVE  /\ reader[r].since < reader[r].report.asked + MaxBuild + CacheTTL
                     /\ reader[r].ok \/ reader[r].report.asked = reader[r].since
    BY DEF RecentReport
<1>. DEFINE k == reader[r].report.date
            t == reader[r].since
            asked == reader[r].report.asked
            ok == reader[r].ok
<1>1. Calls[r] = CallAs("answered", k, t, asked, ok)
    BY CallsAt, OutwardPhases DEF Outcome
<1>. HIDE DEF k, t, asked, ok
<1>2. /\ Calls[r].phase = "answered" /\ Calls[r].since = t
      /\ Calls[r].answer.asked = asked /\ Calls[r].answer.ok = ok
    BY <1>1 DEF CallAs
<1>3. t < asked + MaxBuild + CacheTTL /\ (ok \/ asked = t)
    BY <1>2 DEF Served!AnswersAreRecent, Served!RecentAnswer
<1>. QED  BY <1>3 DEF t, asked, ok

\* GetReport keeps what ReadThroughProofs proves of every read-through cache, however
\* the readers' builds overlap: a report is at most CacheTTL and one build old.
THEOREM ReportsAlwaysRecent == Spec => [](\A r \in Readers : RecentReport(r))
<1>1. Served!Spec => []Served!AnswersAreRecent
    BY Served!AnswersAlwaysRecent, NewsTimesAssumption DEF Served!ReadThroughAssumption
<1>2. Spec => Served!Spec
    BY NewsImplementsReadThrough, ServedAlike, PTL
    DEF ImplementsReadThrough, ReadThrough!Spec, Served!Spec
<1>. QED  BY <1>1, <1>2, RecentFromOutside, PTL
=============================================================================
