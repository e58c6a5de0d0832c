----------------------------- MODULE NewsDigest -----------------------------
(***************************************************************************)
(* The calendar of the morning bulletin: worldnews/digest.go and the date  *)
(* helpers of worldnews/service.go.                                        *)
(*                                                                         *)
(* An instant is a number of minutes (UTC); instant 0 is a Monday midnight, *)
(* so that calendar day 0 is a Monday.  A bulletin belongs to a calendar    *)
(* day in Vietnam; markets close by the clock of New York.                 *)
(***************************************************************************)
EXTENDS Integers, Sequences, FiniteSetsExt

CONSTANTS
    SummerFrom, SummerTo,   \* New York has daylight saving time in between
    NoDate                  \* no date is asked for, or none can be read

ASSUME SummerAssumption == SummerFrom \in Int /\ SummerTo \in Int

Hour == 60
Day == 24 * Hour

MorningDigestHour == 7
ReportHistoryDays == 90

-----------------------------------------------------------------------------
(* Vietnam: GMT+7 all the year.                                             *)

vnTimezone == 7 * Hour
VnDay(t) == (t + vnTimezone) \div Day
VnClock(t) == (t + vnTimezone) % Day
VnTime(day, clock) == day * Day + clock - vnTimezone

\* From 07:00 of the day before to 07:00 of the day, the latter excluded.
morningDigestWindow(day) ==
    LET until == VnTime(day, MorningDigestHour * Hour)
    IN  [since |-> until - Day, until |-> until]

\* (Mutant: the cutoff itself is included.)
InWindowWithCutoff(t, window) == window.since <= t /\ t <= window.until
InWindow(t, window) == window.since <= t /\ t < window.until

\* parseDate: no date means the day it is now.
parseDate(date, now) == IF date = NoDate THEN VnDay(now) ELSE date

\* The days a reader can choose, the newest first.
GetAvailableDates(now) == [i \in 1 .. ReportHistoryDays |-> VnDay(now) - (i - 1)]

-----------------------------------------------------------------------------
(* New York.                                                                *)

Summer(t) == SummerFrom <= t /\ t < SummerTo
EasternOffset(t) == IF Summer(t) THEN 4 * Hour ELSE 5 * Hour
EasternDay(t) == (t - EasternOffset(t)) \div Day
EasternTime(day, clock) ==
    LET inSummer == day * Day + clock + 4 * Hour
    IN  IF Summer(inSummer) THEN inSummer ELSE inSummer + Hour

SessionClose(day) == EasternTime(day, 16 * Hour)

Weekend(day) == day % 7 \in {5, 6}

normalizeTradingDay(day) == Max({d \in day - 2 .. day : ~Weekend(d)})

\* The last session that has closed when the bulletin is.  (A holiday of New York
\* on a weekday counts as a session here, as it does in the code.)
digestMarketQuoteDay(day) ==
    LET cutoff == morningDigestWindow(day).until
        anchor == EasternDay(cutoff)
        closed == {d \in anchor - 9 .. anchor : ~Weekend(d) /\ SessionClose(d) < cutoff}
    IN  IF closed # {} THEN Max(closed)
        ELSE EasternDay(VnTime(normalizeTradingDay(day), 0))

-----------------------------------------------------------------------------
\* Whatever is published belongs to the bulletin of exactly one day.
InOneDigest(t) ==
    LET days == {d \in VnDay(t) - 2 .. VnDay(t) + 2 : InWindow(t, morningDigestWindow(d))}
    IN  \E d \in days : days = {d}

\* From one day's bulletin to the next: the windows leave nothing out between
\* them, and neither do the sessions they name; a session whose close is in the
\* window is the one that is named, and over a weekend the last one is kept.
FollowsOn(earlier, later) ==
    /\ later.since = earlier.until
    /\ earlier.quoteDay <= later.quoteDay
    /\ \A d \in earlier.quoteDay + 1 .. later.quoteDay - 1 : Weekend(d)
    /\ \A d \in earlier.quoteDay .. later.day :
          ~Weekend(d) /\ InWindow(SessionClose(d), later) => d = later.quoteDay

\* The first of the dates offered is the one that no date stands for, and each
\* of them is the day of its own bulletin.
DatesOffered(now) ==
    LET dates == GetAvailableDates(now)
    IN  /\ dates[1] = parseDate(NoDate, now)
        /\ \A i \in 1 .. Len(dates) - 1 : dates[i + 1] = dates[i] - 1
        /\ \A i \in 1 .. Len(dates) : VnDay(morningDigestWindow(dates[i]).until) = dates[i]
=============================================================================
