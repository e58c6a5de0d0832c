------------------------------ MODULE Bulletin ------------------------------
(***************************************************************************)
(* Which day's bulletin a request is given, with which window and which      *)
(* session's label: GetReport and GetAvailableDates of worldnews/service.go  *)
(* without the cache (WorldNews) and the contents (NewsFeeds, NewsQuotes),   *)
(* while the clock runs over weekends and changes of the clocks in New York. *)
(***************************************************************************)
EXTENDS NewsDigest, SequencesExt

CONSTANTS
    FirstInstants,      \* when the server may be started
    Pauses,             \* how long may pass between two requests
    LastInstant         \* bound: the last instant looked at

ASSUME BulletinAssumption == FirstInstants \subseteq Int /\ Pauses \subseteq Nat

VARIABLES
    clock,
    bulletin            \* the bulletin that was asked for last

bulletinVars == <<clock, bulletin>>

NoBulletin == [none |-> TRUE]

\* `quoteDay` is the session of the label, and the one whose prices Yahoo is asked
\* for; CNBC is asked for its last price, whatever the day (NewsQuotes).
buildBulletin(day) ==
    LET window == morningDigestWindow(day)
    IN  [day |-> day, since |-> window.since, until |-> window.until,
         quoteDay |-> digestMarketQuoteDay(day)]

BulletinInit == clock \in FirstInstants /\ bulletin = NoBulletin

\* Today's, if no date is asked for; the page offers the dates of three months.
GetBulletin ==
    /\ \E date \in ToSet(GetAvailableDates(clock)) \cup {NoDate} :
         bulletin' = buildBulletin(parseDate(date, clock))
    /\ UNCHANGED clock

Wait ==
    /\ \E pause \in Pauses : clock + pause <= LastInstant /\ clock' = clock + pause
    /\ UNCHANGED bulletin

BulletinNext == GetBulletin \/ Wait

BulletinSpec == BulletinInit /\ [][BulletinNext]_bulletinVars

-----------------------------------------------------------------------------
\* Whatever is published now belongs to the bulletin of exactly one day, and the
\* dates offered are those of their bulletins.  A bulletin goes on where that of
\* the day before ends, with its news and with the session it names.
BulletinDays ==
    /\ InOneDigest(clock)
    /\ DatesOffered(clock)
    /\ bulletin # NoBulletin => FollowsOn(buildBulletin(bulletin.day - 1), bulletin)
=============================================================================
