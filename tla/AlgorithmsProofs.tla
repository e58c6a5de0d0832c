-------------------------- MODULE AlgorithmsProofs --------------------------
(***************************************************************************)
(* Theorems about what a morning report is made of: its calendar            *)
(* (NewsDigest, Bulletin), for every instant and whatever the rules of       *)
(* daylight saving time are, and its prices and news (Contents), for          *)
(* whatever the services answer; and about the answers of Gemini             *)
(* (ProviderCalls), for whatever it answers.                                 *)
(***************************************************************************)
EXTENDS Bulletin, Contents, ProviderCalls, SequenceTheorems, FiniteSetTheorems, WellFoundedInduction, TLAPS

-----------------------------------------------------------------------------
(* The calendar.                                                            *)

\* The window of a day is the UTC day before it (digest.go, morningDigestWindow).
LEMMA WindowIsUtcDay ==
    \A d \in Int : morningDigestWindow(d) = [since |-> d * 1440 - 1440, until |-> d * 1440]
BY DEF morningDigestWindow, VnTime, MorningDigestHour, Hour, Day, vnTimezone

LEMMA InWindowOfUtcDay ==
    \A d, t \in Int : InWindow(t, morningDigestWindow(d)) <=> t \div 1440 = d - 1
<1>. SUFFICES ASSUME NEW d \in Int, NEW t \in Int
              PROVE InWindow(t, morningDigestWindow(d)) <=> t \div 1440 = d - 1
    OBVIOUS
<1>1. InWindow(t, morningDigestWindow(d)) <=> d * 1440 - 1440 <= t /\ t < d * 1440
  <2>1. morningDigestWindow(d) = [since |-> d * 1440 - 1440, until |-> d * 1440]
      BY WindowIsUtcDay
  <2>. QED  BY <2>1 DEF InWindow
<1>2. (d * 1440 - 1440 <= t /\ t < d * 1440) <=> t \div 1440 = d - 1
    OBVIOUS
<1>. QED  BY <1>1, <1>2

\* An item of any date is in the window of exactly one day's bulletin, so that
\* fetchNewsForReport and its likes show it once over all the days.
THEOREM EveryInstantInOneDigest == \A t \in Int : InOneDigest(t)
<1>. SUFFICES ASSUME NEW t \in Int PROVE InOneDigest(t)
    OBVIOUS
<1>. DEFINE d == t \div 1440 + 1
            days == {e \in VnDay(t) - 2 .. VnDay(t) + 2 : InWindow(t, morningDigestWindow(e))}
<1>1. d \in Int
    OBVIOUS
<1>2. VnDay(t) \in Int /\ d - 1 <= VnDay(t) /\ VnDay(t) <= d
    BY DEF VnDay, vnTimezone, Day, Hour
<1>3. \A e \in Int : InWindow(t, morningDigestWindow(e)) <=> e = d
  <2>. SUFFICES ASSUME NEW e \in Int PROVE InWindow(t, morningDigestWindow(e)) <=> e = d
      OBVIOUS
  <2>1. InWindow(t, morningDigestWindow(e)) <=> t \div 1440 = e - 1
      BY InWindowOfUtcDay
  <2>. QED  BY <2>1
<1>4. days = {d}
    BY <1>1, <1>2, <1>3
<1>. QED  BY <1>4 DEF InOneDigest

\* The day of a bulletin is the Vietnamese day on which its window ends, so that
\* parseDate and the label of the window name the same day.
THEOREM WindowEndsOnItsDay ==
    \A d \in Int : VnDay(morningDigestWindow(d).until) = d
<1>. SUFFICES ASSUME NEW d \in Int PROVE VnDay(morningDigestWindow(d).until) = d
    OBVIOUS
<1>1. morningDigestWindow(d).until = d * 1440
    BY WindowIsUtcDay
<1>. QED  BY <1>1 DEF VnDay, vnTimezone, Day, Hour

\* The dates offered are the days of their own bulletins, the newest first, for
\* every instant at which they are asked for (GetAvailableDates).
THEOREM DatesAlwaysOffered == \A t \in Int : DatesOffered(t)
<1>. SUFFICES ASSUME NEW t \in Int PROVE DatesOffered(t)
    OBVIOUS
<1>. DEFINE dates == GetAvailableDates(t)
<1>1. VnDay(t) \in Int
    BY DEF VnDay, vnTimezone, Day, Hour
<1>2. dates \in [1 .. 90 -> Int] /\ Len(dates) = 90
    BY <1>1 DEF GetAvailableDates, ReportHistoryDays
<1>3. \A i \in 1 .. 90 : dates[i] = VnDay(t) - (i - 1)
    BY DEF GetAvailableDates, ReportHistoryDays
<1>4. dates[1] = parseDate(NoDate, t)
    BY <1>1, <1>3 DEF parseDate
<1>5. \A i \in 1 .. 89 : dates[i + 1] = dates[i] - 1
    BY <1>1, <1>3
<1>6. \A i \in 1 .. 90 : VnDay(morningDigestWindow(dates[i]).until) = dates[i]
    BY <1>2, WindowEndsOnItsDay
<1>. QED  BY <1>2, <1>4, <1>5, <1>6 DEF DatesOffered

\* The session that a bulletin names is the last weekday's in New York before the
\* bulletin's day: it is over at the cutoff, seven in the morning in Vietnam, in
\* summer and in winter, and that of the day itself is not.
LEMMA SessionsOverAtCutoff ==
    \A day, d \in Int : SessionClose(d) < day * 1440 <=> d <= day - 1
<1>. SUFFICES ASSUME NEW day \in Int, NEW d \in Int
              PROVE SessionClose(d) < day * 1440 <=> d <= day - 1
    OBVIOUS
<1>1. SessionClose(d) = d * 1440 + 1200 \/ SessionClose(d) = d * 1440 + 1260
    BY DEF SessionClose, EasternTime, Hour, Day
<1>. QED  BY <1>1

LEMMA EasternDayOfCutoff == \A day \in Int : EasternDay(day * 1440) = day - 1
<1>. SUFFICES ASSUME NEW day \in Int PROVE EasternDay(day * 1440) = day - 1
    OBVIOUS
<1>1. EasternDay(day * 1440) = (day * 1440 - 240) \div 1440 \/ EasternDay(day * 1440) = (day * 1440 - 300) \div 1440
    BY DEF EasternDay, EasternOffset, Hour, Day
<1>. QED  BY <1>1

LEMMA LastTradingDay ==
    \A day \in Int :
        LET shown == digestMarketQuoteDay(day)
        IN  /\ shown \in day - 3 .. day - 1
            /\ ~Weekend(shown)
            /\ \A d \in shown + 1 .. day - 1 : Weekend(d)
<1>. SUFFICES ASSUME NEW day \in Int
              PROVE LET shown == digestMarketQuoteDay(day)
                    IN  /\ shown \in day - 3 .. day - 1
                        /\ ~Weekend(shown)
                        /\ \A d \in shown + 1 .. day - 1 : Weekend(d)
    OBVIOUS
<1>. DEFINE closed == {d \in (day - 1) - 9 .. day - 1 : ~Weekend(d) /\ SessionClose(d) < day * 1440}
<1>1. digestMarketQuoteDay(day) = IF closed # {} THEN Max(closed)
                                  ELSE EasternDay(VnTime(normalizeTradingDay(day), 0))
  <2>1. morningDigestWindow(day).until = day * 1440
      BY WindowIsUtcDay
  <2>2. EasternDay(day * 1440) = day - 1
      BY EasternDayOfCutoff
  <2>. DEFINE last(cutoff, anchor) ==
          LET over == {d \in anchor - 9 .. anchor : ~Weekend(d) /\ SessionClose(d) < cutoff}
          IN  IF over # {} THEN Max(over) ELSE EasternDay(VnTime(normalizeTradingDay(day), 0))
  <2>3. digestMarketQuoteDay(day) = last(morningDigestWindow(day).until,
                                         EasternDay(morningDigestWindow(day).until))
      BY Zenon DEF digestMarketQuoteDay
  <2>. HIDE DEF last
  <2>4. digestMarketQuoteDay(day) = last(day * 1440, day - 1)
      BY <2>1, <2>2, <2>3
  <2>. QED  BY <2>4, Zenon DEF last
<1>2. closed = {d \in (day - 1) - 9 .. day - 1 : ~Weekend(d)}
    BY SessionsOverAtCutoff
<1>3. \E x \in closed : x >= day - 3 /\ \A y \in closed : x >= y
  <2>1. CASE (day - 1) % 7 \notin {5, 6}
    <3>1. day - 1 \in closed
        BY <1>2, <2>1 DEF Weekend
    <3>. QED  BY <1>2, <3>1
  <2>2. CASE (day - 1) % 7 = 5
    <3>1. day - 2 \in closed /\ day - 1 \notin closed
        BY <1>2, <2>2 DEF Weekend
    <3>2. \A y \in closed : day - 2 >= y
        BY <1>2, <3>1
    <3>. QED  BY <3>1, <3>2
  <2>3. CASE (day - 1) % 7 = 6
    <3>1. day - 3 \in closed /\ day - 2 \notin closed /\ day - 1 \notin closed
        BY <1>2, <2>3 DEF Weekend
    <3>2. \A y \in closed : day - 3 >= y
        BY <1>2, <3>1
    <3>. QED  BY <3>1, <3>2
  <2>. QED  BY <2>1, <2>2, <2>3
<1>4. Max(closed) \in closed /\ \A y \in closed : Max(closed) >= y
    BY <1>3 DEF Max
<1>5. digestMarketQuoteDay(day) = Max(closed)
    BY <1>1, <1>3
<1>6. Max(closed) >= day - 3
    BY <1>2, <1>3, <1>4
<1>7. \A d \in Max(closed) + 1 .. day - 1 : Weekend(d)
    BY <1>2, <1>4, <1>6
<1>. HIDE DEF closed
<1>8. Max(closed) \in day - 3 .. day - 1 /\ ~Weekend(Max(closed))
    BY <1>2, <1>4, <1>6
<1>. QED  BY <1>5, <1>7, <1>8

-----------------------------------------------------------------------------
(* Bulletin.                                                                *)

\* Whatever is asked for, it is some day's bulletin.
BulletinInv ==
    /\ clock \in Int
    /\ bulletin # NoBulletin => \E day \in Int : bulletin = buildBulletin(day)

LEMMA BulletinStep == BulletinInv /\ [BulletinNext]_bulletinVars => BulletinInv'
<1>. SUFFICES ASSUME BulletinInv, [BulletinNext]_bulletinVars
              PROVE BulletinInv'
    OBVIOUS
<1>1. CASE GetBulletin
  <2>1. clock' \in Int
      BY <1>1 DEF GetBulletin, BulletinInv
  <2>2. VnDay(clock) \in Int
      BY DEF BulletinInv, VnDay, vnTimezone, Day, Hour
  <2>3. PICK date \in ToSet(GetAvailableDates(clock)) \cup {NoDate} :
            bulletin' = buildBulletin(parseDate(date, clock))
      BY <1>1 DEF GetBulletin
  <2>4. date = NoDate \/ date \in Int
      BY <2>2, <2>3 DEF ToSet, GetAvailableDates, ReportHistoryDays
  <2>5. parseDate(date, clock) \in Int
      BY <2>2, <2>4 DEF parseDate
  <2>. QED  BY <2>1, <2>3, <2>5 DEF BulletinInv
<1>2. CASE Wait
    BY <1>2, BulletinAssumption DEF Wait, BulletinInv, NoBulletin
<1>3. CASE UNCHANGED bulletinVars
    BY <1>3 DEF bulletinVars, BulletinInv, NoBulletin
<1>. QED  BY <1>1, <1>2, <1>3 DEF BulletinNext

LEMMA BulletinOf ==
    ASSUME NEW day \in Int
    PROVE  /\ buildBulletin(day).since = day * 1440 - 1440
           /\ buildBulletin(day).until = day * 1440
           /\ buildBulletin(day).day = day
           /\ buildBulletin(day).quoteDay = digestMarketQuoteDay(day)
<1>1. morningDigestWindow(day) = [since |-> day * 1440 - 1440, until |-> day * 1440]
    BY WindowIsUtcDay
<1>. QED  BY <1>1 DEF buildBulletin

LEMMA OneAfterTheOther ==
    ASSUME NEW day \in Int, NEW before \in Int
    PROVE  before = day - 1 => FollowsOn(buildBulletin(before), buildBulletin(day))
<1>0. SUFFICES ASSUME before = day - 1 PROVE FollowsOn(buildBulletin(before), buildBulletin(day))
    OBVIOUS
<1>. DEFINE a == buildBulletin(before)
            b == buildBulletin(day)
<1>1. /\ a.until = before * 1440 /\ a.quoteDay = digestMarketQuoteDay(before)
      /\ b.since = day * 1440 - 1440 /\ b.until = day * 1440
      /\ b.day = day /\ b.quoteDay = digestMarketQuoteDay(day)
    BY BulletinOf
<1>2. /\ a.quoteDay \in before - 3 .. before - 1 /\ ~Weekend(a.quoteDay)
      /\ \A d \in a.quoteDay + 1 .. before - 1 : Weekend(d)
    BY <1>1, LastTradingDay
<1>3. /\ b.quoteDay \in day - 3 .. day - 1 /\ ~Weekend(b.quoteDay)
      /\ \A d \in b.quoteDay + 1 .. day - 1 : Weekend(d)
    BY <1>1, LastTradingDay
<1>. HIDE DEF a, b
<1>4. a.quoteDay \in Int /\ b.quoteDay \in Int
    BY <1>2, <1>3
<1>5. b.since = a.until
    BY <1>0, <1>1
<1>6. a.quoteDay <= b.quoteDay
  <2>. SUFFICES ASSUME a.quoteDay > b.quoteDay PROVE FALSE
      BY <1>4
  <2>1. a.quoteDay \in b.quoteDay + 1 .. day - 1
      BY <1>0, <1>2, <1>4
  <2>. QED  BY <1>2, <1>3, <2>1
<1>7. \A d \in a.quoteDay + 1 .. b.quoteDay - 1 : Weekend(d)
  <2>1. b.quoteDay - 1 <= before - 1
      BY <1>0, <1>3, <1>4
  <2>. QED  BY <1>2, <1>4, <2>1
<1>8. ASSUME NEW d \in a.quoteDay .. b.day, ~Weekend(d), InWindow(SessionClose(d), b)
      PROVE  d = b.quoteDay
  <2>1. d \in Int
      BY <1>1, <1>4
  <2>2. SessionClose(d) < day * 1440 /\ ~(SessionClose(d) < before * 1440)
    <3>1. SessionClose(d) \in Int
        BY <2>1 DEF SessionClose, EasternTime, Hour, Day
    <3>. QED  BY <1>0, <1>1, <1>8, <3>1 DEF InWindow
  <2>3. d <= day - 1 /\ ~(d <= before - 1)
    <3>1. SessionClose(d) < day * 1440 <=> d <= day - 1
        BY <2>1, SessionsOverAtCutoff
    <3>2. SessionClose(d) < before * 1440 <=> d <= before - 1
        BY <2>1, SessionsOverAtCutoff
    <3>. QED  BY <2>2, <3>1, <3>2
  <2>4. d = day - 1
      BY <1>0, <2>1, <2>3
  <2>5. d \notin b.quoteDay + 1 .. day - 1
      BY <1>3, <1>8
  <2>. QED  BY <1>3, <1>4, <2>4, <2>5
<1>9. FollowsOn(a, b)
    BY <1>5, <1>6, <1>7, <1>8 DEF FollowsOn
<1>. QED  BY <1>9 DEF a, b

\* At every instant and for every day that is asked for: what is published belongs
\* to one day's bulletin, the dates offered are those of their bulletins, and a
\* bulletin follows on that of the day before: no minute and no session that it
\* could name is left out, over weekends and changes of the clocks
\* (morningDigestWindow, digestMarketQuoteDay).
THEOREM BulletinsKeepTheirDays == BulletinSpec => []BulletinDays
<1>1. BulletinInit => BulletinInv
    BY BulletinAssumption DEF BulletinInit, BulletinInv
<1>2. BulletinInv => BulletinDays
  <2>. SUFFICES ASSUME BulletinInv PROVE BulletinDays
      OBVIOUS
  <2>1. ASSUME bulletin # NoBulletin PROVE FollowsOn(buildBulletin(bulletin.day - 1), bulletin)
    <3>1. PICK day \in Int : bulletin = buildBulletin(day)
        BY <2>1 DEF BulletinInv
    <3>2. bulletin.day = day
        BY <3>1 DEF buildBulletin
    <3>. QED  BY <3>1, <3>2, OneAfterTheOther
  <2>. QED  BY <2>1, EveryInstantInOneDigest, DatesAlwaysOffered DEF BulletinInv, BulletinDays
<1>. QED  BY <1>1, <1>2, BulletinStep, PTL DEF BulletinSpec

-----------------------------------------------------------------------------
(* What a loop that appends collects: Kept, by the least number of rounds    *)
(* after which a claim would fail.                                          *)

LEMMA LeastElement ==
    ASSUME NEW T \in SUBSET Nat, T # {}
    PROVE  \E n \in T : \A m \in T : n <= m
<1>1. IsWellFoundedOn(OpToRel(<, Nat), Nat)
    BY NatLessThanWellFounded
<1>2. \E x \in T : \A y \in T : ~(<<y, x>> \in OpToRel(<, Nat))
    BY <1>1, WFMin
<1>3. \A x, y \in Nat : y < x => <<y, x>> \in OpToRel(<, Nat)
    BY DEF OpToRel
<1>4. \E x \in T : \A y \in T : ~(y < x)
    BY <1>2, <1>3, Zenon
<1>. QED  BY <1>4

\* A set of numbers up to n that holds 0, and with each of them the next, holds all.
LEMMA UpTo ==
    ASSUME NEW n \in Nat, NEW S, 0 \in S,
           \A m \in 1 .. n : m - 1 \in S => m \in S
    PROVE  0 .. n \subseteq S
<1>. DEFINE T == {m \in 0 .. n : m \notin S}
<1>1. SUFFICES ASSUME T # {} PROVE FALSE
    OBVIOUS
<1>2. PICK m \in T : \A k \in T : m <= k
  <2>1. T \in SUBSET Nat
      OBVIOUS
  <2>. HIDE DEF T
  <2>. QED  BY <1>1, <2>1, LeastElement, Zenon
<1>3. m \in 1 .. n /\ m - 1 \notin T
    BY <1>2
<1>4. m - 1 \in S
    BY <1>3
<1>. QED  BY <1>2, <1>3, <1>4

-----------------------------------------------------------------------------
\* One round of the loop of Kept.
Round(s, P, f, i) ==
    IF i = 0 THEN << >> ELSE IF i \in P THEN Append(f[i - 1], s[i]) ELSE f[i - 1]

\* The function that Kept takes the last value of.
Rounds(s, P) == CHOOSE f : f = [i \in 0 .. Len(s) |-> Round(s, P, f, i)]

LEMMA KeptIsLastRound == ASSUME NEW s, NEW P PROVE Kept(s, P) = Rounds(s, P)[Len(s)]
BY Zenon DEF Kept, Rounds, Round

LEMMA RoundsExist ==
    ASSUME NEW X, NEW s \in Seq(X), NEW P
    PROVE  /\ Rounds(s, P) \in [0 .. Len(s) -> Seq(X)]
           /\ \A i \in 0 .. Len(s) : Rounds(s, P)[i] = Round(s, P, Rounds(s, P), i)
<1>. DEFINE n == Len(s)
            Goes(m, f) == /\ f \in [0 .. m -> Seq(X)]
                          /\ \A i \in 0 .. m : f[i] = Round(s, P, f, i)
            S == {m \in 0 .. n : \E f : Goes(m, f)}
<1>1. n \in Nat /\ DOMAIN s = 1 .. n /\ \A i \in 1 .. n : s[i] \in X
    OBVIOUS
<1>2. 0 \in S
  <2>1. << >> \in Seq(X)
      OBVIOUS
  <2>2. Goes(0, [i \in 0 .. 0 |-> << >>])
      BY <2>1 DEF Round
  <2>. QED  BY <1>1, <2>2
<1>3. ASSUME NEW m \in 1 .. n, m - 1 \in S PROVE m \in S
  <2>1. PICK f : Goes(m - 1, f)
      BY <1>3
  <2>. DEFINE g == [i \in 0 .. m |-> IF i = m THEN Round(s, P, f, m) ELSE f[i]]
  <2>2. m \in Nat \ {0} /\ m - 1 \in 0 .. m - 1 /\ 0 .. m = (0 .. m - 1) \cup {m}
      BY <1>1
  <2>3. f[m - 1] \in Seq(X)
      BY <2>1, <2>2
  <2>4. s[m] \in X
      BY <1>1
  <2>5. Append(f[m - 1], s[m]) \in Seq(X)
      BY <2>3, <2>4
  <2>6. Round(s, P, f, m) \in Seq(X)
      BY <2>2, <2>3, <2>5 DEF Round
  <2>7. g \in [0 .. m -> Seq(X)]
      BY <2>1, <2>2, <2>6
  <2>8. g[m] = Round(s, P, g, m)
    <3>1. g[m - 1] = f[m - 1]
        BY <2>2
    <3>2. g[m] = Round(s, P, f, m)
        BY <2>2
    <3>. QED  BY <2>2, <3>1, <3>2 DEF Round
  <2>9. \A i \in 0 .. m - 1 : g[i] = Round(s, P, g, i)
    <3>. TAKE i \in 0 .. m - 1
    <3>1. g[i] = f[i]
        BY <2>2
    <3>2. i # 0 => g[i - 1] = f[i - 1]
        BY <2>2
    <3>3. f[i] = Round(s, P, f, i)
        BY <2>1
    <3>. HIDE DEF g
    <3>. QED  BY <3>1, <3>2, <3>3 DEF Round
  <2>. HIDE DEF g
  <2>10. Goes(m, g)
      BY <2>2, <2>7, <2>8, <2>9
  <2>11. m \in 0 .. n
      BY <1>1
  <2>. HIDE DEF Goes, n
  <2>. QED  BY <2>10, <2>11
<1>. HIDE DEF Goes
<1>4. 0 .. n \subseteq S
    BY <1>1, <1>2, <1>3, UpTo
<1>5. PICK f : Goes(n, f)
    BY <1>1, <1>4
<1>6. f = [i \in 0 .. n |-> Round(s, P, f, i)]
    BY <1>5 DEF Goes
<1>7. Rounds(s, P) = [i \in 0 .. n |-> Round(s, P, Rounds(s, P), i)]
    BY <1>6 DEF Rounds
<1>. DEFINE R == Rounds(s, P)
<1>8. \A i \in 0 .. n : R[i] = Round(s, P, R, i)
    BY <1>7
<1>9. 0 .. n \subseteq {i \in 0 .. n : R[i] \in Seq(X)}
  <2>. DEFINE Q == {i \in 0 .. n : R[i] \in Seq(X)}
  <2>1. 0 \in Q
    <3>1. << >> \in Seq(X)
        OBVIOUS
    <3>2. R[0] = << >>
        BY <1>1, <1>8 DEF Round
    <3>. HIDE DEF R
    <3>3. R[0] \in Seq(X) /\ 0 \in 0 .. n
        BY <1>1, <3>1, <3>2
    <3>. QED  BY <3>3
  <2>2. ASSUME NEW m \in 1 .. n, m - 1 \in Q PROVE m \in Q
    <3>1. R[m - 1] \in Seq(X) /\ s[m] \in X /\ m # 0 /\ m \in 0 .. n
        BY <1>1, <2>2
    <3>2. Append(R[m - 1], s[m]) \in Seq(X)
        BY <3>1
    <3>3. R[m] = Round(s, P, R, m)
        BY <1>8, <3>1
    <3>. HIDE DEF R
    <3>. QED  BY <3>1, <3>2, <3>3 DEF Round
  <2>. HIDE DEF Q
  <2>3. 0 .. n \subseteq Q
      BY <1>1, <2>1, <2>2, UpTo
  <2>. QED  BY <2>3 DEF Q
<1>10. R \in [0 .. n -> Seq(X)]
    BY <1>7, <1>9
<1>. QED  BY <1>8, <1>10

\* L lists, in order, the elements of s at those of the places 1 .. i that are in P.
Lists(L, s, P, i) ==
    \E place \in [1 .. Len(L) -> 1 .. i] :
        /\ \A k \in 1 .. Len(L) : place[k] \in P /\ L[k] = s[place[k]]
        /\ \A k, l \in 1 .. Len(L) : k < l => place[k] < place[l]
        /\ \A p \in 1 .. i : p \in P => \E k \in 1 .. Len(L) : place[k] = p

LEMMA ListsAppend ==
    ASSUME NEW X, NEW L \in Seq(X), NEW s \in Seq(X), NEW P, NEW i \in 1 .. Len(s),
           i \in P, Lists(L, s, P, i - 1)
    PROVE  Lists(Append(L, s[i]), s, P, i)
<1>. DEFINE n == Len(L)
            M == Append(L, s[i])
<1>1. PICK place \in [1 .. n -> 1 .. i - 1] :
        /\ \A k \in 1 .. n : place[k] \in P /\ L[k] = s[place[k]]
        /\ \A k, l \in 1 .. n : k < l => place[k] < place[l]
        /\ \A p \in 1 .. i - 1 : p \in P => \E k \in 1 .. n : place[k] = p
    BY DEF Lists
<1>2. /\ n \in Nat /\ i \in Nat \ {0}
      /\ Len(M) = n + 1 /\ M[n + 1] = s[i] /\ \A k \in 1 .. n : M[k] = L[k]
  <2>1. s[i] \in X
      OBVIOUS
  <2>. QED  BY <2>1
<1>. DEFINE there == [k \in 1 .. n + 1 |-> IF k = n + 1 THEN i ELSE place[k]]
<1>3. there \in [1 .. n + 1 -> 1 .. i]
    BY <1>1, <1>2
<1>4. there[n + 1] = i /\ \A k \in 1 .. n : there[k] = place[k] /\ place[k] < i
    BY <1>1, <1>2
<1>. HIDE DEF there, M, n
<1>5. \A k \in 1 .. n + 1 : there[k] \in P /\ M[k] = s[there[k]]
  <2>. TAKE k \in 1 .. n + 1
  <2>1. CASE k = n + 1
      BY <1>2, <1>4, <2>1
  <2>2. CASE k \in 1 .. n
      BY <1>1, <1>2, <1>4, <2>2
  <2>. QED  BY <1>2, <2>1, <2>2
<1>6. \A k, l \in 1 .. n + 1 : k < l => there[k] < there[l]
  <2>. SUFFICES ASSUME NEW k \in 1 .. n + 1, NEW l \in 1 .. n + 1, k < l
                PROVE there[k] < there[l]
      OBVIOUS
  <2>1. k \in 1 .. n /\ (l \in 1 .. n \/ l = n + 1)
      BY <1>2
  <2>. QED  BY <1>1, <1>4, <2>1
<1>7. \A p \in 1 .. i : p \in P => \E k \in 1 .. n + 1 : there[k] = p
  <2>. SUFFICES ASSUME NEW p \in 1 .. i, p \in P
                PROVE \E k \in 1 .. n + 1 : there[k] = p
      OBVIOUS
  <2>1. CASE p = i
    <3>1. n + 1 \in 1 .. n + 1
        BY <1>2
    <3>. QED  BY <1>4, <2>1, <3>1
  <2>2. CASE p \in 1 .. i - 1
    <3>1. PICK k \in 1 .. n : place[k] = p
        BY <1>1, <2>2
    <3>2. k \in 1 .. n + 1
        BY <1>2
    <3>. QED  BY <1>4, <3>1, <3>2
  <2>. QED  BY <1>2, <2>1, <2>2
<1>8. Lists(M, s, P, i)
  <2>1. Len(M) = n + 1
      BY <1>2
  <2>2. /\ there \in [1 .. Len(M) -> 1 .. i]
        /\ \A k \in 1 .. Len(M) : there[k] \in P /\ M[k] = s[there[k]]
        /\ \A k, l \in 1 .. Len(M) : k < l => there[k] < there[l]
        /\ \A p \in 1 .. i : p \in P => \E k \in 1 .. Len(M) : there[k] = p
      BY <1>3, <1>5, <1>6, <1>7, <2>1
  <2>. QED  BY <2>2, Zenon DEF Lists
<1>. QED  BY <1>8 DEF M

LEMMA ListsSkip ==
    ASSUME NEW L, NEW s, NEW P, NEW i \in Nat \ {0}, i \notin P, Lists(L, s, P, i - 1)
    PROVE  Lists(L, s, P, i)
<1>1. PICK place \in [1 .. Len(L) -> 1 .. i - 1] :
        /\ \A k \in 1 .. Len(L) : place[k] \in P /\ L[k] = s[place[k]]
        /\ \A k, l \in 1 .. Len(L) : k < l => place[k] < place[l]
        /\ \A p \in 1 .. i - 1 : p \in P => \E k \in 1 .. Len(L) : place[k] = p
    BY DEF Lists
<1>2. place \in [1 .. Len(L) -> 1 .. i]
    BY <1>1
<1>3. \A p \in 1 .. i : p \in P => p \in 1 .. i - 1
    OBVIOUS
<1>. QED  BY <1>1, <1>2, <1>3 DEF Lists

\* Kept(s, P) lists the elements of s at the places P (stocks.go: what an append in
\* a loop over the definitions collects).
LEMMA KeptLists ==
    ASSUME NEW X, NEW s \in Seq(X), NEW P
    PROVE  Kept(s, P) \in Seq(X) /\ Lists(Kept(s, P), s, P, Len(s))
<1>. DEFINE n == Len(s)
            R == Rounds(s, P)
            Q == {i \in 0 .. n : Lists(R[i], s, P, i)}
<1>1. n \in Nat
    OBVIOUS
<1>2. R \in [0 .. n -> Seq(X)] /\ \A i \in 0 .. n : R[i] = Round(s, P, R, i)
    BY RoundsExist
<1>. HIDE DEF R
<1>3. 0 \in Q
  <2>1. R[0] = << >>
      BY <1>1, <1>2 DEF Round
  <2>2. Lists(<< >>, s, P, 0)
    <3>. DEFINE none == [k \in 1 .. 0 |-> 0]
    <3>1. none \in [1 .. Len(<< >>) -> 1 .. 0]
        OBVIOUS
    <3>2. 1 .. Len(<< >>) = {} /\ 1 .. 0 = {}
        OBVIOUS
    <3>. HIDE DEF none
    <3>. QED  BY <3>1, <3>2, Zenon DEF Lists
  <2>. QED  BY <1>1, <2>1, <2>2
<1>4. ASSUME NEW m \in 1 .. n, m - 1 \in Q PROVE m \in Q
  <2>1. m # 0 /\ m \in 0 .. n /\ m \in Nat \ {0} /\ m - 1 \in 0 .. n
      BY <1>1
  <2>2. Lists(R[m - 1], s, P, m - 1)
      BY <1>4
  <2>3. R[m] = IF m \in P THEN Append(R[m - 1], s[m]) ELSE R[m - 1]
      BY <1>2, <2>1 DEF Round
  <2>4. R[m - 1] \in Seq(X)
      BY <1>2, <2>1
  <2>5. CASE m \in P
      BY <2>1, <2>2, <2>3, <2>4, <2>5, ListsAppend
  <2>6. CASE m \notin P
      BY <2>1, <2>2, <2>3, <2>6, ListsSkip
  <2>. QED  BY <2>5, <2>6
<1>. HIDE DEF Q
<1>5. n \in Q
  <2>. HIDE DEF n
  <2>1. 0 .. n \subseteq Q
      BY <1>1, <1>3, <1>4, UpTo
  <2>. QED  BY <1>1, <2>1
<1>6. Lists(R[n], s, P, n) /\ R[n] \in Seq(X)
    BY <1>1, <1>2, <1>5 DEF Q
<1>. QED  BY <1>6, KeptIsLastRound DEF R

-----------------------------------------------------------------------------
(* Prices.                                                                  *)

Bar == [at : Int, closed : BOOLEAN]

\* What a filter of bars leaves, in their order.
LEMMA FilteredBars ==
    ASSUME NEW bars \in Seq(Bar), NEW P
    PROVE  LET left == Kept(bars, P)
           IN  /\ left \in Seq(Bar)
               /\ \E place \in [1 .. Len(left) -> 1 .. Len(bars)] :
                    /\ \A k \in 1 .. Len(left) : place[k] \in P /\ left[k] = bars[place[k]]
                    /\ \A k, l \in 1 .. Len(left) : k < l => place[k] < place[l]
               /\ left = << >> => \A i \in 1 .. Len(bars) : i \notin P
<1>. DEFINE left == Kept(bars, P)
<1>1. left \in Seq(Bar) /\ Lists(left, bars, P, Len(bars))
    BY KeptLists
<1>. HIDE DEF left
<1>2. PICK place \in [1 .. Len(left) -> 1 .. Len(bars)] :
        /\ \A k \in 1 .. Len(left) : place[k] \in P /\ left[k] = bars[place[k]]
        /\ \A k, l \in 1 .. Len(left) : k < l => place[k] < place[l]
        /\ \A p \in 1 .. Len(bars) : p \in P => \E k \in 1 .. Len(left) : place[k] = p
    BY <1>1, Zenon DEF Lists
<1>3. left = << >> => \A i \in 1 .. Len(bars) : i \notin P
    BY <1>2
<1>. QED  BY <1>1, <1>2, <1>3, Zenon DEF left

\* Closes up to the cutoff, in the order of their time, not before the price before
\* them, and not after the market price of an index or a stock.
Closes(bars, chart, equity, cutoff) ==
    /\ bars \in Seq(Bar)
    /\ \A k \in 1 .. Len(bars) :
        /\ bars[k].at \in Int /\ bars[k].at <= cutoff
        /\ chart.before # NoTime => chart.before \in Int /\ chart.before <= bars[k].at
        /\ equity /\ chart.rm # NoTime /\ chart.rm <= cutoff => bars[k].at <= chart.rm
    /\ \A k, l \in 1 .. Len(bars) : k < l => bars[k].at < bars[l].at
    /\ OneBarADay(chart) =>
        \A k, l \in 1 .. Len(bars) : k < l => EasternDay(bars[k].at) < EasternDay(bars[l].at)

LEMMA BarsBeforeCutoff ==
    ASSUME NEW chart, NEW equity, NEW cutoff \in Int, ChartOf(chart, equity, cutoff)
    PROVE  Closes(BarsUntil(chart, cutoff), chart, equity, cutoff)
<1>. DEFINE P == {i \in DOMAIN chart.bars : chart.bars[i].closed /\ chart.bars[i].at <= cutoff}
            bars == Kept(chart.bars, P)
<1>1. BarsUntil(chart, cutoff) = bars
    BY Zenon DEF BarsUntil, Where
<1>2. chart.bars \in Seq(Bar) /\ DOMAIN chart.bars = 1 .. Len(chart.bars)
    BY DEF ChartOf, Bar
<1>. HIDE DEF P
<1>3. bars \in Seq(Bar)
    BY <1>2, FilteredBars
<1>4. PICK place \in [1 .. Len(bars) -> 1 .. Len(chart.bars)] :
        /\ \A k \in 1 .. Len(bars) : place[k] \in P /\ bars[k] = chart.bars[place[k]]
        /\ \A k, l \in 1 .. Len(bars) : k < l => place[k] < place[l]
    BY <1>2, FilteredBars
<1>. HIDE DEF bars
<1>5. ASSUME NEW k \in 1 .. Len(bars)
      PROVE  /\ bars[k].at \in Int /\ bars[k].at <= cutoff
             /\ chart.before # NoTime => chart.before \in Int /\ chart.before <= bars[k].at
             /\ equity /\ chart.rm # NoTime /\ chart.rm <= cutoff => bars[k].at <= chart.rm
  <2>1. bars[k] \in Bar
      BY <1>3
  <2>2. place[k] \in P /\ bars[k] = chart.bars[place[k]]
      BY <1>4
  <2>. QED  BY <2>1, <2>2 DEF ChartOf, Bar, P
<1>6. ASSUME NEW k \in 1 .. Len(bars), NEW l \in 1 .. Len(bars), k < l
      PROVE  /\ bars[k].at < bars[l].at
             /\ OneBarADay(chart) => EasternDay(bars[k].at) < EasternDay(bars[l].at)
  <2>1. /\ place[k] \in DOMAIN chart.bars /\ place[l] \in DOMAIN chart.bars /\ place[k] < place[l]
        /\ bars[k] = chart.bars[place[k]] /\ bars[l] = chart.bars[place[l]]
      BY <1>2, <1>4, <1>6 DEF P
  <2>. QED  BY <2>1 DEF ChartOf, OneBarADay
<1>. QED  BY <1>1, <1>3, <1>5, <1>6 DEF Closes

LEMMA LargestPlace ==
    ASSUME NEW n \in Nat, NEW T \in SUBSET (1 .. n), T # {}
    PROVE  Max(T) \in T /\ \A i \in T : Max(T) >= i
<1>. DEFINE U == {n - i : i \in T}
<1>1. U \in SUBSET Nat /\ U # {}
  <2>1. \A i \in T : n - i \in Nat
      OBVIOUS
  <2>2. PICK x : x \in T
      OBVIOUS
  <2>3. n - x \in U
      BY <2>2
  <2>. QED  BY <2>1, <2>3
<1>. HIDE DEF U
<1>2. PICK u \in U : \A m \in U : u <= m
    BY <1>1, LeastElement, Zenon
<1>3. \E x \in T : \A i \in T : x >= i
  <2>1. PICK x \in T : u = n - x
      BY <1>2 DEF U
  <2>2. \A i \in T : n - i \in U
      BY DEF U
  <2>3. \A i \in T : n - x <= n - i
      BY <1>2, <2>1, <2>2
  <2>. QED  BY <2>3
<1>. QED  BY <1>3 DEF Max

LEMMA TwoPlaces ==
    \A i, j \in Int : /\ Max({i, j}) = IF i >= j THEN i ELSE j
                      /\ Min({i, j}) = IF i <= j THEN i ELSE j
<1>. SUFFICES ASSUME NEW i \in Int, NEW j \in Int
              PROVE  /\ Max({i, j}) = IF i >= j THEN i ELSE j
                     /\ Min({i, j}) = IF i <= j THEN i ELSE j
    OBVIOUS
<1>1. \E x \in {i, j} : \A y \in {i, j} : x >= y
    OBVIOUS
<1>2. \E x \in {i, j} : \A y \in {i, j} : x <= y
    OBVIOUS
<1>3. Max({i, j}) \in {i, j} /\ \A y \in {i, j} : Max({i, j}) >= y
    BY <1>1 DEF Max
<1>4. Min({i, j}) \in {i, j} /\ \A y \in {i, j} : Min({i, j}) <= y
    BY <1>2 DEF Min
<1>. QED  BY <1>3, <1>4

LEMMA ChosenBar ==
    ASSUME NEW bars \in Seq(Bar), bars # << >>, NEW q
    PROVE  selectBarIndex(bars, q) \in 1 .. Len(bars)
<1>. DEFINE ofDay == {i \in DOMAIN bars : EasternDay(bars[i].at) = q}
<1>1. Len(bars) \in Nat \ {0} /\ DOMAIN bars = 1 .. Len(bars)
    OBVIOUS
<1>2. ofDay # {} => Max(ofDay) \in ofDay
  <2>1. ofDay \in SUBSET (1 .. Len(bars))
      BY <1>1
  <2>. HIDE DEF ofDay
  <2>. QED  BY <1>1, <2>1, LargestPlace
<1>3. selectBarIndex(bars, q) = IF ofDay # {} THEN Max(ofDay) ELSE Len(bars)
    BY Zenon DEF selectBarIndex
<1>. QED  BY <1>1, <1>2, <1>3

DayTime(rm, q, bar, cutoff) == resolvePriceTime(rm, q, bar, FALSE, cutoff)
HalfHourTime(rm, q, bar, cutoff) == resolvePriceTime(rm, q, bar, TRUE, cutoff)

\* The time of a price is before the cutoff, and a price of half an hour is said to be
\* of its own time.
LEMMA PriceTimes ==
    ASSUME NEW cutoff \in Int, NEW q \in Int, SessionClose(q) < cutoff,
           NEW rm \in Int \cup {NoTime}, NEW bar \in Int, bar <= cutoff
    PROVE  /\ DayTime(rm, q, bar, cutoff) \in Int /\ DayTime(rm, q, bar, cutoff) <= cutoff
           /\ HalfHourTime(rm, q, bar, cutoff) = IF LiveIn(rm, q, cutoff) THEN rm ELSE bar
           /\ LiveIn(rm, q, cutoff) => rm \in Int /\ rm # NoTime /\ rm <= cutoff
<1>3. SessionClose(q) \in Int
    BY DEF SessionClose, EasternTime, Hour, Day
<1>4. LiveIn(rm, q, cutoff) => rm \in Int /\ rm # NoTime /\ rm <= cutoff
    BY DEF LiveIn
<1>5. DayTime(rm, q, bar, cutoff) = IF LiveIn(rm, q, cutoff) THEN rm ELSE SessionClose(q)
    BY DEF resolvePriceTime, DayTime
<1>6. HalfHourTime(rm, q, bar, cutoff) = IF LiveIn(rm, q, cutoff) THEN rm ELSE bar
    BY DEF resolvePriceTime, HalfHourTime
<1>. QED  BY <1>3, <1>4, <1>5, <1>6

\* What QuoteBeforeCutoff says of a snapshot alone.
FromBefore(snapshot, single, cutoff) ==
    /\ snapshot.price <= cutoff
    /\ snapshot.prev <= snapshot.price
    /\ snapshot.time <= cutoff
    /\ \A at \in ToSet(snapshot.points) : at <= cutoff
    /\ Len(snapshot.labels) = Len(snapshot.points)
    /\ \A i \in DOMAIN snapshot.labels :
          /\ snapshot.labels[i] < cutoff
          /\ VnClock(snapshot.labels[i]) < MorningDigestHour * Hour
          /\ single /\ i > 1 => snapshot.labels[i - 1] < snapshot.labels[i]

LEMMA HalfHourQuote ==
    ASSUME NEW cutoff \in Int, NEW q \in Int, SessionClose(q) < cutoff, NEW chart, NEW equity \in BOOLEAN,
           ChartOf(chart, equity, cutoff), BarsUntil(chart, cutoff) # << >>, NEW single
    PROVE  LET quote == fetchPriceAtCutoff(chart, equity, q, cutoff)
           IN  /\ quote \in Snapshots
               /\ FromBefore(quote, single, cutoff)
               /\ equity => quote.time = quote.price
<1>. DEFINE bars == BarsUntil(chart, cutoff)
            n == Len(bars)
            last == bars[n].at
            prev == IF n > 1 THEN bars[n - 1].at ELSE last
            price == IF equity /\ LiveIn(chart.rm, q, cutoff) THEN chart.rm ELSE last
            time == HalfHourTime(chart.rm, q, price, cutoff)
<1>1. fetchPriceAtCutoff(chart, equity, q, cutoff) = Snapshot(price, prev, time, << >>, << >>)
    BY DEF fetchPriceAtCutoff, HalfHourTime, Last
<1>2. Closes(bars, chart, equity, cutoff) /\ bars # << >>
    BY BarsBeforeCutoff
<1>. HIDE DEF bars
<1>3. n \in Nat \ {0}
    BY <1>2 DEF Closes
<1>4. chart.rm \in Int \cup {NoTime}
    BY DEF ChartOf
<1>5. /\ last \in Int /\ last <= cutoff /\ prev \in Int /\ prev <= last
      /\ equity /\ chart.rm # NoTime /\ chart.rm <= cutoff => last <= chart.rm
    BY <1>2, <1>3 DEF Closes
<1>. HIDE DEF n, last, prev
<1>6. LiveIn(chart.rm, q, cutoff) => chart.rm \in Int /\ chart.rm # NoTime /\ chart.rm <= cutoff
    BY <1>4 DEF LiveIn
<1>7. price \in Int /\ price <= cutoff /\ prev <= price
    BY <1>5, <1>6
<1>8. equity /\ LiveIn(chart.rm, q, cutoff) => price = chart.rm
    OBVIOUS
<1>. HIDE DEF price
<1>9. time = IF LiveIn(chart.rm, q, cutoff) THEN chart.rm ELSE price
  <2>1. price \in Int
      BY <1>7
  <2>2. price <= cutoff
      BY <1>7
  <2>. QED  BY <1>4, <2>1, <2>2, PriceTimes
<1>. HIDE DEF time
<1>10. time \in Int /\ time <= cutoff /\ (equity => time = price)
    BY <1>6, <1>7, <1>8, <1>9
<1>11. Snapshot(price, prev, time, << >>, << >>) \in Snapshots
    BY <1>5, <1>7, <1>10 DEF Snapshot, Snapshots
<1>12. FromBefore(Snapshot(price, prev, time, << >>, << >>), single, cutoff)
    BY <1>5, <1>7, <1>10 DEF Snapshot, FromBefore, ToSet
<1>. QED  BY <1>1, <1>10, <1>11, <1>12 DEF Snapshot

\* The bulletins' cutoffs are midnights (UTC).
Midnight(cutoff) == \E day \in Int : cutoff = day * 1440

\* A session that has a bar before the cutoff is one before the bulletin's day.
LEMMA SessionBefore ==
    ASSUME NEW cutoff \in Int, Midnight(cutoff), NEW t \in Int, t <= cutoff
    PROVE  /\ EasternDay(t) \in Int
           /\ EasternDay(t) * 1440 + 1440 <= cutoff
           /\ EasternDay(t) * 1440 + 240 <= t
<1>1. PICK day \in Int : cutoff = day * 1440
    BY DEF Midnight
<1>2. EasternDay(t) = (t - 240) \div 1440 \/ EasternDay(t) = (t - 300) \div 1440
    BY DEF EasternDay, EasternOffset, Hour, Day
<1>. QED  BY <1>1, <1>2

\* A label of session k, or of a market price from then on.
LabelFrom(l, k, cutoff) == l \in Int /\ l < cutoff /\ VnClock(l) < 420 /\ k * 1440 - 1 <= l
LabelOf(l, k, cutoff) == LabelFrom(l, k, cutoff) /\ l <= k * 1440 + 1260

\* The label of a session is its end: three or four in the morning in Vietnam.
LEMMA SessionLabel ==
    ASSUME NEW cutoff \in Int, Midnight(cutoff), NEW t \in Int, t <= cutoff
    PROVE  LabelOf(chartLabelForDailyBar(t), EasternDay(t), cutoff)
<1>. DEFINE k == EasternDay(t)
<1>1. k \in Int /\ k * 1440 + 1440 <= cutoff
    BY SessionBefore
<1>2. chartLabelForDailyBar(t) = formatChartVNLabel(SessionClose(k))
    BY DEF chartLabelForDailyBar
<1>. HIDE DEF k
<1>3. SessionClose(k) = k * 1440 + 1200 \/ SessionClose(k) = k * 1440 + 1260
    BY <1>1 DEF SessionClose, EasternTime, Hour, Day
<1>4. VnClock(SessionClose(k)) \in {180, 240}
    BY <1>1, <1>3 DEF VnClock, vnTimezone, Hour, Day
<1>5. formatChartVNLabel(SessionClose(k)) = SessionClose(k)
    BY <1>4 DEF formatChartVNLabel, MorningDigestHour, Hour
<1>6. LabelOf(SessionClose(k), k, cutoff)
    BY <1>1, <1>3, <1>4 DEF LabelOf, LabelFrom
<1>. QED  BY <1>2, <1>5, <1>6 DEF k

\* A market price of the day of a bar, or later, has a label after that day's midnight,
\* but for a minute.
LEMMA MarketLabel ==
    ASSUME NEW cutoff \in Int, Midnight(cutoff), NEW t \in Int, t <= cutoff,
           NEW rm \in Int, rm <= cutoff, t <= rm
    PROVE  LabelFrom(formatChartVNLabel(rm), EasternDay(t), cutoff)
<1>1. PICK day \in Int : cutoff = day * 1440
    BY DEF Midnight
<1>. DEFINE k == EasternDay(t)
            v == (rm + 420) \div 1440
            c == (rm + 420) % 1440
<1>2. k \in Int /\ k * 1440 + 240 <= rm
  <2>1. k \in Int /\ k * 1440 + 240 <= t
      BY SessionBefore
  <2>. HIDE DEF k
  <2>. QED  BY <2>1
<1>3. v \in Int /\ c \in 0 .. 1439 /\ rm + 420 = v * 1440 + c
    OBVIOUS
<1>4. VnClock(rm) = c /\ VnDay(rm) = v
    BY DEF VnClock, VnDay, vnTimezone, Hour, Day
<1>. HIDE DEF k, v, c
<1>5. CASE c >= 420
  <2>1. formatChartVNLabel(rm) = v * 1440 - 1
      BY <1>3, <1>4, <1>5 DEF formatChartVNLabel, MorningDigestHour, Hour, VnTime, vnTimezone, Day
  <2>2. (v * 1440 - 1 + 420) % 1440 = 419
      BY <1>3
  <2>3. LabelFrom(v * 1440 - 1, k, cutoff)
      BY <1>2, <1>3, <1>5, <2>2 DEF LabelFrom, VnClock, vnTimezone, Hour, Day
  <2>. QED  BY <2>1, <2>3 DEF k
<1>6. CASE c < 420
  <2>1. formatChartVNLabel(rm) = rm
      BY <1>3, <1>4, <1>6 DEF formatChartVNLabel, MorningDigestHour, Hour
  <2>2. rm # cutoff
      BY <1>1, <1>3, <1>6
  <2>3. LabelFrom(rm, k, cutoff)
      BY <1>2, <1>3, <1>4, <1>6, <2>2 DEF LabelFrom
  <2>. QED  BY <2>1, <2>3 DEF k
<1>. QED  BY <1>3, <1>5, <1>6

LEMMA LabelsGoUp ==
    ASSUME NEW cutoff, NEW j \in Int, NEW k \in Int, j < k,
           NEW l, LabelOf(l, j, cutoff), NEW m, LabelFrom(m, k, cutoff)
    PROVE  l < m
<1>1. l \in Int /\ m \in Int /\ l <= j * 1440 + 1260 /\ k * 1440 - 1 <= m
    BY DEF LabelOf, LabelFrom
<1>2. j * 1440 + 1440 <= k * 1440
    OBVIOUS
<1>. QED  BY <1>1, <1>2

\* Bars of sessions, in their order if no session has two, and a market price that
\* is not before them.
Axis(shown, rm, drawn, single, cutoff) ==
    /\ shown \in Seq(Bar)
    /\ \A i \in 1 .. Len(shown) : shown[i].at <= cutoff
    /\ single => \A i, j \in 1 .. Len(shown) : i < j => EasternDay(shown[i].at) < EasternDay(shown[j].at)
    /\ drawn => rm \in Int /\ rm <= cutoff /\ \A i \in 1 .. Len(shown) : shown[i].at <= rm

AxisLabel(shown, rm, drawn, i) ==
    IF i = Len(shown) /\ drawn THEN formatChartVNLabel(rm) ELSE chartLabelForDailyBar(shown[i].at)

\* The labels of the sessions that are shown go up, and so does one of the market price
\* in the place of the last.
LEMMA AxisLabels ==
    ASSUME NEW cutoff \in Int, Midnight(cutoff), NEW shown, NEW rm, NEW drawn, NEW single,
           Axis(shown, rm, drawn, single, cutoff)
    PROVE  \A i \in 1 .. Len(shown) :
                /\ AxisLabel(shown, rm, drawn, i) \in Int
                /\ AxisLabel(shown, rm, drawn, i) < cutoff
                /\ VnClock(AxisLabel(shown, rm, drawn, i)) < 420
                /\ single /\ i > 1 => AxisLabel(shown, rm, drawn, i - 1) < AxisLabel(shown, rm, drawn, i)
<1>. DEFINE n == Len(shown)
            at(i) == shown[i].at
            label(i) == AxisLabel(shown, rm, drawn, i)
<1>1. n \in Nat /\ \A i \in 1 .. n : at(i) \in Int /\ at(i) <= cutoff
  <2>1. shown \in Seq(Bar)
      BY DEF Axis
  <2>2. n \in Nat /\ \A i \in 1 .. n : shown[i] \in Bar
      BY <2>1
  <2>3. \A i \in 1 .. n : at(i) <= cutoff
      BY DEF Axis
  <2>. QED  BY <2>2, <2>3 DEF Bar
<1>2. \A i \in 1 .. n : EasternDay(at(i)) \in Int
    BY <1>1 DEF EasternDay, EasternOffset, Hour, Day
<1>3. single => \A i, j \in 1 .. n : i < j => EasternDay(at(i)) < EasternDay(at(j))
    BY DEF Axis
<1>4. drawn => rm \in Int /\ rm <= cutoff /\ \A i \in 1 .. n : at(i) <= rm
    BY DEF Axis
<1>5. \A i \in 1 .. n : i # n \/ ~drawn => label(i) = chartLabelForDailyBar(at(i))
    BY DEF AxisLabel
<1>6. drawn => label(n) = formatChartVNLabel(rm)
    BY DEF AxisLabel
<1>. HIDE DEF n, at, label
<1>7. ASSUME NEW i \in 1 .. n, i # n \/ ~drawn PROVE LabelOf(label(i), EasternDay(at(i)), cutoff)
  <2>1. at(i) \in Int /\ at(i) <= cutoff
      BY <1>1
  <2>2. label(i) = chartLabelForDailyBar(at(i))
      BY <1>5, <1>7
  <2>. QED  BY <2>1, <2>2, SessionLabel
<1>8. ASSUME NEW i \in 1 .. n PROVE LabelFrom(label(i), EasternDay(at(i)), cutoff)
  <2>1. CASE i # n \/ ~drawn
      BY <1>7, <2>1 DEF LabelOf
  <2>2. CASE i = n /\ drawn
    <3>1. rm \in Int /\ rm <= cutoff /\ at(i) <= rm /\ at(i) \in Int /\ at(i) <= cutoff
        BY <1>1, <1>4, <2>2
    <3>2. label(i) = formatChartVNLabel(rm)
        BY <1>6, <2>2
    <3>. QED  BY <3>1, <3>2, MarketLabel
  <2>. QED  BY <2>1, <2>2
<1>9. ASSUME NEW i \in 1 .. n, single, i > 1 PROVE label(i - 1) < label(i)
  <2>1. i - 1 \in 1 .. n /\ i - 1 # n /\ i - 1 < i
      BY <1>1, <1>9
  <2>2. LabelOf(label(i - 1), EasternDay(at(i - 1)), cutoff)
      BY <1>7, <2>1
  <2>3. LabelFrom(label(i), EasternDay(at(i)), cutoff)
      BY <1>8
  <2>4. EasternDay(at(i - 1)) \in Int /\ EasternDay(at(i)) \in Int
        /\ EasternDay(at(i - 1)) < EasternDay(at(i))
      BY <1>2, <1>3, <1>9, <2>1
  <2>. QED  BY <2>2, <2>3, <2>4, LabelsGoUp
<1>10. \A i \in 1 .. n : /\ label(i) \in Int /\ label(i) < cutoff /\ VnClock(label(i)) < 420
                         /\ single /\ i > 1 => label(i - 1) < label(i)
    BY <1>8, <1>9 DEF LabelFrom
<1>. QED  BY <1>10 DEF n, label

LEMMA DailyQuote ==
    ASSUME NEW cutoff \in Int, Midnight(cutoff), NEW q \in Int, SessionClose(q) < cutoff,
           NEW chart, NEW equity \in BOOLEAN,
           ChartOf(chart, equity, cutoff), BarsUntil(chart, cutoff) # << >>
    PROVE  LET quote == parseChartResponse(chart, equity, q, cutoff)
           IN  quote \in Snapshots /\ FromBefore(quote, OneBarADay(chart), cutoff)
<1>. DEFINE single == OneBarADay(chart)
            bars == BarsUntil(chart, cutoff)
            idx == selectBarIndex(bars, q)
            from == Max({1, idx - 7})
            shown == SubSeq(bars, from, idx)
            drawn == equity /\ chart.rm # NoTime /\ chart.rm <= cutoff
            price == IF equity /\ LiveIn(chart.rm, q, cutoff) THEN chart.rm ELSE bars[idx].at
            prev == CASE idx > 1 -> bars[idx - 1].at
                      [] idx = 1 /\ chart.before # NoTime -> chart.before
                      [] OTHER -> bars[idx].at
            time == DayTime(chart.rm, q, bars[idx].at, cutoff)
            points == [i \in DOMAIN shown |-> shown[i].at]
            labels == [i \in DOMAIN shown |-> AxisLabel(shown, chart.rm, drawn, i)]
<1>1. parseChartResponse(chart, equity, q, cutoff) = Snapshot(price, prev, time, points, labels)
    BY DEF parseChartResponse, DayTime, AxisLabel
<1>2. /\ Closes(bars, chart, equity, cutoff) /\ bars # << >>
      /\ single => \A k, l \in 1 .. Len(bars) : k < l => EasternDay(bars[k].at) < EasternDay(bars[l].at)
  <2>1. Closes(bars, chart, equity, cutoff)
      BY BarsBeforeCutoff
  <2>. QED  BY <2>1 DEF Closes
<1>3. chart.rm \in Int \cup {NoTime}
    BY DEF ChartOf
<1>. HIDE DEF bars, single
<1>4. idx \in 1 .. Len(bars)
    BY <1>2, ChosenBar DEF Closes
<1>. HIDE DEF idx
<1>5. from \in 1 .. idx
  <2>1. 1 \in Int /\ idx - 7 \in Int
      BY <1>4
  <2>2. from = IF 1 >= idx - 7 THEN 1 ELSE idx - 7
      BY <2>1, TwoPlaces
  <2>. HIDE DEF from
  <2>. QED  BY <1>4, <2>2
<1>. HIDE DEF from
<1>6. /\ bars[idx].at \in Int /\ bars[idx].at <= cutoff
      /\ equity /\ chart.rm # NoTime /\ chart.rm <= cutoff => bars[idx].at <= chart.rm
    BY <1>2, <1>4 DEF Closes
<1>7. prev \in Int /\ prev <= bars[idx].at
  <2>1. CASE idx > 1
    <3>1. idx - 1 \in 1 .. Len(bars) /\ idx - 1 < idx
        BY <1>2, <1>4, <2>1 DEF Closes
    <3>2. bars[idx - 1].at \in Int /\ bars[idx - 1].at < bars[idx].at
        BY <1>2, <1>4, <3>1 DEF Closes
    <3>. QED  BY <1>6, <2>1, <3>2
  <2>2. CASE idx = 1 /\ chart.before # NoTime
      BY <1>2, <1>4, <2>2 DEF Closes
  <2>3. CASE ~(idx > 1) /\ ~(idx = 1 /\ chart.before # NoTime)
      BY <1>6, <2>3
  <2>. QED  BY <2>1, <2>2, <2>3
<1>. HIDE DEF prev
<1>8. LiveIn(chart.rm, q, cutoff) => chart.rm \in Int /\ chart.rm # NoTime /\ chart.rm <= cutoff
    BY <1>3 DEF LiveIn
<1>9. price \in Int /\ price <= cutoff /\ prev <= price
    BY <1>6, <1>7, <1>8
<1>. HIDE DEF price
<1>10. time \in Int /\ time <= cutoff
    BY <1>3, <1>6, PriceTimes
<1>. HIDE DEF time
<1>11. /\ shown \in Seq(Bar) /\ Len(shown) = idx - from + 1
       /\ \A i \in 1 .. Len(shown) : shown[i] = bars[from + i - 1] /\ from + i - 1 \in 1 .. Len(bars)
  <2>1. bars \in Seq(Bar)
      BY <1>2 DEF Closes
  <2>. QED  BY <1>4, <1>5, <2>1
<1>. HIDE DEF shown
<1>12. Len(shown) \in Nat /\ DOMAIN shown = 1 .. Len(shown)
    BY <1>11
<1>13. Axis(shown, chart.rm, drawn, single, cutoff)
  <2>1. ASSUME NEW i \in 1 .. Len(shown)
        PROVE  shown[i].at <= cutoff /\ (drawn => shown[i].at <= chart.rm)
      BY <1>2, <1>11 DEF Closes
  <2>2. ASSUME single, NEW i \in 1 .. Len(shown), NEW j \in 1 .. Len(shown), i < j
        PROVE  EasternDay(shown[i].at) < EasternDay(shown[j].at)
    <3>1. from + i - 1 \in 1 .. Len(bars) /\ from + j - 1 \in 1 .. Len(bars) /\ from + i - 1 < from + j - 1
        BY <1>4, <1>5, <1>11, <1>12, <2>2
    <3>2. EasternDay(bars[from + i - 1].at) < EasternDay(bars[from + j - 1].at)
        BY <1>2, <2>2, <3>1
    <3>. QED  BY <1>11, <3>2
  <2>3. drawn => chart.rm \in Int /\ chart.rm <= cutoff
      BY <1>3
  <2>. QED  BY <1>11, <2>1, <2>2, <2>3 DEF Axis
<1>. HIDE DEF drawn
<1>14. \A i \in 1 .. Len(shown) :
            /\ AxisLabel(shown, chart.rm, drawn, i) \in Int
            /\ AxisLabel(shown, chart.rm, drawn, i) < cutoff
            /\ VnClock(AxisLabel(shown, chart.rm, drawn, i)) < 420
            /\ single /\ i > 1 =>
                 AxisLabel(shown, chart.rm, drawn, i - 1) < AxisLabel(shown, chart.rm, drawn, i)
    BY <1>13, AxisLabels
<1>15. /\ labels \in Seq(Int) /\ Len(labels) = Len(shown) /\ DOMAIN labels = 1 .. Len(shown)
       /\ \A i \in 1 .. Len(shown) :
            labels[i] < cutoff /\ VnClock(labels[i]) < 420 /\ (single /\ i > 1 => labels[i - 1] < labels[i])
  <2>1. labels \in [1 .. Len(shown) -> Int]
      BY <1>12, <1>14
  <2>2. \A i \in 1 .. Len(shown) : labels[i] = AxisLabel(shown, chart.rm, drawn, i)
      BY <1>12
  <2>3. \A i \in 1 .. Len(shown) : i > 1 => i - 1 \in 1 .. Len(shown)
      BY <1>12
  <2>. HIDE DEF labels
  <2>4. labels \in Seq(Int) /\ Len(labels) = Len(shown) /\ DOMAIN labels = 1 .. Len(shown)
      BY <1>12, <2>1
  <2>. QED  BY <1>14, <2>2, <2>3, <2>4
<1>16. /\ points \in Seq(Int) /\ Len(points) = Len(shown) /\ \A at \in ToSet(points) : at <= cutoff
  <2>1. \A i \in 1 .. Len(shown) : shown[i].at \in Int /\ shown[i].at <= cutoff
      BY <1>2, <1>11 DEF Closes
  <2>2. points \in [1 .. Len(shown) -> Int] /\ \A i \in 1 .. Len(shown) : points[i] <= cutoff
      BY <1>12, <2>1
  <2>. HIDE DEF points
  <2>. QED  BY <1>12, <2>2 DEF ToSet
<1>. HIDE DEF labels, points
<1>17. Snapshot(price, prev, time, points, labels) \in Snapshots
    BY <1>7, <1>9, <1>10, <1>15, <1>16 DEF Snapshot, Snapshots
<1>18. FromBefore(Snapshot(price, prev, time, points, labels), single, cutoff)
    BY <1>9, <1>10, <1>15, <1>16 DEF Snapshot, FromBefore, MorningDigestHour, Hour
<1>. QED  BY <1>1, <1>17, <1>18 DEF single

LEMMA CutoffOfDay ==
    ASSUME NEW day \in Int
    PROVE  LET cutoff == morningDigestWindow(day).until
               q == digestMarketQuoteDay(day)
           IN  cutoff \in Int /\ Midnight(cutoff) /\ q \in Int /\ SessionClose(q) < cutoff
<1>1. morningDigestWindow(day).until = day * 1440
    BY WindowIsUtcDay
<1>2. digestMarketQuoteDay(day) \in Int /\ digestMarketQuoteDay(day) <= day - 1
    BY LastTradingDay
<1>3. SessionClose(digestMarketQuoteDay(day)) < day * 1440
    BY <1>2, SessionsOverAtCutoff
<1>. QED  BY <1>1, <1>2, <1>3 DEF Midnight

LEMMA QuoteSound ==
    ASSUME NEW r \in QuoteRequests,
           NEW quote, quote = fetchQuote(r.halfHours, r.days, r.equity, r.day), quote # Failed
    PROVE  QuoteBeforeCutoff(quote, r.halfHours, r.days, r.equity, r.day)
<1>. DEFINE single == OneBarADay(r.days)
            cutoff == morningDigestWindow(r.day).until
            q == digestMarketQuoteDay(r.day)
            now == fetchPriceAtCutoff(r.halfHours, r.equity, q, cutoff)
            daily == parseChartResponse(r.days, r.equity, q, cutoff)
            halfHours == BarsUntil(r.halfHours, cutoff)
            days == BarsUntil(r.days, cutoff)
<1>1. quote = CASE now = Failed -> daily
                [] now # Failed /\ daily = Failed -> now
                [] OTHER -> [now EXCEPT !.points = daily.points, !.labels = daily.labels]
    BY DEF fetchQuote, fetchDailyQuote
<1>2. /\ r.day \in Int /\ r.equity \in BOOLEAN
      /\ ChartOf(r.halfHours, r.equity, cutoff) /\ ChartOf(r.days, r.equity, cutoff)
    BY QuotesAssumption
<1>3. cutoff \in Int /\ Midnight(cutoff) /\ q \in Int /\ SessionClose(q) < cutoff
    BY <1>2, CutoffOfDay
<1>4. halfHours = << >> => now = Failed
    BY DEF fetchPriceAtCutoff
<1>5. days = << >> => daily = Failed
    BY DEF parseChartResponse
<1>6. Failed \notin Snapshots
    BY QuotesAssumption
<1>7. halfHours # << >> =>
        /\ now \in Snapshots /\ now # Failed /\ FromBefore(now, single, cutoff)
        /\ r.equity => now.time = now.price
  <2>. HIDE DEF cutoff, q
  <2>. QED  BY <1>2, <1>3, <1>6, HalfHourQuote
<1>8. days # << >> => daily \in Snapshots /\ daily # Failed /\ FromBefore(daily, single, cutoff)
  <2>. HIDE DEF cutoff, q
  <2>. QED  BY <1>2, <1>3, <1>6, DailyQuote
<1>9. QuoteBeforeCutoff(quote, r.halfHours, r.days, r.equity, r.day)
        <=> FromBefore(quote, single, cutoff) /\ (r.equity /\ halfHours # << >> => quote.time = quote.price)
    BY DEF QuoteBeforeCutoff, FromBefore
<1>. HIDE DEF now, daily, halfHours, days, single
<1>10. CASE halfHours = << >>
  <2>1. quote = daily /\ days # << >>
      BY <1>1, <1>4, <1>5, <1>10
  <2>. QED  BY <1>8, <1>9, <1>10, <2>1
<1>11. CASE halfHours # << >> /\ days = << >>
  <2>1. quote = now
      BY <1>1, <1>5, <1>7, <1>11
  <2>. QED  BY <1>7, <1>9, <1>11, <2>1
<1>12. CASE halfHours # << >> /\ days # << >>
  <2>1. quote = [now EXCEPT !.points = daily.points, !.labels = daily.labels]
      BY <1>1, <1>7, <1>8, <1>12
  <2>2. /\ quote.price = now.price /\ quote.prev = now.prev /\ quote.time = now.time
        /\ quote.points = daily.points /\ quote.labels = daily.labels
      BY <1>7, <1>12, <2>1 DEF Snapshots
  <2>3. FromBefore(quote, single, cutoff)
      BY <1>7, <1>8, <1>12, <2>2 DEF FromBefore
  <2>. QED  BY <1>7, <1>9, <1>12, <2>2, <2>3
<1>. QED  BY <1>10, <1>11, <1>12

Body == [formatted : FormattedQuote \cup {Failed}, quick : FormattedQuote \cup {Failed}]

LEMMA QuoteRead ==
    ASSUME NEW bodies \in Seq(Body)
    PROVE  fetchCNBCFormattedQuote(bodies) \in FormattedQuote \cup {Failed}
<1>. DEFINE usable == {i \in DOMAIN bodies : parseCNBCQuoteBody(bodies[i]) # Failed}
<1>1. fetchCNBCFormattedQuote(bodies) = IF usable = {} THEN Failed
                                        ELSE parseCNBCQuoteBody(bodies[Min(usable)])
    BY Zenon DEF fetchCNBCFormattedQuote
<1>2. usable # {} => Min(usable) \in DOMAIN bodies
  <2>1. usable \in SUBSET Nat /\ usable \subseteq DOMAIN bodies
      OBVIOUS
  <2>. HIDE DEF usable
  <2>2. SUFFICES ASSUME usable # {} PROVE Min(usable) \in usable
      BY <2>1
  <2>3. \E n \in usable : \A m \in usable : n <= m
      BY <2>1, <2>2, LeastElement
  <2>. QED  BY <2>3 DEF Min
<1>3. \A b \in Body : parseCNBCQuoteBody(b) \in FormattedQuote \cup {Failed}
    BY DEF parseCNBCQuoteBody, Body
<1>4. \A i \in DOMAIN bodies : bodies[i] \in Body
    OBVIOUS
<1>. HIDE DEF usable
<1>. QED  BY <1>1, <1>2, <1>3, <1>4

\* The last close of a minute is from before the cutoff, if there is one.
LEMMA MinutePrice ==
    ASSUME NEW minutes, minutes.bars \in Seq(Bar), NEW cutoff \in Int, Failed \notin Int
    PROVE  LET price == fetchYahooIntradayAtCutoff(minutes, cutoff)
           IN  \/ /\ price = Failed
                  /\ \A bar \in ToSet(minutes.bars) : ~bar.closed \/ bar.at >= cutoff
               \/ price \in Int /\ price < cutoff /\ price # Failed
<1>. DEFINE P == {i \in DOMAIN minutes.bars : minutes.bars[i].closed /\ minutes.bars[i].at < cutoff}
            bars == Kept(minutes.bars, P)
<1>1. fetchYahooIntradayAtCutoff(minutes, cutoff) = IF bars = << >> THEN Failed ELSE bars[Len(bars)].at
    BY DEF fetchYahooIntradayAtCutoff, Where, Last
<1>2. DOMAIN minutes.bars = 1 .. Len(minutes.bars) /\ \A i \in 1 .. Len(minutes.bars) : minutes.bars[i] \in Bar
    OBVIOUS
<1>. HIDE DEF P
<1>3. /\ bars \in Seq(Bar)
      /\ bars = << >> => \A i \in 1 .. Len(minutes.bars) : i \notin P
    BY FilteredBars
<1>4. PICK place \in [1 .. Len(bars) -> 1 .. Len(minutes.bars)] :
        /\ \A k \in 1 .. Len(bars) : place[k] \in P /\ bars[k] = minutes.bars[place[k]]
        /\ \A k, l \in 1 .. Len(bars) : k < l => place[k] < place[l]
    BY FilteredBars
<1>. HIDE DEF bars
<1>5. CASE bars = << >>
  <2>1. \A i \in DOMAIN minutes.bars : ~minutes.bars[i].closed \/ minutes.bars[i].at >= cutoff
      BY <1>2, <1>3, <1>5 DEF P, Bar
  <2>2. \A bar \in ToSet(minutes.bars) : ~bar.closed \/ bar.at >= cutoff
      BY <2>1 DEF ToSet
  <2>. QED  BY <1>1, <1>5, <2>2
<1>6. CASE bars # << >>
  <2>1. Len(bars) \in 1 .. Len(bars)
      BY <1>3, <1>6
  <2>2. bars[Len(bars)] \in Bar /\ bars[Len(bars)].at < cutoff
      BY <1>3, <1>4, <2>1 DEF P
  <2>. QED  BY <1>1, <1>6, <2>2 DEF Bar
<1>. QED  BY <1>5, <1>6

LEMMA EightPoints ==
    ASSUME NEW a, NEW b, NEW c, NEW d, NEW e, NEW f, NEW g, NEW h
    PROVE  LET points == << a, b, c, d, e, f, g, h >>
           IN  /\ DOMAIN points = 1 .. 8 /\ Len(points) = 8 /\ points[8] = h
               /\ points = [i \in 1 .. 8 |-> points[i]]
OBVIOUS

LEMMA Sparkline ==
    ASSUME NEW quote
    PROVE  LET points == cnbcSessionSparkline(quote)
           IN  \/ points = << >> /\ quote.last = 0
               \/ /\ DOMAIN points = 1 .. 8 /\ Len(points) = 8
                  /\ quote.last # 0 => points[8] = quote.last
                  /\ points = [i \in 1 .. 8 |-> points[i]]
<1>. DEFINE prices == {quote.prev, quote.open, quote.low, quote.high, quote.last}
            points == cnbcSessionSparkline(quote)
<1>1. CASE prices = {0}
  <2>1. quote.last = 0
      BY <1>1
  <2>2. points = << >>
      BY <1>1, Zenon DEF cnbcSessionSparkline
  <2>. QED  BY <2>1, <2>2
<1>2. CASE prices # {0}
  <2>1. PICK a, b, c, d, e, f, g, h :
            points = << a, b, c, d, e, f, g, h >> /\ (quote.last # 0 => h = quote.last)
    <3>. DEFINE Given(price, other) == IF price = 0 THEN other ELSE price
                prev == Given(quote.prev, quote.open)
                open == Given(quote.open, prev)
                low == Given(quote.low, open)
                high == Given(quote.high, quote.last)
                last == Given(quote.last, high)
                b0 == (prev + open) \div 2
                d0 == (open + low) \div 2
                f0 == (low + high) \div 2
    <3>1. points = << prev, b0, open, d0, low, f0, high, last >>
        BY <1>2, Zenon DEF cnbcSessionSparkline
    <3>2. quote.last # 0 => last = quote.last
        OBVIOUS
    <3>. HIDE DEF points, prev, open, low, high, last, b0, d0, f0
    <3>. QED  BY <3>1, <3>2
  <2>. HIDE DEF points
  <2>2. /\ DOMAIN points = 1 .. 8 /\ Len(points) = 8 /\ points[8] = h
        /\ points = [i \in 1 .. 8 |-> points[i]]
      BY <2>1, EightPoints
  <2>3. quote.last # 0 => points[8] = quote.last
      BY <2>1, <2>2
  <2>4. \/ points = << >> /\ quote.last = 0
        \/ /\ DOMAIN points = 1 .. 8 /\ Len(points) = 8
           /\ quote.last # 0 => points[8] = quote.last
           /\ points = [i \in 1 .. 8 |-> points[i]]
      BY <2>2, <2>3
  <2>. QED  BY <2>4 DEF points
<1>. QED  BY <1>1, <1>2

LEMMA KeyNumberTime ==
    ASSUME NEW day \in Int, NEW quote \in FormattedQuote
    PROVE  cnbcKeyNumberPriceTime(quote, day) <= morningDigestWindow(day).until
<1>. DEFINE at == parseCNBCLastTime(quote)
<1>1. morningDigestWindow(day).until = day * 1440
    BY WindowIsUtcDay
<1>2. cnbcDigestCutoffTimeLabel(day) <= day * 1440
    BY DEF cnbcDigestCutoffTimeLabel, VnTime, vnTimezone, MorningDigestHour, Hour, Day
<1>3. at \in Int \cup {NoTime}
  <2>1. quote.lastTime.kind \in {"none", "day", "at"} /\ quote.lastTime.value \in Int
      BY DEF FormattedQuote
  <2>2. SessionClose(quote.lastTime.value) \in Int
      BY <2>1 DEF SessionClose, EasternTime, Hour, Day
  <2>. QED  BY <2>1, <2>2 DEF parseCNBCLastTime
<1>4. ~cnbcIsAfterDigestCutoff(quote, day) => at # NoTime /\ ~(at > day * 1440)
    BY <1>1 DEF cnbcIsAfterDigestCutoff
<1>5. cnbcKeyNumberPriceTime(quote, day)
        = IF cnbcIsAfterDigestCutoff(quote, day) THEN cnbcDigestCutoffTimeLabel(day) ELSE at
    BY DEF cnbcKeyNumberPriceTime
<1>. HIDE DEF at
<1>. QED  BY <1>1, <1>2, <1>3, <1>4, <1>5

IsNumber(n) == \E a, b, c, d : n = [price |-> a, change |-> b, time |-> c, points |-> d]

LEMMA CutoffPrice ==
    ASSUME NEW number, IsNumber(number), NEW price, NEW prev
    PROVE  LET applied == applyCNBCCutoffPrice(number, price, prev, price)
           IN  /\ applied.price = price /\ applied.time = price
               /\ applied.change = cnbcChangeFromPrev(price, prev)
               /\ applied.points = EndAt(number.points, price)
<1>1. PICK a, b, c, d : number = [price |-> a, change |-> b, time |-> c, points |-> d]
    BY DEF IsNumber
<1>. DEFINE change == cnbcChangeFromPrev(price, prev)
            line == EndAt(number.points, price)
<1>2. applyCNBCCutoffPrice(number, price, prev, price)
        = [number EXCEPT !.price = price, !.change = change, !.time = price, !.points = line]
    BY Zenon DEF applyCNBCCutoffPrice
<1>. HIDE DEF change, line
<1>3. LET applied == [number EXCEPT !.price = price, !.change = change, !.time = price, !.points = line]
      IN  /\ applied.price = price /\ applied.time = price /\ applied.change = change
          /\ applied.points = line
    BY <1>1
<1>. QED  BY <1>2, <1>3 DEF change, line

\* What CNBC's quote says, before gold is priced again.
LEMMA Resolved ==
    ASSUME NEW quote \in FormattedQuote, quote.last # Failed, NEW day \in Int
    PROVE  LET given == resolveCNBCKeyNumber(quote, day)
           IN  /\ IsNumber(given)
               /\ quote.last \in Int /\ given.price = quote.last
               /\ given.time <= morningDigestWindow(day).until
               /\ given.points = cnbcSessionSparkline(quote)
<1>. DEFINE change == cnbcResolvedChange(quote)
            time == cnbcKeyNumberPriceTime(quote, day)
            points == cnbcSessionSparkline(quote)
<1>1. quote.last \in Int
    BY DEF FormattedQuote
<1>2. time <= morningDigestWindow(day).until
    BY KeyNumberTime
<1>3. resolveCNBCKeyNumber(quote, day)
        = [price |-> quote.last, change |-> change, time |-> time, points |-> points]
    BY DEF resolveCNBCKeyNumber
<1>. HIDE DEF change, time, points
<1>4. IsNumber(resolveCNBCKeyNumber(quote, day))
    BY <1>3 DEF IsNumber
<1>. QED  BY <1>1, <1>2, <1>3, <1>4 DEF points

\* The line of a price ends there.
LEMMA LineEnds ==
    ASSUME NEW quote \in FormattedQuote
    PROVE  LET points == cnbcSessionSparkline(quote)
           IN  /\ quote.last # 0 /\ points # << >> => Last(points) = quote.last
               /\ \A price : EndAt(points, price) # << >> => Last(EndAt(points, price)) = price
<1>. DEFINE points == cnbcSessionSparkline(quote)
<1>1. \/ points = << >> /\ quote.last = 0
      \/ DOMAIN points = 1 .. 8 /\ Len(points) = 8 /\ (quote.last # 0 => points[8] = quote.last)
    BY Sparkline
<1>2. points # << >> => points = [i \in 1 .. 8 |-> points[i]]
    BY Sparkline
<1>. HIDE DEF points
<1>3. ASSUME NEW price, EndAt(points, price) # << >> PROVE Last(EndAt(points, price)) = price
  <2>1. points # << >> /\ EndAt(points, price) = [points EXCEPT ![Len(points)] = price]
      BY <1>3 DEF EndAt
  <2>2. Len([points EXCEPT ![8] = price]) = 8
      BY <1>1, <1>2, <2>1
  <2>. QED  BY <1>1, <2>1, <2>2 DEF Last
<1>4. quote.last # 0 /\ points # << >> => Last(points) = quote.last
    BY <1>1 DEF Last
<1>. QED  BY <1>3, <1>4 DEF points

LEMMA GivenSound ==
    ASSUME NEW quote \in FormattedQuote, quote.last # Failed, NEW day \in Int, NEW minutes,
           NEW kind,
           kind = "gold" => \/ \A bar \in ToSet(minutes.bars) :
                                 ~bar.closed \/ bar.at >= morningDigestWindow(day).until
                            \/ ~cnbcIsAfterDigestCutoff(quote, day)
    PROVE  NumberAtCutoff(resolveCNBCKeyNumber(quote, day), quote, minutes, kind, day)
<1>. DEFINE given == resolveCNBCKeyNumber(quote, day)
            points == cnbcSessionSparkline(quote)
<1>1. /\ given.price = quote.last /\ given.time <= morningDigestWindow(day).until
      /\ given.points = points
    BY Resolved
<1>2. quote.last # 0 /\ points # << >> => Last(points) = quote.last
    BY LineEnds
<1>. HIDE DEF given, points
<1>3. NumberAtCutoff(given, quote, minutes, kind, day)
    BY <1>1, <1>2 DEF NumberAtCutoff
<1>. QED  BY <1>3 DEF given

LEMMA NumberSound ==
    ASSUME NEW r \in NumberRequests,
           NEW number,
           number = IF r.kind = "stock" THEN fetchCNBCStockQuote(r.bodies, r.day)
                    ELSE fetchCNBCKeyNumber(r.bodies, r.minutes, r.kind = "gold", r.day),
           number # Failed
    PROVE  NumberAtCutoff(number, fetchCNBCFormattedQuote(r.bodies), r.minutes, r.kind, r.day)
<1>. DEFINE cutoff == morningDigestWindow(r.day).until
            quote == fetchCNBCFormattedQuote(r.bodies)
            price == fetchYahooIntradayAtCutoff(r.minutes, cutoff)
            late == cnbcIsAfterDigestCutoff(quote, r.day)
            given == resolveCNBCKeyNumber(quote, r.day)
            points == cnbcSessionSparkline(quote)
            change == cnbcChangeFromPrev(price, quote.prev)
            applied == applyCNBCCutoffPrice(given, price, quote.prev, price)
            again == r.kind = "gold" /\ late /\ price # Failed
<1>1. /\ r.day \in Int /\ r.kind \in Kinds /\ Failed \notin Int
      /\ quote \in FormattedQuote \cup {Failed} /\ r.minutes.bars \in Seq(Bar)
    BY NumbersAssumption, QuoteRead DEF Bar, Body
<1>2. cutoff \in Int
    BY <1>1, CutoffOfDay
<1>3. \/ price = Failed /\ \A bar \in ToSet(r.minutes.bars) : ~bar.closed \/ bar.at >= cutoff
      \/ price \in Int /\ price < cutoff /\ price # Failed
  <2>. HIDE DEF cutoff
  <2>. QED  BY <1>1, <1>2, MinutePrice
<1>4. /\ quote # Failed
      /\ given # Failed
      /\ number = IF again THEN applied ELSE given
  <2>1. CASE r.kind = "stock"
      BY <2>1 DEF fetchCNBCStockQuote
  <2>2. CASE r.kind # "stock"
    <3>. DEFINE n == IF quote = Failed THEN Failed ELSE given
    <3>1. number = CASE n = Failed -> Failed
                     [] n # Failed /\ r.kind = "gold" /\ late /\ price # Failed -> applyCNBCCutoffPrice(n, price, quote.prev, price)
                     [] OTHER -> n
        BY <2>2 DEF fetchCNBCKeyNumber
    <3>. QED  BY <3>1
  <2>. QED  BY <2>1, <2>2
<1>5. quote \in FormattedQuote /\ quote.last # Failed
    BY <1>1, <1>4 DEF resolveCNBCKeyNumber
<1>6. /\ IsNumber(given) /\ given.points = points /\ quote.last \in Int
    BY <1>1, <1>5, Resolved
<1>7. /\ applied.price = price /\ applied.time = price /\ applied.change = change
      /\ applied.points = EndAt(points, price)
  <2>. HIDE DEF given, quote, price, points
  <2>. QED  BY <1>6, CutoffPrice
<1>8. EndAt(points, price) # << >> => Last(EndAt(points, price)) = price
    BY <1>5, LineEnds
<1>9. CASE again
  <2>. HIDE DEF quote, price, late, given, points, change, applied, cutoff
  <2>1. /\ number.price = price /\ number.time = price /\ number.change = change
        /\ number.points = EndAt(points, price) /\ price \in Int /\ price < cutoff
        /\ r.kind = "gold"
      BY <1>3, <1>4, <1>7, <1>9
  <2>. QED  BY <1>2, <1>8, <2>1 DEF NumberAtCutoff, quote, cutoff, change
<1>10. CASE ~again
  <2>1. r.kind = "gold" => \/ \A bar \in ToSet(r.minutes.bars) : ~bar.closed \/ bar.at >= cutoff
                           \/ ~late
    <3>. HIDE DEF price, late, cutoff
    <3>. QED  BY <1>3, <1>10
  <2>2. NumberAtCutoff(given, quote, r.minutes, r.kind, r.day)
    <3>. HIDE DEF quote, given
    <3>. QED  BY <1>1, <1>5, <2>1, GivenSound DEF given
  <2>. QED  BY <1>4, <1>10, <2>2
<1>. QED  BY <1>9, <1>10

-----------------------------------------------------------------------------
(* Contents: a request is asked for at the start and answered once.         *)

AnswerTo(r) ==
    CASE r.op = "section" -> SectionNews(r.section, r.feeds, r.queries, r.answers, Window(r))
      [] r.op = "quote" -> fetchQuote(r.halfHours, r.days, r.equity, r.day)
      [] r.op = "number" ->
           IF r.kind = "stock" THEN fetchCNBCStockQuote(r.bodies, r.day)
           ELSE fetchCNBCKeyNumber(r.bodies, r.minutes, r.kind = "gold", r.day)

ContentsInv ==
    /\ task \in SectionRequests \cup QuoteRequests \cup NumberRequests
    /\ answer \in {Pending, AnswerTo(task)}

LEMMA ContentsInvariant == ContentsSpec => []ContentsInv
<1>1. ContentsInit => ContentsInv
    BY DEF ContentsInit, ContentsInv
<1>2. ContentsInv /\ [ContentsNext]_requestVars => ContentsInv'
  <2>. SUFFICES ASSUME ContentsInv, [ContentsNext]_requestVars PROVE ContentsInv'
      OBVIOUS
  <2>1. CASE GetSection
    <3>1. task' = task /\ answer' = AnswerTo(task)
        BY <2>1 DEF GetSection, AnswerWith, AnswerTo
    <3>. QED  BY <3>1 DEF ContentsInv
  <2>2. CASE GetQuote
    <3>1. task' = task /\ answer' = AnswerTo(task)
        BY <2>2 DEF GetQuote, AnswerWith, AnswerTo
    <3>. QED  BY <3>1 DEF ContentsInv
  <2>3. CASE GetStock \/ GetKeyNumber
    <3>1. task' = task /\ answer' = AnswerTo(task)
        BY <2>3 DEF GetStock, GetKeyNumber, AnswerWith, AnswerTo
    <3>. QED  BY <3>1 DEF ContentsInv
  <2>4. CASE UNCHANGED requestVars
      BY <2>4 DEF requestVars, ContentsInv
  <2>. QED  BY <2>1, <2>2, <2>3, <2>4 DEF ContentsNext
<1>. QED  BY <1>1, <1>2, PTL DEF ContentsSpec

\* What the request was for is what the answer is of.
LEMMA AnswersByKind ==
    ASSUME ContentsInv
    PROVE  /\ Answered("section") => task \in SectionRequests /\ answer = AnswerTo(task)
           /\ Answered("quote") => task \in QuoteRequests /\ answer = AnswerTo(task)
           /\ Answered("number") => task \in NumberRequests /\ answer = AnswerTo(task)
<1>1. /\ \A r \in SectionRequests : r.op = "section"
      /\ \A r \in QuoteRequests : r.op = "quote"
      /\ \A r \in NumberRequests : r.op = "number"
    BY SectionsAssumption, QuotesAssumption, NumbersAssumption
<1>. QED  BY <1>1 DEF ContentsInv, Answered

\* What a bulletin takes from Yahoo, prices, their times and the axes of their charts,
\* is from before its cutoff, whatever the charts are (market.go): no price of today is
\* taken for one of the session, and the labels go up where no session has two bars.
THEOREM YahooAlwaysBeforeCutoff == ContentsSpec => []YahooBeforeCutoff
<1>1. ContentsInv => YahooBeforeCutoff
  <2>. SUFFICES ASSUME ContentsInv, Answered("quote"), answer # Failed
                PROVE  QuoteBeforeCutoff(answer, task.halfHours, task.days, task.equity, task.day)
      BY DEF YahooBeforeCutoff
  <2>1. task \in QuoteRequests /\ answer = AnswerTo(task) /\ task.op = "quote"
      BY AnswersByKind DEF Answered
  <2>2. answer = fetchQuote(task.halfHours, task.days, task.equity, task.day)
      BY <2>1 DEF AnswerTo
  <2>. QED  BY <2>1, <2>2, QuoteSound
<1>. QED  BY <1>1, ContentsInvariant, PTL

\* What a bulletin takes from CNBC has a time from before its cutoff and a line that
\* ends at its price, whatever CNBC answers (cnbc.go); the price itself is CNBC's last
\* one, late or not, but for gold, whose late price is replaced, with its change, its
\* time and the end of its line, by one from before the cutoff if Yahoo has one.
THEOREM NumbersAlwaysAtCutoff == ContentsSpec => []NumbersAtCutoff
<1>1. ContentsInv => NumbersAtCutoff
  <2>. SUFFICES ASSUME ContentsInv, Answered("number"), answer # Failed
                PROVE  NumberAtCutoff(answer, fetchCNBCFormattedQuote(task.bodies), task.minutes,
                                      task.kind, task.day)
      BY DEF NumbersAtCutoff
  <2>1. task \in NumberRequests /\ answer = AnswerTo(task) /\ task.op = "number"
      BY AnswersByKind DEF Answered
  <2>2. answer = IF task.kind = "stock" THEN fetchCNBCStockQuote(task.bodies, task.day)
                 ELSE fetchCNBCKeyNumber(task.bodies, task.minutes, task.kind = "gold", task.day)
      BY <2>1 DEF AnswerTo
  <2>. QED  BY <2>1, <2>2, NumberSound
<1>. QED  BY <1>1, ContentsInvariant, PTL

-----------------------------------------------------------------------------
(* What a loop computes that turns one value into the next, round by round. *)

\* What holds at a start and after each round holds up to the end.
LEMMA Invariance ==
    ASSUME NEW a \in Int, NEW n \in Int, a <= n, NEW S, a \in S,
           \A i \in a + 1 .. n : i - 1 \in S => i \in S
    PROVE  a .. n \subseteq S
<1>. DEFINE T == {k \in 0 .. n - a : a + k \in S}
<1>1. n - a \in Nat /\ 0 \in T
    OBVIOUS
<1>2. \A k \in 1 .. n - a : k - 1 \in T => k \in T
  <2>1. SUFFICES ASSUME NEW k \in 1 .. n - a, k - 1 \in T PROVE k \in T
      OBVIOUS
  <2>2. a + k \in a + 1 .. n /\ a + (k - 1) = (a + k) - 1
      BY <1>1
  <2>. QED  BY <1>1, <2>1, <2>2
<1>. HIDE DEF T
<1>3. 0 .. n - a \subseteq T
    BY <1>1, <1>2, UpTo
<1>4. \A i \in a .. n : i - a \in 0 .. n - a /\ a + (i - a) = i
    OBVIOUS
<1>. QED  BY <1>3, <1>4 DEF T

LEMMA FromOne ==
    ASSUME NEW n \in Nat, NEW S, n >= 1, 1 \in S,
           \A i \in 2 .. n : i - 1 \in S => i \in S
    PROVE  1 .. n \subseteq S
<1>1. 1 \in Int
    OBVIOUS
<1>2. n \in Int
    OBVIOUS
<1>3. 1 <= n
    OBVIOUS
<1>4. \A i \in 1 + 1 .. n : i - 1 \in S => i \in S
    OBVIOUS
<1>. QED  BY <1>1, <1>2, <1>3, <1>4, Invariance

\* g has the values of a loop over the places after a, up to m.
Goes(g, a, m, X, base, F) ==
    /\ g \in [a .. m -> X]
    /\ g[a] = base
    /\ \A i \in a + 1 .. m : g[i] = F[i, g[i - 1]]

LEMMA Iterates ==
    ASSUME NEW a \in Int, NEW n \in Int, a <= n, NEW X, NEW base \in X,
           NEW F \in [(a + 1 .. n) \X X -> X]
    PROVE  \E g : Goes(g, a, n, X, base, F)
<1>. DEFINE S == {m \in a .. n : \E g : Goes(g, a, m, X, base, F)}
<1>1. a \in S
  <2>1. a .. a = {a} /\ a + 1 .. a = {} /\ a \in a .. n
      OBVIOUS
  <2>. DEFINE g == [i \in {a} |-> base]
  <2>2. g \in [{a} -> X] /\ g[a] = base
      OBVIOUS
  <2>. HIDE DEF g
  <2>3. Goes(g, a, a, X, base, F)
      BY <2>1, <2>2 DEF Goes
  <2>. QED  BY <2>1, <2>3
<1>2. ASSUME NEW m \in a + 1 .. n, m - 1 \in S PROVE m \in S
  <2>1. PICK f : Goes(f, a, m - 1, X, base, F)
      BY <1>2
  <2>2. /\ m \in a .. n /\ m \notin a .. m - 1 /\ m - 1 \in a .. m - 1 /\ a \in a .. m - 1
        /\ a .. m = (a .. m - 1) \cup {m} /\ a + 1 .. m = (a + 1 .. m - 1) \cup {m}
        /\ \A i \in a + 1 .. m - 1 : i \in a .. m - 1 /\ i - 1 \in a .. m - 1
      OBVIOUS
  <2>. DEFINE next == F[m, f[m - 1]]
              g == [i \in (a .. m - 1) \cup {m} |-> IF i = m THEN next ELSE f[i]]
  <2>3. f[m - 1] \in X
      BY <2>1, <2>2 DEF Goes
  <2>4. next \in X
    <3>1. <<m, f[m - 1]>> \in (a + 1 .. n) \X X
        BY <2>3
    <3>. QED  BY <3>1
  <2>. HIDE DEF next
  <2>5. /\ g \in [(a .. m - 1) \cup {m} -> X]
        /\ g[m] = next /\ \A i \in a .. m - 1 : g[i] = f[i]
      BY <2>1, <2>2, <2>4 DEF Goes
  <2>. HIDE DEF g
  <2>6. g \in [a .. m -> X]
      BY <2>2, <2>5
  <2>7. g[a] = base
      BY <2>1, <2>2, <2>5 DEF Goes
  <2>8. ASSUME NEW i \in a + 1 .. m PROVE g[i] = F[i, g[i - 1]]
    <3>1. CASE i = m
        BY <2>2, <2>5, <3>1 DEF next
    <3>2. CASE i \in a + 1 .. m - 1
        BY <2>1, <2>2, <2>5, <3>2 DEF Goes
    <3>. QED  BY <2>2, <3>1, <3>2
  <2>9. Goes(g, a, m, X, base, F)
      BY <2>6, <2>7, <2>8 DEF Goes
  <2>. QED  BY <2>2, <2>9
<1>. HIDE DEF S
<1>3. a .. n \subseteq S
    BY <1>1, <1>2, Invariance
<1>4. n \in S
    BY <1>3
<1>. QED  BY <1>4 DEF S

LEMMA JoinedSet ==
    ASSUME NEW X, NEW s \in Seq(X), NEW t \in Seq(X)
    PROVE  s \o t \in Seq(X) /\ ToSet(s \o t) = ToSet(s) \cup ToSet(t)
<1>1. /\ DOMAIN s = 1 .. Len(s) /\ DOMAIN t = 1 .. Len(t) /\ Len(s) \in Nat /\ Len(t) \in Nat
      /\ DOMAIN (s \o t) = 1 .. Len(s) + Len(t) /\ s \o t \in Seq(X)
    OBVIOUS
<1>2. \A i \in 1 .. Len(s) + Len(t) : (s \o t)[i] = IF i <= Len(s) THEN s[i] ELSE t[i - Len(s)]
    OBVIOUS
<1>3. ASSUME NEW x \in ToSet(s) PROVE x \in ToSet(s \o t)
  <2>1. PICK i \in 1 .. Len(s) : x = s[i]
      BY <1>1 DEF ToSet
  <2>2. i \in 1 .. Len(s) + Len(t) /\ (s \o t)[i] = x
      BY <1>1, <1>2, <2>1
  <2>. QED  BY <1>1, <2>2 DEF ToSet
<1>4. ASSUME NEW x \in ToSet(t) PROVE x \in ToSet(s \o t)
  <2>1. PICK i \in 1 .. Len(t) : x = t[i]
      BY <1>1 DEF ToSet
  <2>2. i + Len(s) \in 1 .. Len(s) + Len(t) /\ (s \o t)[i + Len(s)] = x
      BY <1>1, <1>2, <2>1
  <2>. QED  BY <1>1, <2>2 DEF ToSet
<1>5. ASSUME NEW x \in ToSet(s \o t) PROVE x \in ToSet(s) \cup ToSet(t)
  <2>1. PICK i \in 1 .. Len(s) + Len(t) : x = (s \o t)[i]
      BY <1>1 DEF ToSet
  <2>2. CASE i <= Len(s)
      BY <1>1, <1>2, <2>1, <2>2 DEF ToSet
  <2>3. CASE i > Len(s)
    <3>1. i - Len(s) \in 1 .. Len(t) /\ x = t[i - Len(s)]
        BY <1>1, <1>2, <2>1, <2>3
    <3>. QED  BY <1>1, <3>1 DEF ToSet
  <2>. QED  BY <1>1, <2>2, <2>3
<1>. QED  BY <1>1, <1>3, <1>4, <1>5

\* The function that FlattenSeq takes the last value of.
Flat(seqs) ==
    CHOOSE f : f = [i \in 1 .. Len(seqs) |-> IF i = 1 THEN seqs[i] ELSE f[i - 1] \o seqs[i]]

LEMMA FlattenIsLast ==
    ASSUME NEW seqs
    PROVE  FlattenSeq(seqs) = IF Len(seqs) = 0 THEN seqs ELSE Flat(seqs)[Len(seqs)]
BY Zenon DEF FlattenSeq, Flat

LEMMA FlatExists ==
    ASSUME NEW X, NEW seqs \in Seq(Seq(X)), Len(seqs) >= 1
    PROVE  /\ Flat(seqs)[1] = seqs[1]
           /\ \A i \in 2 .. Len(seqs) : Flat(seqs)[i] = Flat(seqs)[i - 1] \o seqs[i]
           /\ \A i \in 1 .. Len(seqs) : Flat(seqs)[i] \in Seq(X)
<1>. DEFINE n == Len(seqs)
            F == [p \in (1 + 1 .. n) \X Seq(X) |-> p[2] \o seqs[p[1]]]
            f == Flat(seqs)
<1>1. n \in Nat /\ n >= 1 /\ \A i \in 1 .. n : seqs[i] \in Seq(X)
    OBVIOUS
<1>. HIDE DEF n
<1>2. ASSUME NEW i \in 1 + 1 .. n, NEW s \in Seq(X)
      PROVE  F[i, s] = s \o seqs[i] /\ F[i, s] \in Seq(X)
  <2>1. <<i, s>> \in (1 + 1 .. n) \X Seq(X) /\ i \in 1 .. n
      BY <1>1
  <2>2. F[<<i, s>>] = s \o seqs[i]
      BY <2>1
  <2>3. s \o seqs[i] \in Seq(X)
      BY <1>1, <2>1
  <2>. QED  BY <2>2, <2>3
<1>3. F \in [(1 + 1 .. n) \X Seq(X) -> Seq(X)]
  <2>1. \A p \in (1 + 1 .. n) \X Seq(X) : p[2] \o seqs[p[1]] \in Seq(X)
    <3>1. SUFFICES ASSUME NEW p \in (1 + 1 .. n) \X Seq(X) PROVE p[2] \o seqs[p[1]] \in Seq(X)
        OBVIOUS
    <3>2. p[2] \in Seq(X) /\ seqs[p[1]] \in Seq(X)
        BY <1>1
    <3>. QED  BY <3>2
  <2>. QED  BY <2>1
<1>. HIDE DEF F
<1>4. PICK g : Goes(g, 1, n, Seq(X), seqs[1], F)
  <2>1. 1 \in Int
      OBVIOUS
  <2>2. n \in Int
      BY <1>1
  <2>3. 1 <= n
      BY <1>1
  <2>4. seqs[1] \in Seq(X)
      BY <1>1
  <2>. QED  BY <1>3, <2>1, <2>2, <2>3, <2>4, Iterates
<1>5. g = [i \in 1 .. n |-> IF i = 1 THEN seqs[i] ELSE g[i - 1] \o seqs[i]]
  <2>1. \A i \in 1 .. n : g[i] = IF i = 1 THEN seqs[i] ELSE g[i - 1] \o seqs[i]
    <3>1. SUFFICES ASSUME NEW i \in 1 .. n
                   PROVE  g[i] = IF i = 1 THEN seqs[i] ELSE g[i - 1] \o seqs[i]
        OBVIOUS
    <3>2. CASE i = 1
        BY <1>4, <3>2 DEF Goes
    <3>3. CASE i # 1
      <4>1. i \in 1 + 1 .. n /\ i \in 2 .. n /\ i - 1 \in 1 .. n
          BY <1>1, <3>3
      <4>2. g[i] = F[i, g[i - 1]] /\ g[i - 1] \in Seq(X)
          BY <1>4, <4>1 DEF Goes
      <4>. QED  BY <1>2, <3>3, <4>1, <4>2
    <3>. QED  BY <3>2, <3>3
  <2>2. g \in [1 .. n -> Seq(X)]
      BY <1>4 DEF Goes
  <2>. QED  BY <2>1, <2>2
<1>6. f = [i \in 1 .. n |-> IF i = 1 THEN seqs[i] ELSE f[i - 1] \o seqs[i]]
    BY <1>5, Zenon DEF Flat, n
<1>. HIDE DEF f
<1>7. \A i \in 1 .. n : f[i] = IF i = 1 THEN seqs[i] ELSE f[i - 1] \o seqs[i]
    BY <1>6, Zenon
<1>8. f[1] = seqs[1] /\ \A i \in 2 .. n : f[i] = f[i - 1] \o seqs[i]
  <2>1. 1 \in 1 .. n /\ \A i \in 2 .. n : i \in 1 .. n /\ i # 1
      BY <1>1
  <2>. QED  BY <1>7, <2>1, Zenon
<1>9. \A i \in 1 .. n : f[i] \in Seq(X)
  <2>. DEFINE S == {i \in 1 .. n : f[i] \in Seq(X)}
  <2>1. 1 \in S
      BY <1>1, <1>8
  <2>2. ASSUME NEW i \in 2 .. n, i - 1 \in S PROVE i \in S
    <3>1. i \in 1 .. n /\ i \in 2 .. n
        BY <1>1
    <3>2. f[i] = f[i - 1] \o seqs[i] /\ f[i - 1] \in Seq(X) /\ seqs[i] \in Seq(X)
        BY <1>1, <1>8, <2>2, <3>1
    <3>3. f[i] \in Seq(X)
        BY <3>2
    <3>. QED  BY <3>1, <3>3
  <2>. HIDE DEF S
  <2>3. 1 .. n \subseteq S
      BY <1>1, <2>1, <2>2, FromOne
  <2>. QED  BY <2>3 DEF S
<1>. QED  BY <1>8, <1>9 DEF f, n

\* The joined sequence has the elements of all of them.
LEMMA Flattened ==
    ASSUME NEW X, NEW seqs \in Seq(Seq(X))
    PROVE  /\ FlattenSeq(seqs) \in Seq(X)
           /\ \A x : x \in ToSet(FlattenSeq(seqs)) <=> \E k \in 1 .. Len(seqs) : x \in ToSet(seqs[k])
<1>1. CASE Len(seqs) = 0
  <2>1. seqs = << >>
      BY <1>1
  <2>2. FlattenSeq(seqs) = << >>
      BY <1>1, <2>1, FlattenIsLast
  <2>3. ToSet(<< >>) = {}
      BY DEF ToSet
  <2>. QED  BY <1>1, <2>2, <2>3
<1>2. CASE Len(seqs) # 0
  <2>. DEFINE n == Len(seqs)
              f == Flat(seqs)
              S == {i \in 1 .. n : \A x : x \in ToSet(f[i]) <=> \E k \in 1 .. i : x \in ToSet(seqs[k])}
  <2>1. n \in Nat /\ n >= 1 /\ \A i \in 1 .. n : seqs[i] \in Seq(X)
      BY <1>2
  <2>2. /\ f[1] = seqs[1]
        /\ \A i \in 2 .. n : f[i] = f[i - 1] \o seqs[i]
        /\ \A i \in 1 .. n : f[i] \in Seq(X)
      BY <2>1, FlatExists
  <2>3. FlattenSeq(seqs) = f[n]
      BY <1>2, FlattenIsLast
  <2>. HIDE DEF n, f
  <2>4. 1 \in S
    <3>1. 1 .. 1 = {1}
        OBVIOUS
    <3>. QED  BY <2>1, <2>2, <3>1
  <2>5. ASSUME NEW i \in 2 .. n, i - 1 \in S PROVE i \in S
    <3>1. i \in 1 .. n /\ i \in 2 .. n /\ i - 1 \in 1 .. n /\ 1 .. i = (1 .. i - 1) \cup {i}
        BY <2>1
    <3>2. f[i] = f[i - 1] \o seqs[i] /\ f[i - 1] \in Seq(X) /\ seqs[i] \in Seq(X)
        BY <2>1, <2>2, <3>1
    <3>3. ToSet(f[i]) = ToSet(f[i - 1]) \cup ToSet(seqs[i])
        BY <3>2, JoinedSet
    <3>. QED  BY <2>5, <3>1, <3>3
  <2>. HIDE DEF S
  <2>6. 1 .. n \subseteq S
      BY <2>1, <2>4, <2>5, FromOne
  <2>7. n \in S
      BY <2>1, <2>6
  <2>. QED  BY <2>1, <2>2, <2>3, <2>7 DEF S, n
<1>. QED  BY <1>1, <1>2

-----------------------------------------------------------------------------
(* News: what is read of the feeds and the archive.                         *)

Hosts == {extractPublisherHost(entry, label) : entry \in PublishedEntry, label \in STRING}

NewsItem ==
    [title : STRING \X STRING, about : SUBSET STRING, date : Int \cup {NoDate}, source : STRING,
     kind : STRING, host : Hosts, link : STRING, image : BOOLEAN, page : BOOLEAN]

\* The items of the day that a window is for.
Fresh(window) == {it \in NewsItem : isNewsInDigestWindow(it.date, window)}

LEMMA KeptSet ==
    ASSUME NEW X, NEW s \in Seq(X), NEW P
    PROVE  /\ Kept(s, P) \in Seq(X)
           /\ \A x : x \in ToSet(Kept(s, P)) <=> \E i \in 1 .. Len(s) : i \in P /\ x = s[i]
<1>. DEFINE left == Kept(s, P)
<1>1. left \in Seq(X) /\ Lists(left, s, P, Len(s))
    BY KeptLists
<1>. HIDE DEF left
<1>2. PICK place \in [1 .. Len(left) -> 1 .. Len(s)] :
        /\ \A k \in 1 .. Len(left) : place[k] \in P /\ left[k] = s[place[k]]
        /\ \A p \in 1 .. Len(s) : p \in P => \E k \in 1 .. Len(left) : place[k] = p
    BY <1>1, Zenon DEF Lists
<1>3. DOMAIN left = 1 .. Len(left)
    BY <1>1
<1>4. \A x : x \in ToSet(left) <=> \E i \in 1 .. Len(s) : i \in P /\ x = s[i]
    BY <1>2, <1>3 DEF ToSet
<1>. QED  BY <1>1, <1>4 DEF left

LEMMA SeqOfElements ==
    ASSUME NEW X, NEW s \in Seq(X), NEW Y, ToSet(s) \subseteq Y
    PROVE  s \in Seq(Y)
<1>1. DOMAIN s = 1 .. Len(s) /\ Len(s) \in Nat /\ s = [i \in 1 .. Len(s) |-> s[i]]
    OBVIOUS
<1>2. \A i \in 1 .. Len(s) : s[i] \in Y
    BY <1>1 DEF ToSet
<1>. QED  BY <1>1, <1>2

LEMMA ElementsOf ==
    ASSUME NEW X, NEW s \in Seq(X)
    PROVE  ToSet(s) \subseteq X /\ \A i \in DOMAIN s : s[i] \in ToSet(s) /\ s[i] \in X
BY DEF ToSet

LEMMA ItemTyped ==
    ASSUME NEW entry \in PublishedEntry, NEW feed \in FeedSource, NEW label \in STRING
    PROVE  ItemOf(entry, feed, label) \in NewsItem
<1>1. extractPublisherHost(entry, label) \in Hosts
    BY DEF Hosts
<1>2. /\ entry.story \in STRING /\ entry.suffix \in STRING /\ entry.about \in SUBSET STRING
      /\ entry.date \in Int \cup {NoDate} /\ entry.link \in STRING
      /\ entry.image \in BOOLEAN /\ entry.page \in BOOLEAN /\ feed.kind \in STRING
    BY DEF PublishedEntry, FeedSource
<1>3. <<entry.story, entry.suffix>> \in STRING \X STRING
    BY <1>2
<1>. QED  BY <1>1, <1>2, <1>3 DEF ItemOf, NewsItem

LEMMA Parsed ==
    ASSUME NEW entries \in Seq(PublishedEntry), NEW feed \in FeedSource
    PROVE  parseFeedBody(entries, feed) \in Seq(NewsItem)
<1>. DEFINE titled == Titled(entries)
<1>1. titled \in Seq(PublishedEntry)
  <2>. DEFINE P == {i \in DOMAIN entries : entries[i].story # ""}
  <2>1. titled = Kept(entries, P)
      BY DEF Titled, Where
  <2>. HIDE DEF P, titled
  <2>. QED  BY <2>1, KeptSet
<1>2. mapRSS2Items(entries, feed) =
        [i \in DOMAIN titled |-> ItemOf(titled[i], feed, publisherFromGoogleTitle(titled[i], feed))]
    BY DEF mapRSS2Items
<1>3. mapAtomEntries(entries, feed) = [i \in DOMAIN titled |-> ItemOf(titled[i], feed, feed.name)]
    BY DEF mapAtomEntries
<1>. HIDE DEF titled
<1>4. DOMAIN titled = 1 .. Len(titled) /\ Len(titled) \in Nat
      /\ \A i \in 1 .. Len(titled) : titled[i] \in PublishedEntry
    BY <1>1
<1>5. feed.name \in STRING
    BY DEF FeedSource
<1>6. ASSUME NEW i \in 1 .. Len(titled)
      PROVE  /\ ItemOf(titled[i], feed, publisherFromGoogleTitle(titled[i], feed)) \in NewsItem
             /\ ItemOf(titled[i], feed, feed.name) \in NewsItem
  <2>1. titled[i] \in PublishedEntry
      BY <1>4
  <2>2. publisherFromGoogleTitle(titled[i], feed) \in STRING
      BY <1>5, <2>1 DEF publisherFromGoogleTitle, PublishedEntry
  <2>. QED  BY <1>5, <2>1, <2>2, ItemTyped
<1>7. mapRSS2Items(entries, feed) \in Seq(NewsItem)
    BY <1>2, <1>4, <1>6
<1>8. mapAtomEntries(entries, feed) \in Seq(NewsItem)
    BY <1>3, <1>4, <1>6
<1>. QED  BY <1>7, <1>8 DEF parseFeedBody

\* What the i-th of several feeds gives, and the items of all of them.
Parts(feeds, answers) == [i \in DOMAIN feeds |-> parseFeedBody(answers[i], feeds[i])]

LEMMA PartsTyped ==
    ASSUME NEW feeds, NEW answers, Asked(feeds, answers)
    PROVE  /\ Parts(feeds, answers) \in Seq(Seq(NewsItem))
           /\ Len(Parts(feeds, answers)) = Len(feeds)
           /\ \A i \in 1 .. Len(feeds) :
                Parts(feeds, answers)[i] = parseFeedBody(answers[i], feeds[i])
<1>1. /\ DOMAIN feeds = 1 .. Len(feeds) /\ Len(feeds) \in Nat
      /\ \A i \in 1 .. Len(feeds) : feeds[i] \in FeedSource /\ answers[i] \in Seq(PublishedEntry)
    BY DEF Asked
<1>2. \A i \in 1 .. Len(feeds) : parseFeedBody(answers[i], feeds[i]) \in Seq(NewsItem)
    BY <1>1, Parsed
<1>. QED  BY <1>1, <1>2 DEF Parts

LEMMA ReadTyped ==
    ASSUME NEW feeds, NEW answers, Asked(feeds, answers)
    PROVE  Read(feeds, answers) \in Seq(NewsItem)
<1>1. Read(feeds, answers) = FlattenSeq(Parts(feeds, answers))
    BY DEF Read, Parts
<1>2. Parts(feeds, answers) \in Seq(Seq(NewsItem))
    BY PartsTyped
<1>. QED  BY <1>1, <1>2, Flattened

LEMMA FilteredFresh ==
    ASSUME NEW items \in Seq(NewsItem), NEW window
    PROVE  /\ filterNewsBetween(items, window) \in Seq(Fresh(window))
           /\ \A it : it \in ToSet(filterNewsBetween(items, window)) <=>
                it \in ToSet(items) /\ isNewsInDigestWindow(it.date, window)
<1>. DEFINE P == {i \in DOMAIN items : isNewsInDigestWindow(items[i].date, window)}
            left == filterNewsBetween(items, window)
<1>1. left = Kept(items, P)
    BY DEF filterNewsBetween, Where
<1>2. DOMAIN items = 1 .. Len(items)
    OBVIOUS
<1>. HIDE DEF left
<1>3. left \in Seq(NewsItem) /\ \A it : it \in ToSet(left) <=> \E i \in 1 .. Len(items) : i \in P /\ it = items[i]
  <2>. HIDE DEF P
  <2>. QED  BY <1>1, KeptSet
<1>4. \A it : it \in ToSet(left) <=> it \in ToSet(items) /\ isNewsInDigestWindow(it.date, window)
    BY <1>2, <1>3 DEF ToSet
<1>5. ToSet(left) \subseteq Fresh(window)
  <2>1. ToSet(items) \subseteq NewsItem
      BY ElementsOf
  <2>. QED  BY <1>4, <2>1 DEF Fresh
<1>6. left \in Seq(Fresh(window))
    BY <1>3, <1>5, SeqOfElements
<1>. QED  BY <1>4, <1>6 DEF left

-----------------------------------------------------------------------------
(* News: which of them a section keeps.                                     *)

Distinct(items) == \A k, l \in 1 .. Len(items) : items[k].title = items[l].title => k = l

LEMMA TitlesOf ==
    ASSUME NEW X, NEW items \in Seq(X)
    PROVE  \A t : t \in Titles(items) <=> \E k \in 1 .. Len(items) : items[k].title = t
BY DEF Titles, ToSet

\* There are as many titles as items, where none is there twice.
LEMMA TitlesCounted ==
    ASSUME NEW X, NEW items \in Seq(X)
    PROVE  /\ Cardinality(Titles(items)) \in Nat
           /\ Cardinality(Titles(items)) <= Len(items)
           /\ Cardinality(Titles(items)) = Len(items) <=> Distinct(items)
<1>. DEFINE n == Len(items)
            f == [k \in 1 .. n |-> items[k].title]
<1>1. n \in Nat
    OBVIOUS
<1>2. f \in Surjection(1 .. n, Titles(items))
    BY TitlesOf DEF Surjection
<1>3. f \in Injection(1 .. n, Titles(items)) <=> Distinct(items)
    BY <1>2 DEF Injection, Surjection, Distinct, IsInjective
<1>. HIDE DEF f, n
<1>4. IsFiniteSet(1 .. n) /\ Cardinality(1 .. n) = n
    BY <1>1, FS_Interval
<1>5. /\ IsFiniteSet(Titles(items))
      /\ Cardinality(Titles(items)) <= n
      /\ Cardinality(Titles(items)) = n <=> f \in Injection(1 .. n, Titles(items))
    BY <1>2, <1>4, FS_Surjection
<1>6. Cardinality(Titles(items)) \in Nat
    BY <1>5, FS_CardinalityType
<1>. QED  BY <1>3, <1>5, <1>6 DEF n

LEMMA KeptDistinct ==
    ASSUME NEW X, NEW items \in Seq(X), NEW P, Distinct(items)
    PROVE  Distinct(Kept(items, P))
<1>. DEFINE left == Kept(items, P)
<1>1. left \in Seq(X) /\ Lists(left, items, P, Len(items))
    BY KeptLists
<1>. HIDE DEF left
<1>2. PICK place \in [1 .. Len(left) -> 1 .. Len(items)] :
        /\ \A k \in 1 .. Len(left) : place[k] \in P /\ left[k] = items[place[k]]
        /\ \A k, l \in 1 .. Len(left) : k < l => place[k] < place[l]
    BY <1>1, Zenon DEF Lists
<1>3. ASSUME NEW k \in 1 .. Len(left), NEW l \in 1 .. Len(left), left[k].title = left[l].title
      PROVE  k = l
  <2>1. place[k] = place[l]
      BY <1>2, <1>3 DEF Distinct
  <2>2. ~(place[k] < place[l]) /\ ~(place[l] < place[k])
      BY <2>1
  <2>3. ~(k < l) /\ ~(l < k)
      BY <1>2, <2>2
  <2>. QED  BY <2>3
<1>. QED  BY <1>3 DEF Distinct, left

LEMMA Deduped ==
    ASSUME NEW X, NEW items \in Seq(X)
    PROVE  /\ dedupeNews(items) \in Seq(X)
           /\ ToSet(dedupeNews(items)) \subseteq ToSet(items)
           /\ Titles(dedupeNews(items)) = Titles(items)
           /\ Distinct(dedupeNews(items))
<1>. DEFINE n == Len(items)
            P == {i \in DOMAIN items : \A j \in 1 .. i - 1 : items[j].title # items[i].title}
            left == dedupeNews(items)
<1>1. n \in Nat /\ DOMAIN items = 1 .. n
    OBVIOUS
<1>2. left = Kept(items, P)
    BY DEF dedupeNews
<1>3. \A i : i \in P <=> i \in 1 .. n /\ \A j \in 1 .. i - 1 : items[j].title # items[i].title
    BY <1>1
<1>. HIDE DEF P, left
<1>4. left \in Seq(X) /\ Lists(left, items, P, n)
    BY <1>2, KeptLists
<1>. HIDE DEF n
<1>5. PICK place \in [1 .. Len(left) -> 1 .. n] :
        /\ \A k \in 1 .. Len(left) : place[k] \in P /\ left[k] = items[place[k]]
        /\ \A k, l \in 1 .. Len(left) : k < l => place[k] < place[l]
        /\ \A p \in 1 .. n : p \in P => \E k \in 1 .. Len(left) : place[k] = p
    BY <1>4, Zenon DEF Lists
<1>6. \A k, l \in 1 .. Len(left) : k < l => left[k].title # left[l].title
  <2>1. SUFFICES ASSUME NEW k \in 1 .. Len(left), NEW l \in 1 .. Len(left), k < l
                 PROVE  left[k].title # left[l].title
      OBVIOUS
  <2>2. place[k] \in 1 .. place[l] - 1
      BY <1>1, <1>5, <2>1
  <2>3. items[place[k]].title # items[place[l]].title
      BY <1>3, <1>5, <2>2
  <2>. QED  BY <1>5, <2>3
<1>7. Distinct(left)
  <2>1. \A k, l \in 1 .. Len(left) : k < l \/ l < k \/ k = l
      OBVIOUS
  <2>. QED  BY <1>6, <2>1 DEF Distinct
<1>8. ToSet(left) \subseteq ToSet(items)
  <2>1. DOMAIN left = 1 .. Len(left)
      BY <1>4
  <2>. QED  BY <1>1, <1>5, <2>1 DEF ToSet
<1>9. ASSUME NEW i \in 1 .. n
      PROVE  \E k \in 1 .. Len(left) : left[k].title = items[i].title
  <2>. DEFINE T == {j \in 1 .. n : items[j].title = items[i].title}
  <2>1. T \in SUBSET Nat /\ T # {}
      BY <1>1, <1>9
  <2>2. PICK m \in T : \A j \in T : m <= j
    <3>. HIDE DEF T
    <3>. QED  BY <2>1, LeastElement, Zenon
  <2>3. m \in 1 .. n /\ items[m].title = items[i].title
      BY <2>2
  <2>4. \A j \in 1 .. m - 1 : items[j].title # items[m].title
      BY <1>1, <2>2, <2>3
  <2>5. m \in P
      BY <1>3, <2>3, <2>4
  <2>6. PICK k \in 1 .. Len(left) : place[k] = m
      BY <1>5, <2>3, <2>5
  <2>. QED  BY <1>5, <2>3, <2>6
<1>10. Titles(left) = Titles(items)
  <2>1. \A t : t \in Titles(items) <=> \E k \in 1 .. n : items[k].title = t
      BY TitlesOf DEF n
  <2>2. \A t : t \in Titles(left) <=> \E k \in 1 .. Len(left) : left[k].title = t
      BY <1>4, TitlesOf
  <2>3. \A k \in 1 .. Len(left) : place[k] \in 1 .. n /\ left[k] = items[place[k]]
      BY <1>5
  <2>. QED  BY <1>9, <2>1, <2>2, <2>3
<1>. QED  BY <1>4, <1>7, <1>8, <1>10 DEF left

LEMMA TitlesJoined ==
    ASSUME NEW X, NEW s \in Seq(X), NEW t \in Seq(X)
    PROVE  Titles(s \o t) = Titles(s) \cup Titles(t)
<1>1. ToSet(s \o t) = ToSet(s) \cup ToSet(t)
    BY JoinedSet
<1>. QED  BY <1>1 DEF Titles

\* The archive is asked where the feeds have too little, and what it has is added.
LEMMA Merged ==
    ASSUME NEW X, NEW fresh \in Seq(X), NEW found \in Seq(X), NEW section \in Sections
    PROVE  LET items == WithArchive(section, fresh, found)
           IN  /\ items \in Seq(X)
               /\ Titles(fresh) \subseteq Titles(items)
               /\ Titles(items) \subseteq Titles(fresh \o found)
               /\ Len(items) < Enough(section) => Titles(found) \subseteq Titles(items)
<1>. DEFINE items == WithArchive(section, fresh, found)
            all == fresh \o found
<1>1. all \in Seq(X) /\ Titles(all) = Titles(fresh) \cup Titles(found)
    BY TitlesJoined
<1>2. items = IF Len(fresh) < Enough(section) THEN dedupeNews(all) ELSE fresh
    BY DEF WithArchive
<1>. HIDE DEF all, items
<1>3. dedupeNews(all) \in Seq(X) /\ Titles(dedupeNews(all)) = Titles(all)
    BY <1>1, Deduped
<1>4. CASE Len(fresh) < Enough(section)
    BY <1>1, <1>2, <1>3, <1>4 DEF all, items
<1>5. CASE ~(Len(fresh) < Enough(section))
    BY <1>1, <1>2, <1>5 DEF all, items
<1>. QED  BY <1>4, <1>5

-----------------------------------------------------------------------------
(* News: sorting them, by exchanges.                                        *)

\* The sequences of n items.
Rows(X, n) == {s \in Seq(X) : Len(s) = n}

\* t is s, but for the places i and j, where the newer one comes first.
PutInOrder(t, s, i, j) ==
    /\ \A k \in 1 .. Len(s) : k # i /\ k # j => t[k] = s[k]
    /\ t[i].date >= t[j].date
    /\ \/ t[i] = s[i] /\ t[j] = s[j]
       \/ t[i] = s[j] /\ t[j] = s[i]
    /\ t[i].date >= s[i].date

LEMMA Exchanged ==
    ASSUME NEW X, \A x \in X : x.date \in Int, NEW n \in Nat, NEW s \in Rows(X, n),
           NEW i \in 1 .. n, NEW j \in 1 .. n, i # j
    PROVE  NewestFirst(s, i, j) \in Rows(X, n) /\ PutInOrder(NewestFirst(s, i, j), s, i, j)
<1>. DEFINE t == Exchange(s, i, j)
<1>1. s \in Seq(X) /\ Len(s) = n /\ DOMAIN s = 1 .. n /\ \A k \in 1 .. n : s[k] \in X
    BY DEF Rows
<1>2. s[i].date \in Int /\ s[j].date \in Int
    BY <1>1
<1>3. t = [s EXCEPT ![i] = s[j], ![j] = s[i]]
    BY DEF Exchange
<1>. HIDE DEF t
<1>4. t \in Seq(X) /\ Len(t) = n
    BY <1>1, <1>3
<1>5. t[i] = s[j] /\ t[j] = s[i] /\ \A k \in 1 .. n : k # i /\ k # j => t[k] = s[k]
    BY <1>1, <1>3
<1>6. CASE s[j].date > s[i].date
  <2>1. NewestFirst(s, i, j) = t
      BY <1>6 DEF NewestFirst, t
  <2>2. t \in Rows(X, n)
      BY <1>4 DEF Rows
  <2>3. PutInOrder(t, s, i, j)
      BY <1>1, <1>2, <1>5, <1>6 DEF PutInOrder
  <2>. QED  BY <2>1, <2>2, <2>3
<1>7. CASE ~(s[j].date > s[i].date)
  <2>1. NewestFirst(s, i, j) = s
      BY <1>7 DEF NewestFirst
  <2>2. PutInOrder(s, s, i, j)
      BY <1>1, <1>2, <1>7 DEF PutInOrder
  <2>. QED  BY <2>1, <2>2
<1>. QED  BY <1>6, <1>7

\* The function that Compared takes the last value of.
Comparisons(items, i) ==
    CHOOSE f : f = [j \in i .. Len(items) |->
                        IF j = i THEN items ELSE NewestFirst(f[j - 1], i, j)]

LEMMA ComparedIsLast ==
    ASSUME NEW items, NEW i
    PROVE  Compared(items, i) = Comparisons(items, i)[Len(items)]
BY Zenon DEF Compared, Comparisons

LEMMA ComparisonsExist ==
    ASSUME NEW X, \A x \in X : x.date \in Int, NEW n \in Nat, NEW items \in Rows(X, n),
           NEW i \in 1 .. n
    PROVE  /\ Comparisons(items, i)[i] = items
           /\ \A j \in i + 1 .. n :
                Comparisons(items, i)[j] = NewestFirst(Comparisons(items, i)[j - 1], i, j)
           /\ \A j \in i .. n : Comparisons(items, i)[j] \in Rows(X, n)
<1>. DEFINE F == [p \in (i + 1 .. n) \X Rows(X, n) |-> NewestFirst(p[2], i, p[1])]
            f == Comparisons(items, i)
            V == Rows(X, n)
<1>1. ASSUME NEW j \in i + 1 .. n, NEW s \in V
      PROVE  F[j, s] = NewestFirst(s, i, j) /\ NewestFirst(s, i, j) \in V
  <2>1. <<j, s>> \in (i + 1 .. n) \X V /\ j \in 1 .. n /\ i # j
      OBVIOUS
  <2>2. F[<<j, s>>] = NewestFirst(s, i, j)
      BY <2>1
  <2>3. NewestFirst(s, i, j) \in V
      BY <2>1, Exchanged
  <2>. QED  BY <2>2, <2>3
<1>2. F \in [(i + 1 .. n) \X V -> V]
  <2>1. \A p \in (i + 1 .. n) \X V : NewestFirst(p[2], i, p[1]) \in V
    <3>1. SUFFICES ASSUME NEW p \in (i + 1 .. n) \X V PROVE NewestFirst(p[2], i, p[1]) \in V
        OBVIOUS
    <3>2. p[1] \in i + 1 .. n /\ p[2] \in V
        OBVIOUS
    <3>. HIDE DEF V, F
    <3>. QED  BY <1>1, <3>2
  <2>. QED  BY <2>1
<1>. HIDE DEF F
<1>3. PICK g : Goes(g, i, n, V, items, F)
  <2>1. i \in Int
      OBVIOUS
  <2>2. n \in Int
      OBVIOUS
  <2>3. i <= n
      OBVIOUS
  <2>4. items \in V
      OBVIOUS
  <2>. HIDE DEF V
  <2>. QED  BY <1>2, <2>1, <2>2, <2>3, <2>4, Iterates
<1>4. items \in V /\ Len(items) = n
    BY DEF Rows
<1>. HIDE DEF V
<1>5. g = [j \in i .. n |-> IF j = i THEN items ELSE NewestFirst(g[j - 1], i, j)]
  <2>1. \A j \in i .. n : g[j] = IF j = i THEN items ELSE NewestFirst(g[j - 1], i, j)
    <3>1. SUFFICES ASSUME NEW j \in i .. n
                   PROVE  g[j] = IF j = i THEN items ELSE NewestFirst(g[j - 1], i, j)
        OBVIOUS
    <3>2. CASE j = i
        BY <1>3, <3>2 DEF Goes
    <3>3. CASE j # i
      <4>1. j \in i + 1 .. n /\ j - 1 \in i .. n
          BY <3>3
      <4>2. g[j] = F[j, g[j - 1]] /\ g[j - 1] \in V
          BY <1>3, <4>1 DEF Goes
      <4>. QED  BY <1>1, <3>3, <4>1, <4>2
    <3>. QED  BY <3>2, <3>3
  <2>2. g \in [i .. n -> V]
      BY <1>3 DEF Goes
  <2>. QED  BY <2>1, <2>2
<1>6. f = [j \in i .. n |-> IF j = i THEN items ELSE NewestFirst(f[j - 1], i, j)]
    BY <1>4, <1>5, Zenon DEF Comparisons
<1>. HIDE DEF f
<1>7. \A j \in i .. n : f[j] = IF j = i THEN items ELSE NewestFirst(f[j - 1], i, j)
    BY <1>6, Zenon
<1>8. f[i] = items /\ \A j \in i + 1 .. n : f[j] = NewestFirst(f[j - 1], i, j)
  <2>1. i \in i .. n /\ \A j \in i + 1 .. n : j \in i .. n /\ j # i
      OBVIOUS
  <2>. QED  BY <1>7, <2>1, Zenon
<1>9. i .. n \subseteq {j \in i .. n : f[j] \in V}
  <2>. DEFINE S == {j \in i .. n : f[j] \in V}
  <2>1. i \in S
      BY <1>4, <1>8
  <2>2. ASSUME NEW j \in i + 1 .. n, j - 1 \in S PROVE j \in S
    <3>1. f[j - 1] \in V /\ f[j] = NewestFirst(f[j - 1], i, j) /\ j \in i .. n
        BY <1>8, <2>2
    <3>. QED  BY <1>1, <3>1
  <2>. HIDE DEF S
  <2>3. i \in Int
      OBVIOUS
  <2>4. n \in Int
      OBVIOUS
  <2>5. i <= n
      OBVIOUS
  <2>6. i .. n \subseteq S
      BY <2>1, <2>2, <2>3, <2>4, <2>5, Invariance
  <2>. QED  BY <2>6 DEF S
<1>10. \A j \in i .. n : f[j] \in V
    BY <1>9
<1>. QED  BY <1>8, <1>10 DEF f, V

\* Of the places from i on, i has the newest of those up to j; the ones before i are
\* as they were, and no item has come or gone.
ComparedUpTo(s, items, n, i, j) ==
    /\ \A k \in 1 .. i - 1 : s[k] = items[k]
    /\ \A k \in i + 1 .. j : s[i].date >= s[k].date
    /\ \A k \in i .. n : \E l \in i .. n : s[k] = items[l]
    /\ \A l \in i .. n : \E k \in i .. n : s[k] = items[l]

LEMMA ComparedNext ==
    ASSUME NEW X, \A x \in X : x.date \in Int, NEW n \in Nat, NEW items \in Rows(X, n),
           NEW i \in 1 .. n, NEW j \in i + 1 .. n, NEW s \in Rows(X, n), NEW t \in Rows(X, n),
           ComparedUpTo(s, items, n, i, j - 1), PutInOrder(t, s, i, j)
    PROVE  ComparedUpTo(t, items, n, i, j)
<1>1. /\ Len(s) = n /\ \A k \in 1 .. n : s[k].date \in Int /\ t[k].date \in Int
      /\ i \in i .. n /\ j \in i .. n /\ i \in 1 .. n /\ j \in 1 .. n /\ i < j
      /\ i .. n \subseteq 1 .. n
    BY DEF Rows
<1>2. /\ \A k \in 1 .. n : k # i /\ k # j => t[k] = s[k]
      /\ t[i].date >= t[j].date /\ t[i].date >= s[i].date
      /\ \/ t[i] = s[i] /\ t[j] = s[j]
         \/ t[i] = s[j] /\ t[j] = s[i]
    BY <1>1 DEF PutInOrder
<1>3. /\ \A k \in 1 .. i - 1 : s[k] = items[k]
      /\ \A k \in i + 1 .. j - 1 : s[i].date >= s[k].date
      /\ \A k \in i .. n : \E l \in i .. n : s[k] = items[l]
      /\ \A l \in i .. n : \E k \in i .. n : s[k] = items[l]
    BY Zenon DEF ComparedUpTo
<1>4. \A k \in 1 .. i - 1 : t[k] = items[k]
  <2>1. \A k \in 1 .. i - 1 : k \in 1 .. n /\ k # i /\ k # j
      BY <1>1
  <2>. QED  BY <1>2, <1>3, <2>1
<1>5. ASSUME NEW k \in i + 1 .. j PROVE t[i].date >= t[k].date
  <2>1. CASE k = j
      BY <1>2, <2>1
  <2>2. CASE k # j
    <3>1. k \in i + 1 .. j - 1 /\ k \in 1 .. n /\ k # i
        BY <1>1, <2>2
    <3>2. t[k] = s[k] /\ s[i].date >= s[k].date
        BY <1>2, <1>3, <2>2, <3>1
    <3>. QED  BY <1>1, <1>2, <3>1, <3>2
  <2>. QED  BY <2>1, <2>2
<1>6. \A k \in i .. n : \E m \in i .. n : t[k] = s[m]
  <2>1. SUFFICES ASSUME NEW k \in i .. n PROVE \E m \in i .. n : t[k] = s[m]
      OBVIOUS
  <2>2. CASE k \notin {i, j}
      BY <1>1, <1>2, <2>2
  <2>3. CASE k \in {i, j}
      BY <1>1, <1>2, <2>3
  <2>. QED  BY <2>2, <2>3
<1>7. \A m \in i .. n : \E k \in i .. n : t[k] = s[m]
  <2>1. SUFFICES ASSUME NEW m \in i .. n PROVE \E k \in i .. n : t[k] = s[m]
      OBVIOUS
  <2>2. CASE m \notin {i, j}
      BY <1>1, <1>2, <2>2
  <2>3. CASE m \in {i, j}
      BY <1>1, <1>2, <2>3
  <2>. QED  BY <2>2, <2>3
<1>8. \A k \in i .. n : \E l \in i .. n : t[k] = items[l]
  <2>1. SUFFICES ASSUME NEW k \in i .. n PROVE \E l \in i .. n : t[k] = items[l]
      OBVIOUS
  <2>2. PICK m \in i .. n : t[k] = s[m]
      BY <1>6
  <2>3. PICK l \in i .. n : s[m] = items[l]
      BY <1>3
  <2>. QED  BY <2>2, <2>3
<1>9. \A l \in i .. n : \E k \in i .. n : t[k] = items[l]
  <2>1. SUFFICES ASSUME NEW l \in i .. n PROVE \E k \in i .. n : t[k] = items[l]
      OBVIOUS
  <2>2. PICK m \in i .. n : s[m] = items[l]
      BY <1>3
  <2>3. PICK k \in i .. n : t[k] = s[m]
      BY <1>7
  <2>. QED  BY <2>2, <2>3
<1>. QED  BY <1>4, <1>5, <1>8, <1>9, Zenon DEF ComparedUpTo

LEMMA ComparedPlace ==
    ASSUME NEW X, \A x \in X : x.date \in Int, NEW n \in Nat, NEW items \in Rows(X, n),
           NEW i \in 1 .. n
    PROVE  /\ Compared(items, i) \in Rows(X, n)
           /\ ComparedUpTo(Compared(items, i), items, n, i, n)
<1>. DEFINE f == Comparisons(items, i)
            S == {j \in i .. n : ComparedUpTo(f[j], items, n, i, j)}
<1>1. /\ f[i] = items
      /\ \A j \in i + 1 .. n : f[j] = NewestFirst(f[j - 1], i, j)
      /\ \A j \in i .. n : f[j] \in Rows(X, n)
    BY ComparisonsExist
<1>2. Compared(items, i) = f[n]
  <2>1. Len(items) = n
      BY DEF Rows
  <2>. QED  BY <2>1, ComparedIsLast
<1>. HIDE DEF f
<1>3. i \in S
  <2>1. i + 1 .. i = {} /\ i \in i .. n
      OBVIOUS
  <2>2. ComparedUpTo(items, items, n, i, i)
      BY <2>1 DEF ComparedUpTo
  <2>. QED  BY <1>1, <2>1, <2>2
<1>4. ASSUME NEW j \in i + 1 .. n, j - 1 \in S PROVE j \in S
  <2>1. j \in i .. n /\ j - 1 \in i .. n /\ j \in 1 .. n /\ i # j
      OBVIOUS
  <2>2. f[j] = NewestFirst(f[j - 1], i, j) /\ f[j - 1] \in Rows(X, n) /\ f[j] \in Rows(X, n)
      BY <1>1, <2>1
  <2>3. PutInOrder(f[j], f[j - 1], i, j)
      BY <2>1, <2>2, Exchanged
  <2>4. ComparedUpTo(f[j - 1], items, n, i, j - 1)
      BY <1>4
  <2>5. ComparedUpTo(f[j], items, n, i, j)
      BY <2>2, <2>3, <2>4, ComparedNext
  <2>. QED  BY <2>1, <2>5
<1>. HIDE DEF S
<1>5. i .. n \subseteq S
  <2>1. i \in Int
      OBVIOUS
  <2>2. n \in Int
      OBVIOUS
  <2>3. i <= n
      OBVIOUS
  <2>. QED  BY <1>3, <1>4, <2>1, <2>2, <2>3, Invariance
<1>6. n \in i .. n
    OBVIOUS
<1>7. ComparedUpTo(f[n], items, n, i, n)
    BY <1>5, <1>6 DEF S
<1>. QED  BY <1>1, <1>2, <1>6, <1>7

\* The function that sortNewsByDateDesc takes the last value of.
SortRounds(items) ==
    CHOOSE f : f = [i \in 0 .. Len(items) |-> IF i = 0 THEN items ELSE Compared(f[i - 1], i)]

LEMMA SortedIsLast ==
    ASSUME NEW items
    PROVE  sortNewsByDateDesc(items) = SortRounds(items)[Len(items)]
BY Zenon DEF sortNewsByDateDesc, SortRounds

LEMMA SortRoundsExist ==
    ASSUME NEW X, \A x \in X : x.date \in Int, NEW n \in Nat, NEW items \in Rows(X, n)
    PROVE  /\ SortRounds(items)[0] = items
           /\ \A i \in 1 .. n : SortRounds(items)[i] = Compared(SortRounds(items)[i - 1], i)
           /\ \A i \in 0 .. n : SortRounds(items)[i] \in Rows(X, n)
<1>. DEFINE V == Rows(X, n)
            F == [p \in (0 + 1 .. n) \X V |-> Compared(p[2], p[1])]
            f == SortRounds(items)
<1>1. ASSUME NEW i \in 1 .. n, NEW s \in V
      PROVE  F[i, s] = Compared(s, i) /\ Compared(s, i) \in V
  <2>1. <<i, s>> \in (0 + 1 .. n) \X V
      OBVIOUS
  <2>2. F[<<i, s>>] = Compared(s, i)
      BY <2>1
  <2>3. Compared(s, i) \in V
      BY ComparedPlace
  <2>. QED  BY <2>2, <2>3
<1>2. F \in [(0 + 1 .. n) \X V -> V]
  <2>1. \A p \in (0 + 1 .. n) \X V : Compared(p[2], p[1]) \in V
    <3>1. SUFFICES ASSUME NEW p \in (0 + 1 .. n) \X V PROVE Compared(p[2], p[1]) \in V
        OBVIOUS
    <3>2. p[1] \in 1 .. n /\ p[2] \in V
        OBVIOUS
    <3>. HIDE DEF V, F
    <3>. QED  BY <1>1, <3>2
  <2>. QED  BY <2>1
<1>. HIDE DEF F
<1>3. items \in V /\ Len(items) = n
    BY DEF Rows
<1>. HIDE DEF V
<1>4. PICK g : Goes(g, 0, n, V, items, F)
  <2>1. 0 \in Int
      OBVIOUS
  <2>2. n \in Int
      OBVIOUS
  <2>3. 0 <= n
      OBVIOUS
  <2>. QED  BY <1>2, <1>3, <2>1, <2>2, <2>3, Iterates
<1>5. g = [i \in 0 .. n |-> IF i = 0 THEN items ELSE Compared(g[i - 1], i)]
  <2>1. \A i \in 0 .. n : g[i] = IF i = 0 THEN items ELSE Compared(g[i - 1], i)
    <3>1. SUFFICES ASSUME NEW i \in 0 .. n
                   PROVE  g[i] = IF i = 0 THEN items ELSE Compared(g[i - 1], i)
        OBVIOUS
    <3>2. CASE i = 0
        BY <1>4, <3>2 DEF Goes
    <3>3. CASE i # 0
      <4>1. i \in 0 + 1 .. n /\ i \in 1 .. n /\ i - 1 \in 0 .. n
          BY <3>3
      <4>2. g[i] = F[i, g[i - 1]] /\ g[i - 1] \in V
          BY <1>4, <4>1 DEF Goes
      <4>. QED  BY <1>1, <3>3, <4>1, <4>2
    <3>. QED  BY <3>2, <3>3
  <2>2. g \in [0 .. n -> V]
      BY <1>4 DEF Goes
  <2>. QED  BY <2>1, <2>2
<1>6. f = [i \in 0 .. n |-> IF i = 0 THEN items ELSE Compared(f[i - 1], i)]
    BY <1>3, <1>5, Zenon DEF SortRounds
<1>. HIDE DEF f
<1>7. \A i \in 0 .. n : f[i] = IF i = 0 THEN items ELSE Compared(f[i - 1], i)
    BY <1>6, Zenon
<1>8. f[0] = items /\ \A i \in 1 .. n : f[i] = Compared(f[i - 1], i)
  <2>1. 0 \in 0 .. n /\ \A i \in 1 .. n : i \in 0 .. n /\ i # 0
      OBVIOUS
  <2>. QED  BY <1>7, <2>1, Zenon
<1>9. 0 .. n \subseteq {i \in 0 .. n : f[i] \in V}
  <2>. DEFINE S == {i \in 0 .. n : f[i] \in V}
  <2>1. 0 \in S
      BY <1>3, <1>8
  <2>2. ASSUME NEW i \in 1 .. n, i - 1 \in S PROVE i \in S
    <3>1. f[i - 1] \in V /\ f[i] = Compared(f[i - 1], i) /\ i \in 0 .. n
        BY <1>8, <2>2
    <3>. QED  BY <1>1, <3>1
  <2>. HIDE DEF S
  <2>3. 0 .. n \subseteq S
      BY <2>1, <2>2, UpTo
  <2>. QED  BY <2>3 DEF S
<1>10. \A i \in 0 .. n : f[i] \in V
    BY <1>9
<1>. QED  BY <1>8, <1>10 DEF f, V

\* The first i places have the newest items in order.
SortedUpTo(s, n, i) == \A k \in 1 .. i : \A l \in k + 1 .. n : s[k].date >= s[l].date

LEMMA SortedNext ==
    ASSUME NEW X, \A x \in X : x.date \in Int, NEW n \in Nat, NEW s \in Rows(X, n),
           NEW i \in 1 .. n, NEW t \in Rows(X, n),
           SortedUpTo(s, n, i - 1), ComparedUpTo(t, s, n, i, n)
    PROVE  SortedUpTo(t, n, i)
<1>1. /\ \A k \in 1 .. i - 1 : t[k] = s[k]
      /\ \A k \in i + 1 .. n : t[i].date >= t[k].date
      /\ \A k \in i .. n : \E l \in i .. n : t[k] = s[l]
    BY Zenon DEF ComparedUpTo
<1>2. \A k \in 1 .. i - 1 : \A l \in k + 1 .. n : s[k].date >= s[l].date
    BY Zenon DEF SortedUpTo
<1>3. ASSUME NEW k \in 1 .. i, NEW l \in k + 1 .. n PROVE t[k].date >= t[l].date
  <2>1. CASE k = i
      BY <1>1, <2>1
  <2>2. CASE k # i
    <3>1. k \in 1 .. i - 1 /\ t[k] = s[k]
        BY <1>1, <2>2
    <3>2. CASE l < i
      <4>1. l \in 1 .. i - 1
          BY <3>2
      <4>. QED  BY <1>1, <1>2, <3>1, <4>1
    <3>3. CASE l >= i
      <4>1. PICK m \in i .. n : t[l] = s[m]
          BY <1>1, <3>3
      <4>2. m \in k + 1 .. n
          BY <3>1
      <4>. QED  BY <1>2, <3>1, <4>1, <4>2
    <3>. QED  BY <3>2, <3>3
  <2>. QED  BY <2>1, <2>2
<1>. QED  BY <1>3, Zenon DEF SortedUpTo

LEMMA SameElements ==
    ASSUME NEW X, NEW n \in Nat, NEW items \in Rows(X, n), NEW i \in 1 .. n,
           NEW s \in Rows(X, n), ComparedUpTo(s, items, n, i, n)
    PROVE  ToSet(s) = ToSet(items)
<1>1. DOMAIN s = 1 .. n /\ DOMAIN items = 1 .. n
    BY DEF Rows
<1>2. /\ \A k \in 1 .. i - 1 : s[k] = items[k]
      /\ \A k \in i .. n : \E l \in i .. n : s[k] = items[l]
      /\ \A l \in i .. n : \E k \in i .. n : s[k] = items[l]
    BY Zenon DEF ComparedUpTo
<1>3. \A k \in 1 .. n : k \in 1 .. i - 1 \/ k \in i .. n
    OBVIOUS
<1>4. \A k : k \in 1 .. i - 1 \/ k \in i .. n => k \in 1 .. n
    OBVIOUS
<1>5. \A k \in 1 .. n : \E l \in 1 .. n : s[k] = items[l]
    BY <1>2, <1>3, <1>4
<1>6. \A l \in 1 .. n : \E k \in 1 .. n : s[k] = items[l]
    BY <1>2, <1>3, <1>4
<1>7. \A x : x \in ToSet(s) <=> \E k \in 1 .. n : x = s[k]
    BY <1>1 DEF ToSet
<1>8. \A x : x \in ToSet(items) <=> \E l \in 1 .. n : x = items[l]
    BY <1>1 DEF ToSet
<1>9. ASSUME NEW x \in ToSet(s) PROVE x \in ToSet(items)
  <2>1. PICK k \in 1 .. n : x = s[k]
      BY <1>7
  <2>2. PICK l \in 1 .. n : s[k] = items[l]
      BY <1>5
  <2>. QED  BY <1>8, <2>1, <2>2
<1>10. ASSUME NEW x \in ToSet(items) PROVE x \in ToSet(s)
  <2>1. PICK l \in 1 .. n : x = items[l]
      BY <1>8
  <2>2. PICK k \in 1 .. n : s[k] = items[l]
      BY <1>6
  <2>. QED  BY <1>7, <2>1, <2>2
<1>. QED  BY <1>9, <1>10

\* The news are sorted, the newest first, and none is lost (service.go).
LEMMA SortedNews ==
    ASSUME NEW X, \A x \in X : x.date \in Int, NEW items \in Seq(X)
    PROVE  LET sorted == sortNewsByDateDesc(items)
           IN  /\ sorted \in Seq(X)
               /\ Len(sorted) = Len(items)
               /\ ToSet(sorted) = ToSet(items)
               /\ \A k, l \in 1 .. Len(sorted) : k < l => sorted[k].date >= sorted[l].date
<1>. DEFINE n == Len(items)
            f == SortRounds(items)
            S == {i \in 0 .. n : SortedUpTo(f[i], n, i) /\ ToSet(f[i]) = ToSet(items)}
<1>1. n \in Nat /\ items \in Rows(X, n)
    BY DEF Rows
<1>2. sortNewsByDateDesc(items) = f[n]
    BY SortedIsLast
<1>. HIDE DEF n
<1>3. /\ f[0] = items
      /\ \A i \in 1 .. n : f[i] = Compared(f[i - 1], i)
      /\ \A i \in 0 .. n : f[i] \in Rows(X, n)
    BY <1>1, SortRoundsExist
<1>. HIDE DEF f
<1>4. 0 \in S
  <2>1. 1 .. 0 = {} /\ 0 \in 0 .. n
      BY <1>1
  <2>2. SortedUpTo(items, n, 0)
      BY <2>1 DEF SortedUpTo
  <2>. QED  BY <1>3, <2>1, <2>2
<1>5. ASSUME NEW i \in 1 .. n, i - 1 \in S PROVE i \in S
  <2>1. i \in 0 .. n /\ i - 1 \in 0 .. n
      BY <1>1
  <2>2. f[i] = Compared(f[i - 1], i) /\ f[i - 1] \in Rows(X, n) /\ f[i] \in Rows(X, n)
      BY <1>3, <2>1
  <2>3. ComparedUpTo(f[i], f[i - 1], n, i, n)
      BY <1>1, <2>2, ComparedPlace
  <2>4. SortedUpTo(f[i - 1], n, i - 1) /\ ToSet(f[i - 1]) = ToSet(items)
      BY <1>5
  <2>5. SortedUpTo(f[i], n, i)
      BY <1>1, <2>2, <2>3, <2>4, SortedNext
  <2>6. ToSet(f[i]) = ToSet(f[i - 1])
      BY <1>1, <2>2, <2>3, SameElements
  <2>. QED  BY <2>1, <2>4, <2>5, <2>6
<1>. HIDE DEF S
<1>6. 0 .. n \subseteq S
    BY <1>1, <1>4, <1>5, UpTo
<1>7. SortedUpTo(f[n], n, n) /\ ToSet(f[n]) = ToSet(items) /\ f[n] \in Rows(X, n)
    BY <1>1, <1>3, <1>6 DEF S
<1>8. f[n] \in Seq(X) /\ Len(f[n]) = n
    BY <1>7 DEF Rows
<1>9. \A k, l \in 1 .. n : k < l => f[n][k].date >= f[n][l].date
  <2>1. \A k, l \in 1 .. n : k < l => l \in k + 1 .. n
      BY <1>1
  <2>. QED  BY <1>7, <2>1 DEF SortedUpTo
<1>. QED  BY <1>2, <1>7, <1>8, <1>9 DEF n

-----------------------------------------------------------------------------
(* News: the items of a section.                                            *)

\* The searches of the archive find what they would find one by one (service.go).
LEMMA ArchiveFound ==
    ASSUME NEW queries, NEW answers, Asked(queries, answers), NEW window
    PROVE  LET found == fetchHistoricalNewsQueries(queries, answers, window)
           IN  /\ found \in Seq(Fresh(window))
               /\ Titles(found) = Titles(filterNewsBetween(Read(queries, answers), window))
<1>. DEFINE parts == Parts(queries, answers)
            n == Len(queries)
            each == [i \in DOMAIN queries |-> filterNewsBetween(parseFeedBody(answers[i], queries[i]), window)]
            all == filterNewsBetween(Read(queries, answers), window)
            joined == FlattenSeq(each)
<1>1. DOMAIN queries = 1 .. n /\ n \in Nat
    BY DEF Asked
<1>2. /\ parts \in Seq(Seq(NewsItem)) /\ Len(parts) = n
      /\ \A i \in 1 .. n : parts[i] = parseFeedBody(answers[i], queries[i])
    BY PartsTyped
<1>3. Read(queries, answers) = FlattenSeq(parts)
    BY DEF Read, Parts
<1>4. fetchHistoricalNewsQueries(queries, answers, window) = dedupeNews(joined)
    BY DEF fetchHistoricalNewsQueries
<1>5. each = [i \in 1 .. n |-> filterNewsBetween(parseFeedBody(answers[i], queries[i]), window)]
    BY <1>1
<1>. HIDE DEF parts, n, each
<1>6. \A i \in 1 .. n : parts[i] \in Seq(NewsItem) /\ each[i] = filterNewsBetween(parts[i], window)
    BY <1>1, <1>2, <1>5
<1>7. ASSUME NEW i \in 1 .. n
      PROVE  /\ each[i] \in Seq(Fresh(window))
             /\ \A it : it \in ToSet(each[i]) <=> it \in ToSet(parts[i]) /\ isNewsInDigestWindow(it.date, window)
  <2>1. parts[i] \in Seq(NewsItem) /\ each[i] = filterNewsBetween(parts[i], window)
      BY <1>6
  <2>. QED  BY <2>1, FilteredFresh
<1>8. each \in Seq(Seq(Fresh(window))) /\ Len(each) = n
    BY <1>1, <1>5, <1>7
<1>9. /\ joined \in Seq(Fresh(window))
      /\ \A it : it \in ToSet(joined) <=> \E k \in 1 .. n : it \in ToSet(each[k])
    BY <1>8, Flattened
<1>10. /\ FlattenSeq(parts) \in Seq(NewsItem)
       /\ \A it : it \in ToSet(FlattenSeq(parts)) <=> \E k \in 1 .. n : it \in ToSet(parts[k])
    BY <1>2, Flattened
<1>11. \A it : it \in ToSet(all) <=> it \in ToSet(FlattenSeq(parts)) /\ isNewsInDigestWindow(it.date, window)
    BY <1>3, <1>10, FilteredFresh
<1>. HIDE DEF joined, all
<1>12. \A it : it \in ToSet(joined) <=> it \in ToSet(all)
    BY <1>7, <1>9, <1>10, <1>11
<1>13. Titles(joined) = Titles(all)
    BY <1>12 DEF Titles
<1>14. dedupeNews(joined) \in Seq(Fresh(window)) /\ Titles(dedupeNews(joined)) = Titles(joined)
    BY <1>9, Deduped
<1>. QED  BY <1>4, <1>13, <1>14 DEF all

LEMMA FreshDates == \A window : \A it \in Fresh(window) : it.date \in Int
BY DEF Fresh, NewsItem, isNewsInDigestWindow

\* What a section's items are, before images are looked for.
SectionOf(section, items, fresh, found, window) ==
    /\ items \in Seq(Fresh(window))
    /\ section = "stocks" =>
        Distinct(items) /\ \A it \in ToSet(items) : isAllowedStockNewsSource(it)
    /\ section \in {"breaking", "vtv"} =>
        \A k, l \in 1 .. Len(items) : k < l => items[k].date >= items[l].date
    /\ NothingMissing(section, items, fresh, found)

LEMMA AllowedKept ==
    ASSUME NEW X, NEW items \in Seq(X)
    PROVE  /\ filterStockNewsSources(items) \in Seq(X)
           /\ \A it : it \in ToSet(filterStockNewsSources(items)) <=>
                it \in ToSet(items) /\ isAllowedStockNewsSource(it)
           /\ Distinct(items) => Distinct(filterStockNewsSources(items))
<1>. DEFINE P == {i \in DOMAIN items : isAllowedStockNewsSource(items[i])}
<1>1. filterStockNewsSources(items) = Kept(items, P)
    BY DEF filterStockNewsSources, Where
<1>2. DOMAIN items = 1 .. Len(items)
    OBVIOUS
<1>3. \A i : i \in P <=> i \in 1 .. Len(items) /\ isAllowedStockNewsSource(items[i])
    BY <1>2
<1>. HIDE DEF P
<1>4. /\ Kept(items, P) \in Seq(X)
      /\ \A x : x \in ToSet(Kept(items, P)) <=> \E i \in 1 .. Len(items) : i \in P /\ x = items[i]
    BY KeptSet
<1>5. Distinct(items) => Distinct(Kept(items, P))
    BY KeptDistinct
<1>6. \A x : x \in ToSet(items) <=> \E i \in 1 .. Len(items) : x = items[i]
    BY <1>2 DEF ToSet
<1>. QED  BY <1>1, <1>3, <1>4, <1>5, <1>6

LEMMA StockItems ==
    ASSUME NEW window, NEW fresh \in Seq(Fresh(window)), NEW found \in Seq(Fresh(window))
    PROVE  SectionOf("stocks", fetchStockNewsForReport(fresh, found), fresh, found, window)
<1>. DEFINE all == fresh \o found
            merged == WithArchive("stocks", fresh, found)
            once == dedupeNews(merged)
            items == filterStockNewsSources(once)
<1>1. "stocks" \in Sections /\ Enough("stocks") = 2
    BY DEF Sections, Enough
<1>2. /\ merged \in Seq(Fresh(window))
      /\ Titles(fresh) \subseteq Titles(merged)
      /\ Titles(merged) \subseteq Titles(all)
    BY <1>1, Merged
<1>3. merged = IF Len(fresh) < 2 THEN dedupeNews(all) ELSE fresh
    BY <1>1 DEF WithArchive
<1>4. all \in Seq(Fresh(window)) /\ ToSet(all) = ToSet(fresh) \cup ToSet(found)
    BY JoinedSet
<1>5. Titles(all) = Titles(fresh) \cup Titles(found)
    BY TitlesJoined
<1>. HIDE DEF all, merged
<1>6. /\ dedupeNews(all) \in Seq(Fresh(window))
      /\ ToSet(dedupeNews(all)) \subseteq ToSet(all)
      /\ Titles(dedupeNews(all)) = Titles(all)
    BY <1>4, Deduped
<1>7. /\ once \in Seq(Fresh(window)) /\ ToSet(once) \subseteq ToSet(merged)
      /\ Titles(once) = Titles(merged) /\ Distinct(once)
    BY <1>2, Deduped
<1>8. ToSet(merged) \subseteq ToSet(all)
    BY <1>3, <1>4, <1>6
<1>. HIDE DEF once
<1>9. /\ items \in Seq(Fresh(window)) /\ Distinct(items)
      /\ \A it : it \in ToSet(items) <=> it \in ToSet(once) /\ isAllowedStockNewsSource(it)
    BY <1>7, AllowedKept
<1>. HIDE DEF items
<1>10. NothingMissing("stocks", items, fresh, found)
  <2>1. SUFFICES ASSUME filterStockNewsSources(all) = all,
                        ~(Cardinality(Titles(fresh)) < Len(fresh))
                 PROVE  /\ Titles(fresh) \subseteq Titles(items)
                        /\ Titles(items) \subseteq Titles(all)
                        /\ Len(items) < 2 => Titles(found) \subseteq Titles(items)
      BY <1>1, Zenon DEF NothingMissing, all
  <2>2. \A it \in ToSet(all) : isAllowedStockNewsSource(it)
      BY <1>4, <2>1, AllowedKept
  <2>3. \A it : it \in ToSet(items) <=> it \in ToSet(once)
      BY <1>7, <1>8, <1>9, <2>2
  <2>4. Titles(items) = Titles(merged)
      BY <1>7, <2>3 DEF Titles
  <2>5. CASE Len(fresh) < 2
      BY <1>2, <1>3, <1>5, <1>6, <2>4, <2>5
  <2>6. CASE ~(Len(fresh) < 2)
    <3>1. Titles(items) = Titles(fresh)
        BY <1>3, <2>4, <2>6
    <3>2. Cardinality(Titles(items)) \in Nat /\ Cardinality(Titles(items)) <= Len(items)
        BY <1>9, TitlesCounted
    <3>3. Len(items) \in Nat /\ Len(fresh) \in Nat
        BY <1>9
    <3>4. ~(Len(items) < 2)
        BY <2>1, <2>6, <3>1, <3>2, <3>3
    <3>. QED  BY <1>2, <2>4, <3>4
  <2>. QED  BY <2>5, <2>6
<1>11. fetchStockNewsForReport(fresh, found) = items
    BY DEF fetchStockNewsForReport, items, once, merged
<1>12. "stocks" \notin {"breaking", "vtv"}
    OBVIOUS
<1>. QED  BY <1>9, <1>10, <1>11, <1>12, Zenon DEF SectionOf

\* The items of the other sections, whatever order they are in.
LEMMA OtherItems ==
    ASSUME NEW window, NEW fresh \in Seq(Fresh(window)), NEW found, NEW archive \in Seq(Fresh(window)),
           Titles(archive) = Titles(found), found \in Seq(Fresh(window)),
           NEW section \in Sections \ {"stocks"}
    PROVE  LET items == WithArchive(section, fresh, archive)
           IN  /\ items \in Seq(Fresh(window))
               /\ \A sorted \in Seq(Fresh(window)) :
                    Len(sorted) = Len(items) /\ ToSet(sorted) = ToSet(items) =>
                        NothingMissing(section, sorted, fresh, found)
<1>. DEFINE items == WithArchive(section, fresh, archive)
<1>1. /\ items \in Seq(Fresh(window))
      /\ Titles(fresh) \subseteq Titles(items)
      /\ Titles(items) \subseteq Titles(fresh \o archive)
      /\ Len(items) < Enough(section) => Titles(archive) \subseteq Titles(items)
    BY Merged
<1>2. Titles(fresh \o archive) = Titles(fresh \o found)
  <2>1. Titles(fresh \o archive) = Titles(fresh) \cup Titles(archive)
      BY TitlesJoined
  <2>2. Titles(fresh \o found) = Titles(fresh) \cup Titles(found)
      BY TitlesJoined
  <2>. QED  BY <2>1, <2>2
<1>. HIDE DEF items
<1>3. ASSUME NEW sorted \in Seq(Fresh(window)), Len(sorted) = Len(items), ToSet(sorted) = ToSet(items)
      PROVE  NothingMissing(section, sorted, fresh, found)
  <2>1. Titles(sorted) = Titles(items)
      BY <1>3 DEF Titles
  <2>. QED  BY <1>1, <1>2, <1>3, <2>1 DEF NothingMissing
<1>. QED  BY <1>1, <1>3 DEF items

LEMMA SortedItems ==
    ASSUME NEW window, NEW items \in Seq(Fresh(window)), NEW fresh, NEW found, NEW section,
           \A sorted \in Seq(Fresh(window)) :
                Len(sorted) = Len(items) /\ ToSet(sorted) = ToSet(items) =>
                    NothingMissing(section, sorted, fresh, found),
           section # "stocks"
    PROVE  SectionOf(section, sortNewsByDateDesc(items), fresh, found, window)
<1>1. \A it \in Fresh(window) : it.date \in Int
    BY FreshDates
<1>. DEFINE sorted == sortNewsByDateDesc(items)
<1>2. /\ sorted \in Seq(Fresh(window)) /\ Len(sorted) = Len(items) /\ ToSet(sorted) = ToSet(items)
      /\ \A k, l \in 1 .. Len(sorted) : k < l => sorted[k].date >= sorted[l].date
    BY <1>1, SortedNews
<1>. HIDE DEF sorted
<1>3. NothingMissing(section, sorted, fresh, found)
    BY <1>2
<1>4. SectionOf(section, sorted, fresh, found, window)
    BY <1>2, <1>3, Zenon DEF SectionOf
<1>. QED  BY <1>4 DEF sorted

LEMMA ItemsOfSection ==
    ASSUME NEW section \in Sections, NEW feeds, NEW queries, NEW answers, NEW window,
           Asked(feeds, answers[1]), Asked(queries, answers[2])
    PROVE  SectionOf(section, SectionItems(section, feeds, queries, answers, window),
                     filterNewsBetween(Read(feeds, answers[1]), window),
                     filterNewsBetween(Read(queries, answers[2]), window), window)
<1>. DEFINE fresh == filterNewsBetween(Read(feeds, answers[1]), window)
            found == filterNewsBetween(Read(queries, answers[2]), window)
            archive == fetchHistoricalNewsQueries(queries, answers[2], window)
            items == SectionItems(section, feeds, queries, answers, window)
<1>1. Read(feeds, answers[1]) \in Seq(NewsItem) /\ Read(queries, answers[2]) \in Seq(NewsItem)
    BY ReadTyped
<1>2. fresh \in Seq(Fresh(window)) /\ found \in Seq(Fresh(window))
    BY <1>1, FilteredFresh
<1>3. archive \in Seq(Fresh(window)) /\ Titles(archive) = Titles(found)
    BY ArchiveFound
<1>4. items = CASE section = "stocks" -> fetchStockNewsForReport(fresh, found)
                [] section = "vietnam" -> fetchNewsForReport(fresh, archive)
                [] section = "breaking" -> fetchBreakingNewsForReport(fresh, archive)
                [] section = "vtv" -> fetchVTVNewsForReport(fresh, archive)
    BY DEF SectionItems, fetchHistoricalStockGoogleNews
<1>. HIDE DEF fresh, found, archive, items
<1>5. CASE section = "stocks"
  <2>1. items = fetchStockNewsForReport(fresh, found)
      BY <1>4, <1>5
  <2>. QED  BY <1>2, <1>5, <2>1, StockItems DEF fresh, found, items
<1>6. CASE section # "stocks"
  <2>. DEFINE merged == WithArchive(section, fresh, archive)
  <2>1. section \in Sections \ {"stocks"}
      BY <1>6
  <2>2. /\ merged \in Seq(Fresh(window))
        /\ \A sorted \in Seq(Fresh(window)) :
             Len(sorted) = Len(merged) /\ ToSet(sorted) = ToSet(merged) =>
                NothingMissing(section, sorted, fresh, found)
      BY <1>2, <1>3, <2>1, OtherItems
  <2>3. CASE section = "vietnam"
    <3>1. items = merged
        BY <1>4, <2>3 DEF fetchNewsForReport
    <3>. HIDE DEF merged
    <3>2. NothingMissing(section, merged, fresh, found)
        BY <2>2
    <3>3. section \notin {"breaking", "vtv"}
        BY <2>3
    <3>. QED  BY <1>6, <2>2, <3>1, <3>2, <3>3, Zenon DEF SectionOf, fresh, found, items
  <2>4. CASE section \in {"breaking", "vtv"}
    <3>1. items = sortNewsByDateDesc(merged)
        BY <1>4, <2>4 DEF fetchBreakingNewsForReport, fetchVTVNewsForReport
    <3>. HIDE DEF merged
    <3>2. SectionOf(section, sortNewsByDateDesc(merged), fresh, found, window)
        BY <1>6, <2>2, SortedItems
    <3>. QED  BY <3>1, <3>2 DEF fresh, found, items
  <2>5. section \in {"vietnam", "breaking", "vtv"}
      BY <2>1 DEF Sections
  <2>. QED  BY <2>3, <2>4, <2>5
<1>. QED  BY <1>5, <1>6

-----------------------------------------------------------------------------
(* News: their images.                                                      *)

\* The function of what is left of the limit that enrichItemMedia reads.
Remaining(items, ogLimit) ==
    CHOOSE f : f = [i \in 0 .. Len(items) |->
                        IF i = 0 THEN ogLimit ELSE Spent(items[i], f[i - 1])]

LEMMA EnrichedBy ==
    ASSUME NEW items, NEW limit
    PROVE  enrichItemMedia(items, limit) =
             [i \in DOMAIN items |->
                [items[i] EXCEPT !.image = @ \/ GivesImage(items[i], Remaining(items, limit)[i - 1])]]
BY Zenon DEF enrichItemMedia, Remaining

LEMMA RemainingExists ==
    ASSUME NEW X, NEW items \in Seq(X), NEW limit \in Nat
    PROVE  LET n == Len(items)
               left == Remaining(items, limit)
           IN  /\ left[0] = limit
               /\ \A i \in 1 .. n : left[i] = Spent(items[i], left[i - 1])
               /\ \A i \in 0 .. n : left[i] \in Nat
<1>. DEFINE n == Len(items)
            F == [p \in (0 + 1 .. n) \X Nat |-> Spent(items[p[1]], p[2])]
            f == Remaining(items, limit)
<1>1. n \in Nat
    OBVIOUS
<1>. HIDE DEF n
<1>2. \A i \in 1 .. n, k \in Nat : Spent(items[i], k) \in Nat
    BY DEF Spent, GivesImage
<1>3. \A i \in 1 .. n, k \in Nat : F[i, k] = Spent(items[i], k)
  <2>1. SUFFICES ASSUME NEW i \in 1 .. n, NEW k \in Nat PROVE F[i, k] = Spent(items[i], k)
      OBVIOUS
  <2>2. <<i, k>> \in (0 + 1 .. n) \X Nat
      OBVIOUS
  <2>3. F[<<i, k>>] = Spent(items[i], k)
      BY <2>2
  <2>. QED  BY <2>3
<1>4. F \in [(0 + 1 .. n) \X Nat -> Nat]
  <2>1. \A p \in (0 + 1 .. n) \X Nat : Spent(items[p[1]], p[2]) \in Nat
    <3>1. SUFFICES ASSUME NEW p \in (0 + 1 .. n) \X Nat PROVE Spent(items[p[1]], p[2]) \in Nat
        OBVIOUS
    <3>2. p[1] \in 1 .. n /\ p[2] \in Nat
        OBVIOUS
    <3>. QED  BY <1>2, <3>2
  <2>. QED  BY <2>1
<1>. HIDE DEF F
<1>5. PICK g : Goes(g, 0, n, Nat, limit, F)
  <2>1. 0 \in Int
      OBVIOUS
  <2>2. n \in Int
      BY <1>1
  <2>3. 0 <= n
      BY <1>1
  <2>. QED  BY <1>4, <2>1, <2>2, <2>3, Iterates
<1>6. g = [i \in 0 .. n |-> IF i = 0 THEN limit ELSE Spent(items[i], g[i - 1])]
  <2>1. \A i \in 0 .. n : g[i] = IF i = 0 THEN limit ELSE Spent(items[i], g[i - 1])
    <3>1. SUFFICES ASSUME NEW i \in 0 .. n
                   PROVE  g[i] = IF i = 0 THEN limit ELSE Spent(items[i], g[i - 1])
        OBVIOUS
    <3>2. CASE i = 0
        BY <1>5, <3>2 DEF Goes
    <3>3. CASE i # 0
      <4>1. i \in 0 + 1 .. n /\ i \in 1 .. n /\ i - 1 \in 0 .. n
          BY <1>1, <3>3
      <4>2. g[i] = F[i, g[i - 1]] /\ g[i - 1] \in Nat
          BY <1>5, <4>1 DEF Goes
      <4>. QED  BY <1>3, <3>3, <4>1, <4>2
    <3>. QED  BY <3>2, <3>3
  <2>2. g \in [0 .. n -> Nat]
      BY <1>5 DEF Goes
  <2>. QED  BY <2>1, <2>2
<1>7. f = [i \in 0 .. n |-> IF i = 0 THEN limit ELSE Spent(items[i], f[i - 1])]
    BY <1>6, Zenon DEF Remaining, n
<1>. HIDE DEF f
<1>8. \A i \in 0 .. n : f[i] = IF i = 0 THEN limit ELSE Spent(items[i], f[i - 1])
    BY <1>7, Zenon
<1>9. f[0] = limit /\ \A i \in 1 .. n : f[i] = Spent(items[i], f[i - 1])
  <2>1. 0 \in 0 .. n /\ \A i \in 1 .. n : i \in 0 .. n /\ i # 0
      BY <1>1
  <2>. QED  BY <1>8, <2>1, Zenon
<1>10. 0 .. n \subseteq {i \in 0 .. n : f[i] \in Nat}
  <2>. DEFINE S == {i \in 0 .. n : f[i] \in Nat}
  <2>1. 0 \in S
      BY <1>1, <1>9
  <2>2. ASSUME NEW i \in 1 .. n, i - 1 \in S PROVE i \in S
    <3>1. f[i - 1] \in Nat /\ f[i] = Spent(items[i], f[i - 1]) /\ i \in 0 .. n
        BY <1>9, <2>2
    <3>. QED  BY <1>2, <3>1
  <2>. HIDE DEF S
  <2>3. 0 .. n \subseteq S
      BY <1>1, <2>1, <2>2, UpTo
  <2>. QED  BY <2>3 DEF S
<1>11. \A i \in 0 .. n : f[i] \in Nat
    BY <1>10
<1>. QED  BY <1>9, <1>11 DEF f, n

\* An item that was looked for an image is the item still.
SameButImage(new, old) ==
    /\ new.title = old.title /\ new.about = old.about /\ new.date = old.date
    /\ new.source = old.source /\ new.kind = old.kind /\ new.host = old.host
    /\ new.link = old.link /\ new.page = old.page

LEMMA ItemWithImage ==
    ASSUME NEW it \in NewsItem, NEW b \in BOOLEAN
    PROVE  LET new == [it EXCEPT !.image = b]
           IN  new \in NewsItem /\ SameButImage(new, it) /\ new.image = b
BY DEF NewsItem, SameButImage

LEMMA Enriched ==
    ASSUME NEW items \in Seq(NewsItem), NEW limit \in Nat
    PROVE  LET shown == enrichItemMedia(items, limit)
               left == Remaining(items, limit)
           IN  /\ shown \in Seq(NewsItem) /\ Len(shown) = Len(items)
               /\ \A i \in 1 .. Len(items) :
                    /\ SameButImage(shown[i], items[i])
                    /\ shown[i].image <=> items[i].image \/ GivesImage(items[i], left[i - 1])
                    /\ shown[i] \in {items[i], [items[i] EXCEPT !.image = TRUE]}
<1>. DEFINE shown == enrichItemMedia(items, limit)
            left == Remaining(items, limit)
            n == Len(items)
            Image(i) == items[i].image \/ GivesImage(items[i], left[i - 1])
<1>1. n \in Nat /\ DOMAIN items = 1 .. n /\ \A i \in 1 .. n : items[i] \in NewsItem
    OBVIOUS
<1>2. shown = [i \in 1 .. n |->
                [items[i] EXCEPT !.image = @ \/ GivesImage(items[i], left[i - 1])]]
    BY <1>1, EnrichedBy
<1>. HIDE DEF shown, left, n
<1>3. ASSUME NEW i \in 1 .. n
      PROVE  /\ shown[i] \in NewsItem /\ SameButImage(shown[i], items[i])
             /\ shown[i].image <=> items[i].image \/ GivesImage(items[i], left[i - 1])
             /\ shown[i] \in {items[i], [items[i] EXCEPT !.image = TRUE]}
  <2>1. items[i] \in NewsItem /\ items[i].image \in BOOLEAN
      BY <1>1 DEF NewsItem
  <2>. DEFINE b == Image(i)
  <2>2. b \in BOOLEAN
      BY <2>1 DEF GivesImage
  <2>3. shown[i] = [items[i] EXCEPT !.image = b]
      BY <1>2, <2>1
  <2>4. b <=> items[i].image \/ GivesImage(items[i], left[i - 1])
      OBVIOUS
  <2>. HIDE DEF b
  <2>5. shown[i] \in NewsItem /\ SameButImage(shown[i], items[i]) /\ shown[i].image = b
      BY <2>1, <2>2, <2>3, ItemWithImage
  <2>6. shown[i] \in {items[i], [items[i] EXCEPT !.image = TRUE]}
    <3>1. CASE b
      <4>1. b = TRUE
          BY <2>2, <3>1
      <4>. QED  BY <2>3, <4>1
    <3>2. CASE ~b
      <4>1. b = FALSE /\ items[i].image = FALSE
          BY <2>1, <2>2, <2>4, <3>2
      <4>2. items[i] = [items[i] EXCEPT !.image = FALSE]
          BY <2>1, <4>1 DEF NewsItem
      <4>. QED  BY <2>3, <4>1, <4>2
    <3>. QED  BY <3>1, <3>2
  <2>. QED  BY <2>4, <2>5, <2>6
<1>4. shown \in Seq(NewsItem) /\ Len(shown) = n
    BY <1>1, <1>2, <1>3
<1>. QED  BY <1>3, <1>4 DEF shown, left, n

LEMMA ImagesSpent ==
    ASSUME NEW items \in Seq(NewsItem), NEW limit \in Nat
    PROVE  ImagesSpentInOrder(enrichItemMedia(items, limit), items, limit)
<1>. DEFINE shown == enrichItemMedia(items, limit)
            left == Remaining(items, limit)
            n == Len(items)
            Given(i) == {j \in 1 .. i : GivesImage(items[j], left[j - 1])}
            S == {i \in 0 .. n : IsFiniteSet(Given(i)) /\ Cardinality(Given(i)) = limit - left[i]}
<1>1. n \in Nat /\ \A i \in 1 .. n : items[i] \in NewsItem
    OBVIOUS
<1>2. /\ left[0] = limit
      /\ \A i \in 1 .. n : left[i] = Spent(items[i], left[i - 1])
      /\ \A i \in 0 .. n : left[i] \in Nat
    BY RemainingExists
<1>3. /\ shown \in Seq(NewsItem) /\ Len(shown) = n
      /\ \A i \in 1 .. n :
            /\ SameButImage(shown[i], items[i])
            /\ shown[i].image <=> items[i].image \/ GivesImage(items[i], left[i - 1])
            /\ shown[i] \in {items[i], [items[i] EXCEPT !.image = TRUE]}
    BY Enriched
<1>. HIDE DEF shown, left, n
<1>4. DOMAIN shown = 1 .. n
    BY <1>3
<1>5. 0 \in S
  <2>1. Given(0) = {} /\ 0 \in 0 .. n
      BY <1>1
  <2>2. IsFiniteSet({}) /\ Cardinality({}) = 0
      BY FS_EmptySet
  <2>. QED  BY <1>2, <2>1, <2>2
<1>6. ASSUME NEW i \in 1 .. n, i - 1 \in S PROVE i \in S
  <2>1. i \in 0 .. n /\ i - 1 \in 0 .. n /\ left[i] \in Nat /\ left[i - 1] \in Nat
      BY <1>1, <1>2
  <2>2. IsFiniteSet(Given(i - 1)) /\ Cardinality(Given(i - 1)) = limit - left[i - 1]
      BY <1>6
  <2>3. 1 .. i = (1 .. i - 1) \cup {i} /\ i \notin 1 .. i - 1
      BY <1>1
  <2>4. CASE GivesImage(items[i], left[i - 1])
    <3>1. Given(i) = Given(i - 1) \cup {i} /\ i \notin Given(i - 1)
        BY <2>3, <2>4
    <3>2. left[i] = left[i - 1] - 1
        BY <1>2, <2>4 DEF Spent
    <3>. HIDE DEF Given
    <3>3. IsFiniteSet(Given(i)) /\ Cardinality(Given(i)) = Cardinality(Given(i - 1)) + 1
        BY <2>2, <3>1, FS_AddElement
    <3>. QED  BY <2>1, <2>2, <3>2, <3>3
  <2>5. CASE ~GivesImage(items[i], left[i - 1])
    <3>1. Given(i) = Given(i - 1)
        BY <2>3, <2>5
    <3>2. left[i] = left[i - 1]
        BY <1>2, <2>5 DEF Spent
    <3>. HIDE DEF Given
    <3>. QED  BY <2>1, <2>2, <3>1, <3>2
  <2>. QED  BY <2>4, <2>5
<1>. HIDE DEF S
<1>7. 0 .. n \subseteq S
    BY <1>1, <1>5, <1>6, UpTo
<1>8. \A i \in 0 .. n : Cardinality(Given(i)) = limit - left[i]
    BY <1>7 DEF S
<1>. DEFINE given == {i \in DOMAIN shown : shown[i].image /\ ~items[i].image}
<1>9. given = Given(n)
  <2>1. \A i \in 1 .. n : GivesImage(items[i], left[i - 1]) => ~items[i].image
      BY DEF GivesImage
  <2>. QED  BY <1>3, <1>4, <2>1
<1>10. Cardinality(given) <= limit
  <2>1. n \in 0 .. n
      BY <1>1
  <2>2. left[n] \in Nat /\ Cardinality(Given(n)) = limit - left[n]
      BY <1>2, <1>8, <2>1
  <2>. HIDE DEF given, Given
  <2>. QED  BY <1>9, <2>2
<1>11. ASSUME NEW i \in 1 .. n, ~shown[i].image, fetchOGImage(shown[i])
       PROVE  Cardinality({j \in given : j < i}) = limit
  <2>1. ~items[i].image /\ ~GivesImage(items[i], left[i - 1])
      BY <1>3, <1>11
  <2>2. fetchOGImage(items[i])
    <3>1. SameButImage(shown[i], items[i])
        BY <1>3
    <3>. QED  BY <1>11, <3>1 DEF SameButImage, fetchOGImage
  <2>3. i - 1 \in 0 .. n /\ left[i - 1] \in Nat
      BY <1>1, <1>2
  <2>4. left[i - 1] = 0
      BY <2>1, <2>2, <2>3 DEF GivesImage
  <2>5. {j \in given : j < i} = Given(i - 1)
    <3>1. {j \in Given(n) : j < i} = Given(i - 1)
        BY <1>1
    <3>. HIDE DEF given, Given
    <3>. QED  BY <1>9, <3>1
  <2>. HIDE DEF given, Given
  <2>6. Cardinality(Given(i - 1)) = limit - left[i - 1]
      BY <1>8, <2>3
  <2>7. limit - 0 = limit
      OBVIOUS
  <2>. QED  BY <2>4, <2>5, <2>6, <2>7
<1>. HIDE DEF given, Given
<1>12. \A i \in DOMAIN shown :
          /\ shown[i] \in {items[i], [items[i] EXCEPT !.image = TRUE]}
          /\ ~shown[i].image /\ fetchOGImage(shown[i]) => Cardinality({j \in given : j < i}) = limit
    BY <1>3, <1>4, <1>11
<1>13. ImagesSpentInOrder(shown, items, limit)
    BY <1>10, <1>12, Zenon DEF ImagesSpentInOrder, given
<1>. QED  BY <1>13 DEF shown

-----------------------------------------------------------------------------
(* News: what the report makes of a section.                                *)

LEMMA LesserOf ==
    ASSUME NEW i \in Int, NEW j \in Int
    PROVE  Min({i, j}) = IF i <= j THEN i ELSE j
BY TwoPlaces

LEMMA Taken ==
    ASSUME NEW X, NEW items \in Seq(X), NEW limit \in Nat
    PROVE  /\ Len(takeNewsItems(items, limit)) \in Nat
           /\ Len(takeNewsItems(items, limit)) <= limit
           /\ ToSet(takeNewsItems(items, limit)) \subseteq ToSet(items)
<1>. DEFINE n == Len(items)
            m == Min({limit, n})
            list == takeNewsItems(items, limit)
<1>1. n \in Nat /\ DOMAIN items = 1 .. n /\ items \in Seq(X)
    OBVIOUS
<1>2. list = SubSeq(items, 1, m)
    BY DEF takeNewsItems
<1>3. m = IF limit <= n THEN limit ELSE n
  <2>. HIDE DEF n
  <2>. QED  BY <1>1, LesserOf
<1>. HIDE DEF m, list
<1>4. m \in 0 .. n /\ m <= limit
  <2>. HIDE DEF n
  <2>. QED  BY <1>1, <1>3
<1>5. Len(list) = m /\ DOMAIN list = 1 .. m /\ \A i \in 1 .. m : list[i] = items[i]
    BY <1>1, <1>2, <1>4
<1>6. ToSet(list) \subseteq ToSet(items)
    BY <1>1, <1>4, <1>5 DEF ToSet
<1>. QED  BY <1>4, <1>5, <1>6 DEF list

LEMMA TakenOfKept ==
    ASSUME NEW X, NEW items \in Seq(X), NEW P, NEW limit \in Nat
    PROVE  /\ Len(takeNewsItems(Kept(items, P), limit)) \in Nat
           /\ Len(takeNewsItems(Kept(items, P), limit)) <= limit
           /\ ToSet(takeNewsItems(Kept(items, P), limit)) \subseteq ToSet(items)
<1>. DEFINE left == Kept(items, P)
<1>1. /\ left \in Seq(X)
      /\ \A x : x \in ToSet(left) <=> \E i \in 1 .. Len(items) : i \in P /\ x = items[i]
    BY KeptSet
<1>. HIDE DEF left
<1>2. ToSet(left) \subseteq ToSet(items)
  <2>1. \A i \in 1 .. Len(items) : items[i] \in ToSet(items)
      BY ElementsOf
  <2>. QED  BY <1>1, <2>1
<1>3. /\ Len(takeNewsItems(left, limit)) \in Nat
      /\ Len(takeNewsItems(left, limit)) <= limit
      /\ ToSet(takeNewsItems(left, limit)) \subseteq ToSet(left)
    BY <1>1, Taken
<1>. QED  BY <1>2, <1>3 DEF left

\* The time of an article, before seven or after, tells the day it is of.
LEMMA ArticleDay ==
    ASSUME NEW d \in Int, NEW t \in Int, InWindow(t, morningDigestWindow(d))
    PROVE  IF VnClock(t) < MorningDigestHour * Hour
           THEN VnDay(t) = VnDay(morningDigestWindow(d).until)
           ELSE VnDay(t) = VnDay(morningDigestWindow(d).since)
<1>1. morningDigestWindow(d).until = d * 1440 /\ morningDigestWindow(d).since = d * 1440 - 1440
  <2>1. morningDigestWindow(d) = [since |-> d * 1440 - 1440, until |-> d * 1440]
      BY WindowIsUtcDay
  <2>. QED  BY <2>1
<1>2. d * 1440 - 1440 <= t /\ t < d * 1440
    BY <1>1 DEF InWindow
<1>3. VnDay(d * 1440) = d /\ VnDay(d * 1440 - 1440) = d - 1
    BY DEF VnDay, vnTimezone, Day, Hour
<1>4. VnClock(t) = (t + 420) % 1440 /\ VnDay(t) = (t + 420) \div 1440
    BY DEF VnClock, VnDay, vnTimezone, Day, Hour
<1>5. MorningDigestHour * Hour = 420
    BY DEF MorningDigestHour, Hour
<1>6. IF (t + 420) % 1440 < 420 THEN (t + 420) \div 1440 = d ELSE (t + 420) \div 1440 = d - 1
    BY <1>2
<1>. QED  BY <1>1, <1>3, <1>4, <1>5, <1>6

\* A list has room for the lines that it begins with, and items of the section.
Room(list, items, quoted, limit) ==
    Len(list) + quoted <= limit /\ ToSet(list) \subseteq ToSet(items)

LEMMA ListsHaveRoom ==
    ASSUME NEW X, NEW shown \in Seq(X), NEW quoted \in 0 .. 2
    PROVE  /\ Room(buildStockHighlights(shown, quoted), shown, quoted, 5)
           /\ Room(buildOilHighlights(shown, quoted), shown, quoted, 4)
           /\ Room(GoldHighlights(shown, quoted), shown, quoted, 4)
           /\ quoted = 2 => Room(buildWatchlist(shown), shown, quoted, 5)
           /\ quoted = 0 => Room(VietnamFinanceNews(shown), shown, quoted, 6)
<1>1. ASSUME NEW P, NEW limit \in 4 .. 6
      PROVE  Room(takeNewsItems(Kept(shown, P), limit - quoted), shown, quoted, limit)
  <2>1. limit - quoted \in Nat
      OBVIOUS
  <2>. DEFINE list == takeNewsItems(Kept(shown, P), limit - quoted)
  <2>2. Len(list) \in Nat /\ Len(list) <= limit - quoted /\ ToSet(list) \subseteq ToSet(shown)
      BY <2>1, TakenOfKept
  <2>. HIDE DEF list
  <2>3. Room(list, shown, quoted, limit)
      BY <2>2 DEF Room
  <2>. QED  BY <2>3 DEF list
<1>2. \A words : \E P : Where(shown, LAMBDA it : it.about \cap words # {}) = Kept(shown, P)
    BY DEF Where
<1>3. \A words : \A limit \in 4 .. 6 :
        Room(Headlines(shown, words, quoted, limit), shown, quoted, limit)
    BY <1>1, <1>2 DEF Headlines
<1>4. Room(buildStockHighlights(shown, quoted), shown, quoted, 5)
  <2>1. 5 \in 4 .. 6
      OBVIOUS
  <2>. QED  BY <1>1, <2>1, Zenon DEF buildStockHighlights, filterStockNewsSources, Where
<1>5. 4 \in 4 .. 6 /\ 5 \in 4 .. 6 /\ 6 \in 4 .. 6
    OBVIOUS
<1>6. /\ Room(buildOilHighlights(shown, quoted), shown, quoted, 4)
      /\ Room(GoldHighlights(shown, quoted), shown, quoted, 4)
    BY <1>3, <1>5, Zenon DEF buildOilHighlights, GoldHighlights
<1>7. quoted = 2 => Room(buildWatchlist(shown), shown, quoted, 5)
  <2>1. Room(Headlines(shown, {"fed", "cpi", "ecb", "jobs"}, quoted, 5), shown, quoted, 5)
      BY <1>3, <1>5, Zenon
  <2>. QED  BY <2>1, Zenon DEF buildWatchlist
<1>8. quoted = 0 => Room(VietnamFinanceNews(shown), shown, quoted, 6)
  <2>. DEFINE P == {i \in DOMAIN shown : shown[i].kind = "vietnam"}
  <2>1. VietnamFinanceNews(shown) = takeNewsItems(Kept(shown, P), 6)
      BY DEF VietnamFinanceNews, Where
  <2>. HIDE DEF P
  <2>2. Room(takeNewsItems(Kept(shown, P), 6 - quoted), shown, quoted, 6)
      BY <1>1, <1>5
  <2>3. quoted = 0 => 6 - quoted = 6
      OBVIOUS
  <2>. QED  BY <2>1, <2>2, <2>3
<1>. QED  BY <1>4, <1>6, <1>7, <1>8

LEMMA ShownSound ==
    ASSUME NEW section \in Sections, NEW d \in Int, NEW items, NEW fresh, NEW found,
           NEW limit \in Nat,
           SectionOf(section, items, fresh, found, morningDigestWindow(d))
    PROVE  SectionSound(section, enrichItemMedia(items, limit), morningDigestWindow(d))
<1>. DEFINE window == morningDigestWindow(d)
            shown == enrichItemMedia(items, limit)
            n == Len(items)
<1>1. /\ items \in Seq(Fresh(window))
      /\ section = "stocks" =>
            Distinct(items) /\ \A it \in ToSet(items) : isAllowedStockNewsSource(it)
      /\ section \in {"breaking", "vtv"} =>
            \A k, l \in 1 .. n : k < l => items[k].date >= items[l].date
    BY Zenon DEF SectionOf
<1>2. n \in Nat /\ DOMAIN items = 1 .. n /\ \A i \in 1 .. n : items[i] \in Fresh(window)
    BY <1>1
<1>3. \A i \in 1 .. n : items[i] \in NewsItem /\ isNewsInDigestWindow(items[i].date, window)
    BY <1>2 DEF Fresh
<1>4. ToSet(items) \subseteq NewsItem
    BY <1>2, <1>3 DEF ToSet
<1>5. items \in Seq(NewsItem)
    BY <1>1, <1>4, SeqOfElements
<1>6. /\ shown \in Seq(NewsItem) /\ Len(shown) = n
      /\ \A i \in 1 .. n : SameButImage(shown[i], items[i])
    BY <1>5, Enriched
<1>. HIDE DEF shown, n, window
<1>7. DOMAIN shown = 1 .. n
    BY <1>6
<1>8. ASSUME NEW i \in 1 .. n
      PROVE  /\ shown[i].date # NoDate /\ shown[i].date \in Int
             /\ InWindow(shown[i].date, window)
  <2>1. shown[i].date = items[i].date
      BY <1>6 DEF SameButImage
  <2>2. items[i].date \in Int
      BY <1>2, FreshDates
  <2>. QED  BY <1>3, <2>1, <2>2 DEF isNewsInDigestWindow
<1>9. \A it \in ToSet(shown) : it.date # NoDate /\ window.since <= it.date /\ it.date < window.until
    BY <1>7, <1>8 DEF ToSet, InWindow
<1>10. ASSUME section = "stocks"
       PROVE  /\ \A it \in ToSet(shown) : isAllowedStockNewsSource(it)
              /\ Cardinality(Titles(shown)) = Len(shown)
  <2>1. ASSUME NEW i \in 1 .. n PROVE isAllowedStockNewsSource(shown[i])
    <3>1. items[i] \in ToSet(items)
        BY <1>2 DEF ToSet
    <3>2. isAllowedStockNewsSource(items[i])
        BY <1>1, <1>10, <3>1
    <3>3. shown[i].host = items[i].host /\ shown[i].source = items[i].source
        BY <1>6 DEF SameButImage
    <3>. QED  BY <3>2, <3>3 DEF isAllowedStockNewsSource
  <2>2. \A k, l \in 1 .. n : items[k].title = items[l].title => k = l
      BY <1>1, <1>10 DEF Distinct, n
  <2>3. Distinct(shown)
      BY <1>6, <2>2 DEF Distinct, SameButImage
  <2>4. Cardinality(Titles(shown)) = Len(shown)
      BY <1>6, <2>3, TitlesCounted
  <2>5. \A it \in ToSet(shown) : \E i \in 1 .. n : it = shown[i]
      BY <1>7 DEF ToSet
  <2>. QED  BY <2>1, <2>4, <2>5
<1>11. section \in {"breaking", "vtv"} =>
          \A i, j \in DOMAIN shown : i < j => shown[i].date >= shown[j].date
    BY <1>1, <1>6, <1>7 DEF SameButImage
<1>12. ASSUME NEW i \in DOMAIN toBreakingNews(shown)
       PROVE  LET article == toBreakingNews(shown)[i].article
              IN  IF article.clock < MorningDigestHour * Hour
                  THEN article.day = VnDay(window.until)
                  ELSE article.day = VnDay(window.since)
  <2>1. i \in 1 .. n
      BY <1>7, <1>12 DEF toBreakingNews
  <2>. DEFINE article == toBreakingNews(shown)[i].article
  <2>2. article = toNewsArticles(shown)[i]
      BY <1>7, <2>1 DEF toBreakingNews
  <2>3. article.day = VnDay(shown[i].date) /\ article.clock = VnClock(shown[i].date)
      BY <1>7, <2>1, <2>2 DEF toNewsArticles
  <2>. DEFINE t == shown[i].date
  <2>4. t \in Int /\ InWindow(t, morningDigestWindow(d))
      BY <1>8, <2>1 DEF window
  <2>. HIDE DEF article, t
  <2>5. IF VnClock(t) < MorningDigestHour * Hour
        THEN VnDay(t) = VnDay(window.until)
        ELSE VnDay(t) = VnDay(window.since)
      BY <2>4, ArticleDay DEF window
  <2>6. article.day = VnDay(t) /\ article.clock = VnClock(t)
      BY <2>3 DEF t
  <2>7. IF article.clock < MorningDigestHour * Hour
        THEN article.day = VnDay(window.until)
        ELSE article.day = VnDay(window.since)
      BY <2>5, <2>6
  <2>. QED  BY <2>7 DEF article
<1>13. \A quoted \in 0 .. 2 :
          /\ Room(buildStockHighlights(shown, quoted), shown, quoted, 5)
          /\ Room(buildOilHighlights(shown, quoted), shown, quoted, 4)
          /\ Room(GoldHighlights(shown, quoted), shown, quoted, 4)
          /\ quoted = 2 => Room(buildWatchlist(shown), shown, quoted, 5)
          /\ quoted = 0 => Room(VietnamFinanceNews(shown), shown, quoted, 6)
    BY <1>6, ListsHaveRoom
<1>14. SectionSound(section, shown, window)
    BY <1>9, <1>10, <1>11, <1>12, <1>13, Zenon DEF SectionSound, Room
<1>. QED  BY <1>14 DEF shown, window

\* Of every request for a section, what is answered and what it was made of.
LEMMA SectionAnswered ==
    ASSUME ContentsInv, Answered("section")
    PROVE  /\ task.section \in Sections /\ task.day \in Int
           /\ answer = enrichItemMedia(
                SectionItems(task.section, task.feeds, task.queries, task.answers, Window(task)),
                ImageLimit(task.section))
           /\ ImageLimit(task.section) \in Nat
           /\ SectionOf(task.section,
                SectionItems(task.section, task.feeds, task.queries, task.answers, Window(task)),
                filterNewsBetween(Read(task.feeds, task.answers[1]), Window(task)),
                filterNewsBetween(Read(task.queries, task.answers[2]), Window(task)),
                Window(task))
<1>1. task \in SectionRequests /\ answer = AnswerTo(task) /\ task.op = "section"
    BY AnswersByKind DEF Answered
<1>2. /\ task.section \in Sections /\ task.day \in Int
      /\ Asked(task.feeds, task.answers[1]) /\ Asked(task.queries, task.answers[2])
    BY <1>1, SectionsAssumption
<1>3. answer = SectionNews(task.section, task.feeds, task.queries, task.answers, Window(task))
    BY <1>1 DEF AnswerTo
<1>4. ImageLimit(task.section) \in Nat
    BY <1>2 DEF Sections, ImageLimit
<1>. QED  BY <1>2, <1>3, <1>4, ItemsOfSection DEF SectionNews

\* Whatever the feeds and the archive answer, the news of a section are of the
\* bulletin's day and of the section's publishers, the newest first where they are
\* sorted (by exchanges, service.go), and the lists made of them have room.
THEOREM SectionsAlwaysSound == ContentsSpec => []SectionsSound
<1>1. ContentsInv => SectionsSound
  <2>1. SUFFICES ASSUME ContentsInv, Answered("section")
                 PROVE  SectionSound(task.section, answer, Window(task))
      BY DEF SectionsSound
  <2>. QED  BY <2>1, SectionAnswered, ShownSound DEF Window
<1>. QED  BY <1>1, ContentsInvariant, PTL

LEMMA ShownComplete ==
    ASSUME NEW section, NEW window, NEW items, NEW fresh, NEW found, NEW limit \in Nat,
           SectionOf(section, items, fresh, found, window)
    PROVE  /\ NothingMissing(section, enrichItemMedia(items, limit), fresh, found)
           /\ ImagesSpentInOrder(enrichItemMedia(items, limit), items, limit)
<1>. DEFINE shown == enrichItemMedia(items, limit)
<1>1. items \in Seq(Fresh(window)) /\ NothingMissing(section, items, fresh, found)
    BY Zenon DEF SectionOf
<1>2. items \in Seq(NewsItem)
  <2>1. ToSet(items) \subseteq Fresh(window) /\ Fresh(window) \subseteq NewsItem
      BY <1>1, ElementsOf DEF Fresh
  <2>2. ToSet(items) \subseteq NewsItem
      BY <2>1
  <2>. QED  BY <1>1, <2>2, SeqOfElements
<1>3. /\ shown \in Seq(NewsItem) /\ Len(shown) = Len(items)
      /\ \A i \in 1 .. Len(items) : SameButImage(shown[i], items[i])
    BY <1>2, Enriched
<1>4. ImagesSpentInOrder(shown, items, limit)
    BY <1>2, ImagesSpent
<1>. HIDE DEF shown
<1>5. Titles(shown) = Titles(items)
  <2>1. \A t : t \in Titles(items) <=> \E k \in 1 .. Len(items) : items[k].title = t
      BY <1>2, TitlesOf
  <2>2. \A t : t \in Titles(shown) <=> \E k \in 1 .. Len(shown) : shown[k].title = t
      BY <1>3, TitlesOf
  <2>3. \A i \in 1 .. Len(items) : shown[i].title = items[i].title
      BY <1>3 DEF SameButImage
  <2>4. \A t : t \in Titles(shown) <=> t \in Titles(items)
      BY <1>3, <2>1, <2>2, <2>3
  <2>. QED  BY <2>4
<1>6. NothingMissing(section, shown, fresh, found)
    BY <1>1, <1>3, <1>5 DEF NothingMissing
<1>. QED  BY <1>4, <1>6 DEF shown

\* A section is short only where the feeds and the archive have no more, none of
\* their titles is lost, and its images are looked for in its order until as many
\* pages as it may ask have given one (service.go, media.go).
THEOREM NewsAlwaysComplete == ContentsSpec => []NewsComplete
<1>1. ContentsInv => NewsComplete
  <2>1. SUFFICES ASSUME ContentsInv, Answered("section")
                 PROVE  LET fresh == filterNewsBetween(Read(task.feeds, task.answers[1]), Window(task))
                            found == filterNewsBetween(Read(task.queries, task.answers[2]), Window(task))
                            items == SectionItems(task.section, task.feeds, task.queries,
                                                  task.answers, Window(task))
                        IN  /\ NothingMissing(task.section, answer, fresh, found)
                            /\ ImagesSpentInOrder(answer, items, ImageLimit(task.section))
      BY Zenon DEF NewsComplete
  <2>. DEFINE fresh == filterNewsBetween(Read(task.feeds, task.answers[1]), Window(task))
              found == filterNewsBetween(Read(task.queries, task.answers[2]), Window(task))
              items == SectionItems(task.section, task.feeds, task.queries, task.answers, Window(task))
              limit == ImageLimit(task.section)
  <2>2. /\ answer = enrichItemMedia(items, limit)
        /\ limit \in Nat
        /\ SectionOf(task.section, items, fresh, found, Window(task))
      BY <2>1, SectionAnswered
  <2>. HIDE DEF fresh, found, items, limit
  <2>3. /\ NothingMissing(task.section, answer, fresh, found)
        /\ ImagesSpentInOrder(answer, items, limit)
      BY <2>2, ShownComplete
  <2>. QED  BY <2>3 DEF fresh, found, items, limit
<1>. QED  BY <1>1, ContentsInvariant, PTL

-----------------------------------------------------------------------------
(* What FoldLeft makes of a sequence: a loop over its places.               *)

\* f is the function by which a fold over the places 1 .. n is defined.
Folds(f, n, X, base, F) ==
    /\ f \in [SUBSET (1 .. n) -> X]
    /\ f[{}] = base
    /\ \A S \in SUBSET (1 .. n) : S # {} => f[S] = F[Max(S), f[S \ {Max(S)}]]

LEMMA LastPlace ==
    ASSUME NEW m \in Nat, m >= 1, NEW S \in SUBSET (1 .. m), m \in S
    PROVE  Max(S) = m
<1>1. S # {}
    OBVIOUS
<1>2. Max(S) \in S /\ \A i \in S : Max(S) >= i
    BY <1>1, LargestPlace
<1>3. Max(S) \in 1 .. m /\ Max(S) >= m
    BY <1>2
<1>. QED  BY <1>3

LEMMA FoldExists ==
    ASSUME NEW n \in Nat, NEW X, NEW base \in X, NEW F \in [(1 .. n) \X X -> X]
    PROVE  \E f : Folds(f, n, X, base, F)
<1>. DEFINE T == {m \in 0 .. n : \E f : Folds(f, m, X, base, F)}
<1>1. 0 \in T
  <2>. DEFINE f == [S \in {{}} |-> base]
  <2>1. SUBSET (1 .. 0) = {{}} /\ 0 \in 0 .. n
      OBVIOUS
  <2>2. f \in [{{}} -> X] /\ f[{}] = base
      OBVIOUS
  <2>. HIDE DEF f
  <2>3. Folds(f, 0, X, base, F)
      BY <2>1, <2>2 DEF Folds
  <2>. QED  BY <2>1, <2>3
<1>2. ASSUME NEW m \in 1 .. n, m - 1 \in T PROVE m \in T
  <2>1. PICK f : Folds(f, m - 1, X, base, F)
      BY <1>2
  <2>2. /\ m \in Nat /\ m >= 1 /\ m \in 0 .. n /\ m \notin 1 .. m - 1
        /\ \A S \in SUBSET (1 .. m) : m \notin S => S \in SUBSET (1 .. m - 1)
        /\ \A S \in SUBSET (1 .. m) : S \ {m} \in SUBSET (1 .. m - 1)
        /\ \A S \in SUBSET (1 .. m - 1) : S \in SUBSET (1 .. m) /\ m \notin S
      OBVIOUS
  <2>. DEFINE g == [S \in SUBSET (1 .. m) |-> IF m \in S THEN F[m, f[S \ {m}]] ELSE f[S]]
  <2>3. \A S \in SUBSET (1 .. m - 1) : f[S] \in X
      BY <2>1 DEF Folds
  <2>4. \A S \in SUBSET (1 .. m) : m \in S => g[S] = F[m, f[S \ {m}]] /\ g[S] \in X
    <3>1. SUFFICES ASSUME NEW S \in SUBSET (1 .. m), m \in S
                   PROVE  F[m, f[S \ {m}]] \in X
        OBVIOUS
    <3>2. f[S \ {m}] \in X
        BY <2>2, <2>3
    <3>3. <<m, f[S \ {m}]>> \in (1 .. n) \X X
        BY <3>2
    <3>. QED  BY <3>3
  <2>5. \A S \in SUBSET (1 .. m - 1) : g[S] = f[S]
      BY <2>2
  <2>6. g \in [SUBSET (1 .. m) -> X]
    <3>1. \A S \in SUBSET (1 .. m) : g[S] \in X
        BY <2>2, <2>3, <2>4, <2>5
    <3>. QED  BY <3>1
  <2>. HIDE DEF g
  <2>7. g[{}] = base
    <3>1. {} \in SUBSET (1 .. m - 1)
        OBVIOUS
    <3>. QED  BY <2>1, <2>5, <3>1 DEF Folds
  <2>8. ASSUME NEW S \in SUBSET (1 .. m), S # {}
        PROVE  g[S] = F[Max(S), g[S \ {Max(S)}]]
    <3>1. CASE m \in S
      <4>1. Max(S) = m
          BY <2>2, <3>1, LastPlace
      <4>2. g[S \ {m}] = f[S \ {m}]
          BY <2>2, <2>5
      <4>. QED  BY <2>4, <3>1, <4>1, <4>2
    <3>2. CASE m \notin S
      <4>1. S \in SUBSET (1 .. m - 1)
          BY <2>2, <3>2
      <4>2. S \ {Max(S)} \in SUBSET (1 .. m - 1)
          BY <4>1
      <4>3. f[S] = F[Max(S), f[S \ {Max(S)}]]
          BY <2>1, <2>8, <4>1 DEF Folds
      <4>. QED  BY <2>5, <4>1, <4>2, <4>3
    <3>. QED  BY <3>1, <3>2
  <2>9. Folds(g, m, X, base, F)
      BY <2>6, <2>7, <2>8 DEF Folds
  <2>. QED  BY <2>2, <2>9
<1>. HIDE DEF T
<1>3. 0 .. n \subseteq T
    BY <1>1, <1>2, UpTo
<1>4. n \in T
    BY <1>3
<1>. QED  BY <1>4 DEF T

\* Its values at the sets 1 .. i are those of the loop, for which it need do what F
\* does only in X.
FoldsIn(f, n, X, F) ==
    \A S \in SUBSET (1 .. n) :
        S # {} /\ f[S \ {Max(S)}] \in X => f[S] = F[Max(S), f[S \ {Max(S)}]]

LEMMA FoldPrefixes ==
    ASSUME NEW n \in Nat, NEW X, NEW base \in X, NEW F \in [(1 .. n) \X X -> X], NEW f,
           f[{}] = base, FoldsIn(f, n, X, F)
    PROVE  Goes([i \in 0 .. n |-> f[1 .. i]], 0, n, X, base, F)
<1>. DEFINE h == [i \in 0 .. n |-> f[1 .. i]]
            T == {i \in 0 .. n : f[1 .. i] \in X}
<1>1. f[1 .. 0] = base
  <2>1. 1 .. 0 = {}
      OBVIOUS
  <2>. QED  BY <2>1
<1>2. 0 \in T
    BY <1>1
<1>3. ASSUME NEW i \in 1 .. n, f[1 .. i - 1] \in X
      PROVE  f[1 .. i] = F[i, f[1 .. i - 1]] /\ f[1 .. i] \in X
  <2>1. /\ i \in Nat /\ i >= 1 /\ 1 .. i \in SUBSET (1 .. i) /\ i \in 1 .. i
        /\ 1 .. i \in SUBSET (1 .. n) /\ 1 .. i # {} /\ (1 .. i) \ {i} = 1 .. i - 1
      OBVIOUS
  <2>2. Max(1 .. i) = i
      BY <2>1, LastPlace
  <2>3. f[1 .. i] = F[i, f[1 .. i - 1]]
      BY <1>3, <2>1, <2>2 DEF FoldsIn
  <2>4. <<i, f[1 .. i - 1]>> \in (1 .. n) \X X
      BY <1>3
  <2>. QED  BY <2>3, <2>4
<1>4. \A i \in 1 .. n : i - 1 \in T => i \in T
  <2>1. SUFFICES ASSUME NEW i \in 1 .. n, i - 1 \in T PROVE i \in T
      OBVIOUS
  <2>2. f[1 .. i - 1] \in X
      BY <2>1
  <2>3. f[1 .. i] \in X
      BY <1>3, <2>2, Zenon
  <2>4. i \in 0 .. n
      OBVIOUS
  <2>. QED  BY <2>3, <2>4
<1>. HIDE DEF T
<1>5. 0 .. n \subseteq T
    BY <1>2, <1>4, UpTo
<1>6. \A i \in 0 .. n : h[i] = f[1 .. i] /\ f[1 .. i] \in X
    BY <1>5 DEF T
<1>7. h \in [0 .. n -> X]
    BY <1>6
<1>. HIDE DEF h
<1>8. ASSUME NEW i \in 0 + 1 .. n PROVE h[i] = F[i, h[i - 1]]
  <2>1. i \in 1 .. n /\ i \in 0 .. n /\ i - 1 \in 0 .. n
      OBVIOUS
  <2>. QED  BY <1>3, <1>6, <2>1
<1>9. h[0] = base
    BY <1>1, <1>6
<1>10. Goes(h, 0, n, X, base, F)
    BY <1>7, <1>8, <1>9 DEF Goes
<1>. QED  BY <1>10 DEF h

-----------------------------------------------------------------------------
(* Answers: what is put together of parts.                                  *)

Call == [id : STRING \X Nat, name : STRING]
GeminiReply == [text : Seq(STRING), signature : STRING \cup {None}, calls : Seq(Call)]
Chunk == [text : Seq(STRING), signature : STRING \cup {None}]
StreamState == [chunks : Seq(Chunk), reply : GeminiReply]
Frame == Seq(AnswerPart) \cup {Malformed, NoCandidates}

Gen(parts) == FoldLeft(AddPart, NoReply, parts)

LEMMA PartAdded ==
    ASSUME NEW reply \in GeminiReply, NEW part \in AnswerPart
    PROVE  AddPart(reply, part) \in GeminiReply
<1>1. /\ reply.text \in Seq(STRING) /\ reply.signature \in STRING \cup {None} /\ reply.calls \in Seq(Call)
      /\ part.text \in Seq(STRING) /\ part.signature \in STRING \cup {None} /\ part.call \in STRING \cup {None}
    BY DEF GeminiReply, AnswerPart
<1>2. reply.text \o part.text \in Seq(STRING)
    BY <1>1
<1>3. AddCall(reply.calls, part.call) \in Seq(Call)
  <2>1. CASE part.call = None
      BY <1>1, <2>1 DEF AddCall
  <2>2. CASE part.call # None
    <3>1. part.call \in STRING /\ Len(reply.calls) \in Nat
        BY <1>1, <2>2
    <3>2. [id |-> <<part.call, Len(reply.calls)>>, name |-> part.call] \in Call
        BY <3>1 DEF Call
    <3>3. Append(reply.calls, [id |-> <<part.call, Len(reply.calls)>>, name |-> part.call]) \in Seq(Call)
        BY <1>1, <3>2
    <3>. QED  BY <2>2, <3>3 DEF AddCall
  <2>. QED  BY <2>1, <2>2
<1>. HIDE DEF AddCall
<1>. QED  BY <1>1, <1>2, <1>3 DEF AddPart, GeminiReply

LEMMA NoReplyTyped == NoReply \in GeminiReply
<1>1. << >> \in Seq(STRING) /\ << >> \in Seq(Call)
    OBVIOUS
<1>. QED  BY <1>1 DEF NoReply, GeminiReply

\* The function by which the answer is put together.
GenFold(parts) ==
    CHOOSE f : f = [S \in SUBSET (DOMAIN parts) |->
        IF S = {} THEN NoReply ELSE AddPart(f[S \ {Max(S)}], parts[Max(S)])]

LEMMA GenIsFold == ASSUME NEW parts PROVE Gen(parts) = GenFold(parts)[DOMAIN parts]
BY Zenon DEF Gen, GenFold, FoldLeft, MapThenFoldSet

LEMMA Generated ==
    ASSUME NEW parts \in Seq(AnswerPart)
    PROVE  \E h \in [0 .. Len(parts) -> GeminiReply] :
              /\ h[0] = NoReply
              /\ \A i \in 1 .. Len(parts) : h[i] = AddPart(h[i - 1], parts[i])
              /\ Gen(parts) = h[Len(parts)]
<1>. DEFINE n == Len(parts)
            F == [p \in (1 .. n) \X GeminiReply |-> AddPart(p[2], parts[p[1]])]
            c == GenFold(parts)
<1>1. n \in Nat /\ DOMAIN parts = 1 .. n /\ \A i \in 1 .. n : parts[i] \in AnswerPart
    OBVIOUS
<1>. HIDE DEF n
<1>2. ASSUME NEW i \in 1 .. n, NEW x \in GeminiReply
      PROVE  F[i, x] = AddPart(x, parts[i]) /\ F[i, x] \in GeminiReply
  <2>1. <<i, x>> \in (1 .. n) \X GeminiReply
      OBVIOUS
  <2>2. F[<<i, x>>] = AddPart(x, parts[i])
      BY <2>1
  <2>3. AddPart(x, parts[i]) \in GeminiReply
      BY <1>1, PartAdded
  <2>. QED  BY <2>2, <2>3
<1>3. F \in [(1 .. n) \X GeminiReply -> GeminiReply]
  <2>1. \A p \in (1 .. n) \X GeminiReply : AddPart(p[2], parts[p[1]]) \in GeminiReply
    <3>1. SUFFICES ASSUME NEW p \in (1 .. n) \X GeminiReply PROVE AddPart(p[2], parts[p[1]]) \in GeminiReply
        OBVIOUS
    <3>2. p[2] \in GeminiReply /\ parts[p[1]] \in AnswerPart
        BY <1>1
    <3>. QED  BY <3>2, PartAdded
  <2>. QED  BY <2>1
<1>. HIDE DEF F
<1>4. PICK f : Folds(f, n, GeminiReply, NoReply, F)
    BY <1>1, <1>3, FoldExists, NoReplyTyped
<1>5. ASSUME NEW S \in SUBSET (1 .. n), S # {}
      PROVE  Max(S) \in 1 .. n /\ S \ {Max(S)} \in SUBSET (1 .. n)
    BY <1>1, <1>5, LargestPlace
<1>6. f = [S \in SUBSET (1 .. n) |->
            IF S = {} THEN NoReply ELSE AddPart(f[S \ {Max(S)}], parts[Max(S)])]
  <2>1. \A S \in SUBSET (1 .. n) :
            f[S] = IF S = {} THEN NoReply ELSE AddPart(f[S \ {Max(S)}], parts[Max(S)])
    <3>1. SUFFICES ASSUME NEW S \in SUBSET (1 .. n), S # {}
                   PROVE  f[S] = AddPart(f[S \ {Max(S)}], parts[Max(S)])
        BY <1>4 DEF Folds
    <3>2. f[S \ {Max(S)}] \in GeminiReply
        BY <1>4, <1>5, <3>1 DEF Folds
    <3>3. f[S] = F[Max(S), f[S \ {Max(S)}]]
        BY <1>4, <3>1 DEF Folds
    <3>. QED  BY <1>2, <1>5, <3>1, <3>2, <3>3
  <2>2. f \in [SUBSET (1 .. n) -> GeminiReply]
      BY <1>4 DEF Folds
  <2>. QED  BY <2>1, <2>2
<1>7. c = [S \in SUBSET (1 .. n) |->
            IF S = {} THEN NoReply ELSE AddPart(c[S \ {Max(S)}], parts[Max(S)])]
    BY <1>1, <1>6, Zenon DEF GenFold
<1>. HIDE DEF c
<1>8. c[{}] = NoReply /\ FoldsIn(c, n, GeminiReply, F)
  <2>1. \A S \in SUBSET (1 .. n) :
            c[S] = IF S = {} THEN NoReply ELSE AddPart(c[S \ {Max(S)}], parts[Max(S)])
      BY <1>7, Zenon
  <2>2. {} \in SUBSET (1 .. n)
      OBVIOUS
  <2>3. ASSUME NEW S \in SUBSET (1 .. n), S # {}, c[S \ {Max(S)}] \in GeminiReply
        PROVE  c[S] = F[Max(S), c[S \ {Max(S)}]]
      BY <1>2, <1>5, <2>1, <2>3
  <2>. QED  BY <2>1, <2>2, <2>3 DEF FoldsIn
<1>. DEFINE h == [i \in 0 .. n |-> c[1 .. i]]
<1>9. Goes(h, 0, n, GeminiReply, NoReply, F)
    BY <1>1, <1>3, <1>8, FoldPrefixes, NoReplyTyped
<1>10. h[n] = c[1 .. n]
    BY <1>1
<1>. HIDE DEF h
<1>11. h \in [0 .. n -> GeminiReply] /\ h[0] = NoReply
    BY <1>9 DEF Goes
<1>12. ASSUME NEW i \in 1 .. n PROVE h[i] = AddPart(h[i - 1], parts[i])
  <2>1. i \in 0 + 1 .. n /\ i - 1 \in 0 .. n
      BY <1>1
  <2>2. h[i] = F[i, h[i - 1]] /\ h[i - 1] \in GeminiReply
      BY <1>9, <2>1 DEF Goes
  <2>. QED  BY <1>2, <2>2
<1>13. Gen(parts) = h[n]
    BY <1>1, <1>10, GenIsFold DEF c
<1>. QED  BY <1>11, <1>12, <1>13 DEF n

\* One part more is added to what there is.
LEMMA GenNext ==
    /\ Gen(<< >>) = NoReply
    /\ \A parts \in Seq(AnswerPart) :
        /\ Gen(parts) \in GeminiReply
        /\ \A part \in AnswerPart : Gen(Append(parts, part)) = AddPart(Gen(parts), part)
<1>1. Gen(<< >>) = NoReply
  <2>1. << >> \in Seq(AnswerPart) /\ Len(<< >>) = 0
      OBVIOUS
  <2>. QED  BY <2>1, Generated
<1>2. ASSUME NEW parts \in Seq(AnswerPart) PROVE Gen(parts) \in GeminiReply
  <2>1. PICK h \in [0 .. Len(parts) -> GeminiReply] : Gen(parts) = h[Len(parts)]
      BY Generated
  <2>2. Len(parts) \in 0 .. Len(parts)
      OBVIOUS
  <2>. QED  BY <2>1, <2>2
<1>3. ASSUME NEW parts \in Seq(AnswerPart), NEW part \in AnswerPart
      PROVE  Gen(Append(parts, part)) = AddPart(Gen(parts), part)
  <2>. DEFINE n == Len(parts)
              more == Append(parts, part)
  <2>1. /\ n \in Nat /\ n <= n + 1 /\ more \in Seq(AnswerPart) /\ Len(more) = n + 1
        /\ more[n + 1] = part /\ \A i \in 1 .. n : more[i] = parts[i]
      OBVIOUS
  <2>2. PICK h \in [0 .. n -> GeminiReply] :
            /\ h[0] = NoReply
            /\ \A i \in 1 .. n : h[i] = AddPart(h[i - 1], parts[i])
            /\ Gen(parts) = h[n]
      BY Generated
  <2>. HIDE DEF more, n
  <2>3. PICK g \in [0 .. n + 1 -> GeminiReply] :
            /\ g[0] = NoReply
            /\ \A i \in 1 .. n + 1 : g[i] = AddPart(g[i - 1], more[i])
            /\ Gen(more) = g[n + 1]
      BY <2>1, Generated
  <2>. DEFINE S == {i \in 0 .. n : g[i] = h[i]}
  <2>4. 0 \in S
      BY <2>1, <2>2, <2>3
  <2>5. ASSUME NEW i \in 1 .. n, i - 1 \in S PROVE i \in S
    <3>1. i \in 1 .. n + 1 /\ i \in 0 .. n /\ g[i - 1] = h[i - 1]
        BY <2>1, <2>5
    <3>2. g[i] = h[i]
        BY <2>1, <2>2, <2>3, <3>1
    <3>. QED  BY <3>1, <3>2
  <2>. HIDE DEF S
  <2>6. 0 .. n \subseteq S
      BY <2>1, <2>4, <2>5, UpTo
  <2>8. g[n] = h[n]
    <3>1. n \in 0 .. n
        BY <2>1
    <3>. QED  BY <2>6, <3>1 DEF S
  <2>7. n + 1 \in 1 .. n + 1 /\ (n + 1) - 1 = n
      BY <2>1
  <2>. QED  BY <2>1, <2>2, <2>3, <2>7, <2>8 DEF more
<1>. QED  BY <1>1, <1>2, <1>3

LEMMA PartRead ==
    ASSUME NEW stream \in StreamState, NEW part \in AnswerPart
    PROVE  ReadPart(stream, part) \in StreamState
<1>1. stream.chunks \in Seq(Chunk) /\ stream.reply \in GeminiReply
    BY DEF StreamState
<1>2. AddPart(stream.reply, part) \in GeminiReply
    BY <1>1, PartAdded
<1>3. [text |-> part.text, signature |-> part.signature] \in Chunk
    BY DEF AnswerPart, Chunk
<1>4. Append(stream.chunks, [text |-> part.text, signature |-> part.signature]) \in Seq(Chunk)
    BY <1>1, <1>3
<1>. QED  BY <1>1, <1>2, <1>4 DEF ReadPart, StreamState

\* The same for a frame that is read into a stream.
FrameFold(stream, frame) ==
    CHOOSE f : f = [S \in SUBSET (DOMAIN frame) |->
        IF S = {} THEN stream ELSE ReadPart(f[S \ {Max(S)}], frame[Max(S)])]

LEMMA FrameIsFold ==
    ASSUME NEW stream, NEW frame
    PROVE  FoldLeft(ReadPart, stream, frame) = FrameFold(stream, frame)[DOMAIN frame]
BY Zenon DEF FrameFold, FoldLeft, MapThenFoldSet

LEMMA PartsRead ==
    ASSUME NEW stream \in StreamState, NEW frame \in Seq(AnswerPart)
    PROVE  \E h \in [0 .. Len(frame) -> StreamState] :
              /\ h[0] = stream
              /\ \A i \in 1 .. Len(frame) : h[i] = ReadPart(h[i - 1], frame[i])
              /\ FoldLeft(ReadPart, stream, frame) = h[Len(frame)]
<1>. DEFINE n == Len(frame)
            F == [p \in (1 .. n) \X StreamState |-> ReadPart(p[2], frame[p[1]])]
            c == FrameFold(stream, frame)
<1>1. n \in Nat /\ DOMAIN frame = 1 .. n /\ \A i \in 1 .. n : frame[i] \in AnswerPart
    OBVIOUS
<1>. HIDE DEF n
<1>2. ASSUME NEW i \in 1 .. n, NEW x \in StreamState
      PROVE  F[i, x] = ReadPart(x, frame[i]) /\ F[i, x] \in StreamState
  <2>1. <<i, x>> \in (1 .. n) \X StreamState
      OBVIOUS
  <2>2. F[<<i, x>>] = ReadPart(x, frame[i])
      BY <2>1
  <2>3. ReadPart(x, frame[i]) \in StreamState
      BY <1>1, PartRead
  <2>. QED  BY <2>2, <2>3
<1>3. F \in [(1 .. n) \X StreamState -> StreamState]
  <2>1. \A p \in (1 .. n) \X StreamState : ReadPart(p[2], frame[p[1]]) \in StreamState
    <3>1. SUFFICES ASSUME NEW p \in (1 .. n) \X StreamState PROVE ReadPart(p[2], frame[p[1]]) \in StreamState
        OBVIOUS
    <3>2. p[2] \in StreamState /\ frame[p[1]] \in AnswerPart
        BY <1>1
    <3>. QED  BY <3>2, PartRead
  <2>. QED  BY <2>1
<1>. HIDE DEF F
<1>4. PICK f : Folds(f, n, StreamState, stream, F)
    BY <1>1, <1>3, FoldExists
<1>5. ASSUME NEW S \in SUBSET (1 .. n), S # {}
      PROVE  Max(S) \in 1 .. n /\ S \ {Max(S)} \in SUBSET (1 .. n)
    BY <1>1, <1>5, LargestPlace
<1>6. f = [S \in SUBSET (1 .. n) |->
            IF S = {} THEN stream ELSE ReadPart(f[S \ {Max(S)}], frame[Max(S)])]
  <2>1. \A S \in SUBSET (1 .. n) :
            f[S] = IF S = {} THEN stream ELSE ReadPart(f[S \ {Max(S)}], frame[Max(S)])
    <3>1. SUFFICES ASSUME NEW S \in SUBSET (1 .. n), S # {}
                   PROVE  f[S] = ReadPart(f[S \ {Max(S)}], frame[Max(S)])
        BY <1>4 DEF Folds
    <3>2. f[S \ {Max(S)}] \in StreamState
        BY <1>4, <1>5, <3>1 DEF Folds
    <3>3. f[S] = F[Max(S), f[S \ {Max(S)}]]
        BY <1>4, <3>1 DEF Folds
    <3>. QED  BY <1>2, <1>5, <3>1, <3>2, <3>3
  <2>2. f \in [SUBSET (1 .. n) -> StreamState]
      BY <1>4 DEF Folds
  <2>. QED  BY <2>1, <2>2
<1>7. c = [S \in SUBSET (1 .. n) |->
            IF S = {} THEN stream ELSE ReadPart(c[S \ {Max(S)}], frame[Max(S)])]
    BY <1>1, <1>6, Zenon DEF FrameFold
<1>. HIDE DEF c
<1>8. c[{}] = stream /\ FoldsIn(c, n, StreamState, F)
  <2>1. \A S \in SUBSET (1 .. n) :
            c[S] = IF S = {} THEN stream ELSE ReadPart(c[S \ {Max(S)}], frame[Max(S)])
      BY <1>7, Zenon
  <2>2. {} \in SUBSET (1 .. n)
      OBVIOUS
  <2>3. ASSUME NEW S \in SUBSET (1 .. n), S # {}, c[S \ {Max(S)}] \in StreamState
        PROVE  c[S] = F[Max(S), c[S \ {Max(S)}]]
      BY <1>2, <1>5, <2>1, <2>3
  <2>. QED  BY <2>1, <2>2, <2>3 DEF FoldsIn
<1>. DEFINE h == [i \in 0 .. n |-> c[1 .. i]]
<1>9. Goes(h, 0, n, StreamState, stream, F)
    BY <1>1, <1>3, <1>8, FoldPrefixes
<1>10. h[n] = c[1 .. n]
    BY <1>1
<1>. HIDE DEF h
<1>11. h \in [0 .. n -> StreamState] /\ h[0] = stream
    BY <1>9 DEF Goes
<1>12. ASSUME NEW i \in 1 .. n PROVE h[i] = ReadPart(h[i - 1], frame[i])
  <2>1. i \in 0 + 1 .. n /\ i - 1 \in 0 .. n
      BY <1>1
  <2>2. h[i] = F[i, h[i - 1]] /\ h[i - 1] \in StreamState
      BY <1>9, <2>1 DEF Goes
  <2>. QED  BY <1>2, <2>2
<1>13. FoldLeft(ReadPart, stream, frame) = h[n]
    BY <1>1, <1>10, FrameIsFold DEF c
<1>. QED  BY <1>11, <1>12, <1>13 DEF n

LEMMA FrameRead ==
    ASSUME NEW stream \in StreamState, NEW frame \in Frame
    PROVE  ReadFrame(stream, frame) \in StreamState
<1>1. CASE frame \in {Malformed, NoCandidates}
    BY <1>1 DEF ReadFrame
<1>2. CASE frame \notin {Malformed, NoCandidates}
  <2>1. frame \in Seq(AnswerPart)
      BY <1>2 DEF Frame
  <2>2. PICK h \in [0 .. Len(frame) -> StreamState] :
            FoldLeft(ReadPart, stream, frame) = h[Len(frame)]
      BY <2>1, PartsRead
  <2>3. Len(frame) \in 0 .. Len(frame)
      BY <2>1
  <2>4. FoldLeft(ReadPart, stream, frame) \in StreamState
      BY <2>2, <2>3
  <2>5. ReadFrame(stream, frame) = FoldLeft(ReadPart, stream, frame)
      BY <1>2, Zenon DEF ReadFrame
  <2>. QED  BY <2>4, <2>5
<1>. QED  BY <1>1, <1>2

LEMMA UnreadTyped == Unread \in StreamState
<1>1. << >> \in Seq(Chunk)
    OBVIOUS
<1>. QED  BY <1>1, NoReplyTyped DEF Unread, StreamState

\* The same for all frames.
StreamFold(frames) ==
    CHOOSE f : f = [S \in SUBSET (DOMAIN frames) |->
        IF S = {} THEN Unread ELSE ReadFrame(f[S \ {Max(S)}], frames[Max(S)])]

LEMMA StreamIsFold ==
    ASSUME NEW frames
    PROVE  FoldLeft(ReadFrame, Unread, frames) = StreamFold(frames)[DOMAIN frames]
BY Zenon DEF StreamFold, FoldLeft, MapThenFoldSet

LEMMA FramesRead ==
    ASSUME NEW frames \in Seq(Frame)
    PROVE  \E h \in [0 .. Len(frames) -> StreamState] :
              /\ h[0] = Unread
              /\ \A i \in 1 .. Len(frames) : h[i] = ReadFrame(h[i - 1], frames[i])
              /\ FoldLeft(ReadFrame, Unread, frames) = h[Len(frames)]
<1>. DEFINE n == Len(frames)
            F == [p \in (1 .. n) \X StreamState |-> ReadFrame(p[2], frames[p[1]])]
            c == StreamFold(frames)
<1>1. n \in Nat /\ DOMAIN frames = 1 .. n /\ \A i \in 1 .. n : frames[i] \in Frame
    OBVIOUS
<1>. HIDE DEF n
<1>2. ASSUME NEW i \in 1 .. n, NEW x \in StreamState
      PROVE  F[i, x] = ReadFrame(x, frames[i]) /\ F[i, x] \in StreamState
  <2>1. <<i, x>> \in (1 .. n) \X StreamState
      OBVIOUS
  <2>2. F[<<i, x>>] = ReadFrame(x, frames[i])
      BY <2>1
  <2>3. ReadFrame(x, frames[i]) \in StreamState
      BY <1>1, FrameRead
  <2>. QED  BY <2>2, <2>3
<1>3. F \in [(1 .. n) \X StreamState -> StreamState]
  <2>1. \A p \in (1 .. n) \X StreamState : ReadFrame(p[2], frames[p[1]]) \in StreamState
    <3>1. SUFFICES ASSUME NEW p \in (1 .. n) \X StreamState PROVE ReadFrame(p[2], frames[p[1]]) \in StreamState
        OBVIOUS
    <3>2. p[2] \in StreamState /\ frames[p[1]] \in Frame
        BY <1>1
    <3>. QED  BY <3>2, FrameRead
  <2>. QED  BY <2>1
<1>. HIDE DEF F
<1>4. PICK f : Folds(f, n, StreamState, Unread, F)
    BY <1>1, <1>3, FoldExists, UnreadTyped
<1>5. ASSUME NEW S \in SUBSET (1 .. n), S # {}
      PROVE  Max(S) \in 1 .. n /\ S \ {Max(S)} \in SUBSET (1 .. n)
    BY <1>1, <1>5, LargestPlace
<1>6. f = [S \in SUBSET (1 .. n) |->
            IF S = {} THEN Unread ELSE ReadFrame(f[S \ {Max(S)}], frames[Max(S)])]
  <2>1. \A S \in SUBSET (1 .. n) :
            f[S] = IF S = {} THEN Unread ELSE ReadFrame(f[S \ {Max(S)}], frames[Max(S)])
    <3>1. SUFFICES ASSUME NEW S \in SUBSET (1 .. n), S # {}
                   PROVE  f[S] = ReadFrame(f[S \ {Max(S)}], frames[Max(S)])
        BY <1>4 DEF Folds
    <3>2. f[S \ {Max(S)}] \in StreamState
        BY <1>4, <1>5, <3>1 DEF Folds
    <3>3. f[S] = F[Max(S), f[S \ {Max(S)}]]
        BY <1>4, <3>1 DEF Folds
    <3>. QED  BY <1>2, <1>5, <3>1, <3>2, <3>3
  <2>2. f \in [SUBSET (1 .. n) -> StreamState]
      BY <1>4 DEF Folds
  <2>. QED  BY <2>1, <2>2
<1>7. c = [S \in SUBSET (1 .. n) |->
            IF S = {} THEN Unread ELSE ReadFrame(c[S \ {Max(S)}], frames[Max(S)])]
    BY <1>1, <1>6, Zenon DEF StreamFold
<1>. HIDE DEF c
<1>8. c[{}] = Unread /\ FoldsIn(c, n, StreamState, F)
  <2>1. \A S \in SUBSET (1 .. n) :
            c[S] = IF S = {} THEN Unread ELSE ReadFrame(c[S \ {Max(S)}], frames[Max(S)])
      BY <1>7, Zenon
  <2>2. {} \in SUBSET (1 .. n)
      OBVIOUS
  <2>3. ASSUME NEW S \in SUBSET (1 .. n), S # {}, c[S \ {Max(S)}] \in StreamState
        PROVE  c[S] = F[Max(S), c[S \ {Max(S)}]]
      BY <1>2, <1>5, <2>1, <2>3
  <2>. QED  BY <2>1, <2>2, <2>3 DEF FoldsIn
<1>. DEFINE h == [i \in 0 .. n |-> c[1 .. i]]
<1>9. Goes(h, 0, n, StreamState, Unread, F)
    BY <1>1, <1>3, <1>8, FoldPrefixes, UnreadTyped
<1>10. h[n] = c[1 .. n]
    BY <1>1
<1>. HIDE DEF h
<1>11. h \in [0 .. n -> StreamState] /\ h[0] = Unread
    BY <1>9 DEF Goes
<1>12. ASSUME NEW i \in 1 .. n PROVE h[i] = ReadFrame(h[i - 1], frames[i])
  <2>1. i \in 0 + 1 .. n /\ i - 1 \in 0 .. n
      BY <1>1
  <2>2. h[i] = F[i, h[i - 1]] /\ h[i - 1] \in StreamState
      BY <1>9, <2>1 DEF Goes
  <2>. QED  BY <1>2, <2>2
<1>13. FoldLeft(ReadFrame, Unread, frames) = h[n]
    BY <1>1, <1>10, StreamIsFold DEF c
<1>. QED  BY <1>11, <1>12, <1>13 DEF n

-----------------------------------------------------------------------------
(* Answers: a stream of frames.                                             *)

LEMMA FlattenAppend ==
    ASSUME NEW X, NEW seqs \in Seq(Seq(X)), NEW s \in Seq(X)
    PROVE  FlattenSeq(Append(seqs, s)) = FlattenSeq(seqs) \o s
<1>. DEFINE n == Len(seqs)
            more == Append(seqs, s)
            f == Flat(seqs)
            g == Flat(more)
<1>1. /\ n \in Nat /\ more \in Seq(Seq(X)) /\ Len(more) = n + 1
      /\ more[n + 1] = s /\ \A i \in 1 .. n : more[i] = seqs[i]
    OBVIOUS
<1>2. /\ g[1] = more[1]
      /\ \A i \in 2 .. n + 1 : g[i] = g[i - 1] \o more[i]
  <2>. HIDE DEF more, g, n
  <2>1. Len(more) >= 1
      BY <1>1
  <2>2. Flat(more)[1] = more[1] /\ \A i \in 2 .. Len(more) : Flat(more)[i] = Flat(more)[i - 1] \o more[i]
      BY <1>1, <2>1, FlatExists
  <2>. QED  BY <1>1, <2>2 DEF g
<1>3. FlattenSeq(more) = g[n + 1]
  <2>. HIDE DEF more, n
  <2>1. Len(more) # 0
      BY <1>1
  <2>. QED  BY <1>1, <2>1, FlattenIsLast
<1>4. CASE n = 0
  <2>1. seqs = << >>
      BY <1>4
  <2>2. FlattenSeq(seqs) = << >>
      BY <1>4, <2>1, FlattenIsLast
  <2>3. FlattenSeq(more) = s
      BY <1>1, <1>2, <1>3, <1>4
  <2>4. << >> \o s = s
      OBVIOUS
  <2>. HIDE DEF more
  <2>. QED  BY <2>2, <2>3, <2>4 DEF more
<1>5. CASE n # 0
  <2>1. n >= 1
      BY <1>1, <1>5
  <2>2. f[1] = seqs[1] /\ \A i \in 2 .. n : f[i] = f[i - 1] \o seqs[i]
      BY <2>1, FlatExists
  <2>3. FlattenSeq(seqs) = f[n]
      BY <1>5, FlattenIsLast
  <2>. DEFINE S == {i \in 1 .. n : g[i] = f[i]}
  <2>. HIDE DEF more, n, f, g
  <2>4. 1 \in S
      BY <1>1, <1>2, <2>1, <2>2
  <2>5. ASSUME NEW i \in 2 .. n, i - 1 \in S PROVE i \in S
    <3>1. i \in 1 .. n /\ i \in 2 .. n + 1 /\ i \in 2 .. n /\ g[i - 1] = f[i - 1]
        BY <1>1, <2>5
    <3>2. g[i] = f[i]
        BY <1>1, <1>2, <2>2, <3>1
    <3>. QED  BY <3>1, <3>2
  <2>. HIDE DEF S
  <2>6. 1 .. n \subseteq S
      BY <1>1, <2>1, <2>4, <2>5, FromOne
  <2>7. g[n] = f[n]
    <3>1. n \in 1 .. n
        BY <1>1, <2>1
    <3>. QED  BY <2>6, <3>1 DEF S
  <2>8. g[n + 1] = g[n] \o more[n + 1]
    <3>1. n + 1 \in 2 .. n + 1 /\ (n + 1) - 1 = n
        BY <1>1, <2>1
    <3>. QED  BY <1>2, <3>1
  <2>. QED  BY <1>1, <1>3, <2>3, <2>7, <2>8 DEF more
<1>. QED  BY <1>4, <1>5

Texts(chunks) == [i \in DOMAIN chunks |-> chunks[i].text]

\* What has been read of a stream, and shown of it, is the answer of the parts `seen`.
StreamOf(stream, seen) ==
    /\ stream \in StreamState
    /\ seen \in Seq(AnswerPart)
    /\ stream.reply = Gen(seen)
    /\ FlattenSeq(Texts(stream.chunks)) = stream.reply.text

LEMMA TextsAppend ==
    ASSUME NEW chunks \in Seq(Chunk), NEW chunk \in Chunk
    PROVE  /\ Texts(chunks) \in Seq(Seq(STRING))
           /\ Texts(Append(chunks, chunk)) = Append(Texts(chunks), chunk.text)
<1>. DEFINE n == Len(chunks)
            more == Append(chunks, chunk)
            texts == Texts(chunks)
<1>1. /\ n \in Nat /\ DOMAIN chunks = 1 .. n /\ DOMAIN more = 1 .. n + 1
      /\ more[n + 1] = chunk /\ \A i \in 1 .. n : more[i] = chunks[i] /\ chunks[i] \in Chunk
    OBVIOUS
<1>2. \A c \in Chunk : c.text \in Seq(STRING)
    BY DEF Chunk
<1>. HIDE DEF n, more
<1>3. texts \in [1 .. n -> Seq(STRING)]
    BY <1>1, <1>2 DEF Texts
<1>4. texts \in Seq(Seq(STRING)) /\ Len(texts) = n
    BY <1>1, <1>3
<1>5. \A i \in 1 .. n : texts[i] = chunks[i].text
    BY <1>1 DEF Texts
<1>6. Texts(more) \in [1 .. n + 1 -> Seq(STRING)] /\ \A i \in 1 .. n + 1 : Texts(more)[i] = more[i].text
    BY <1>1, <1>2 DEF Texts
<1>. DEFINE both == Append(texts, chunk.text)
<1>7. both \in [1 .. n + 1 -> Seq(STRING)] /\ both[n + 1] = chunk.text /\ \A i \in 1 .. n : both[i] = texts[i]
  <2>. HIDE DEF texts
  <2>1. chunk.text \in Seq(STRING)
      BY <1>2
  <2>2. both \in Seq(Seq(STRING)) /\ Len(both) = n + 1
      BY <1>1, <1>4, <2>1
  <2>3. both[n + 1] = chunk.text /\ \A i \in 1 .. n : both[i] = texts[i]
      BY <1>1, <1>4, <2>1
  <2>. HIDE DEF both
  <2>. QED  BY <1>1, <2>2, <2>3
<1>. HIDE DEF both, texts
<1>8. ASSUME NEW i \in 1 .. n + 1 PROVE Texts(more)[i] = both[i]
  <2>1. i = n + 1 \/ i \in 1 .. n
      BY <1>1
  <2>. QED  BY <1>1, <1>5, <1>6, <1>7, <2>1
<1>9. Texts(more) = both
  <2>. DEFINE new == Texts(more)
  <2>1. new \in [1 .. n + 1 -> Seq(STRING)] /\ \A i \in 1 .. n + 1 : new[i] = both[i]
      BY <1>6, <1>8
  <2>. HIDE DEF new
  <2>2. both \in [1 .. n + 1 -> Seq(STRING)]
      BY <1>7
  <2>3. new = [i \in 1 .. n + 1 |-> new[i]] /\ both = [i \in 1 .. n + 1 |-> both[i]]
      BY <2>1, <2>2
  <2>4. [i \in 1 .. n + 1 |-> new[i]] = [i \in 1 .. n + 1 |-> both[i]]
      BY <2>1, Zenon
  <2>5. new = both
      BY <2>3, <2>4, Zenon
  <2>. QED  BY <2>5 DEF new
<1>. QED  BY <1>4, <1>9 DEF both, texts, more

LEMMA PartSeen ==
    ASSUME NEW stream, NEW seen, StreamOf(stream, seen), NEW part \in AnswerPart
    PROVE  StreamOf(ReadPart(stream, part), Append(seen, part))
<1>. DEFINE next == ReadPart(stream, part)
            chunk == [text |-> part.text, signature |-> part.signature]
            chunks == stream.chunks
            text == stream.reply.text
<1>1. /\ stream \in StreamState /\ seen \in Seq(AnswerPart) /\ stream.reply = Gen(seen)
      /\ FlattenSeq(Texts(chunks)) = text
    BY DEF StreamOf
<1>2. /\ chunks \in Seq(Chunk) /\ stream.reply \in GeminiReply /\ text \in Seq(STRING)
      /\ part.text \in Seq(STRING) /\ chunk \in Chunk
    BY <1>1 DEF StreamState, GeminiReply, AnswerPart, Chunk
<1>3. next \in StreamState /\ Append(seen, part) \in Seq(AnswerPart)
    BY <1>1, PartRead
<1>4. next.reply = AddPart(stream.reply, part) /\ next.reply.text = text \o part.text
    BY DEF ReadPart, AddPart
<1>5. next.reply = Gen(Append(seen, part))
    BY <1>1, <1>4, GenNext
<1>6. next.chunks = IF part.text = << >> THEN chunks ELSE Append(chunks, chunk)
    BY DEF ReadPart
<1>. HIDE DEF next, chunk, chunks, text
<1>7. FlattenSeq(Texts(next.chunks)) = text \o part.text
  <2>1. CASE part.text = << >>
    <3>1. text \o << >> = text
        BY <1>2
    <3>. QED  BY <1>1, <1>6, <2>1, <3>1
  <2>2. CASE part.text # << >>
    <3>1. Texts(chunks) \in Seq(Seq(STRING)) /\ Texts(Append(chunks, chunk)) = Append(Texts(chunks), chunk.text)
        BY <1>2, TextsAppend
    <3>2. chunk.text = part.text
        BY DEF chunk
    <3>3. FlattenSeq(Append(Texts(chunks), part.text)) = FlattenSeq(Texts(chunks)) \o part.text
        BY <1>2, <3>1, FlattenAppend
    <3>. QED  BY <1>1, <1>6, <2>2, <3>1, <3>2, <3>3
  <2>. QED  BY <2>1, <2>2
<1>8. StreamOf(next, Append(seen, part))
    BY <1>3, <1>4, <1>5, <1>7 DEF StreamOf
<1>. QED  BY <1>8 DEF next

LEMMA FrameSeen ==
    ASSUME NEW stream, NEW seen, StreamOf(stream, seen), NEW frame \in Seq(AnswerPart)
    PROVE  StreamOf(FoldLeft(ReadPart, stream, frame), seen \o frame)
<1>. DEFINE n == Len(frame)
<1>1. stream \in StreamState /\ seen \in Seq(AnswerPart) /\ n \in Nat
    BY DEF StreamOf
<1>2. PICK h \in [0 .. n -> StreamState] :
        /\ h[0] = stream
        /\ \A i \in 1 .. n : h[i] = ReadPart(h[i - 1], frame[i])
        /\ FoldLeft(ReadPart, stream, frame) = h[n]
    BY <1>1, PartsRead
<1>. DEFINE So(i) == seen \o SubSeq(frame, 1, i)
            T == {i \in 0 .. n : StreamOf(h[i], So(i))}
<1>3. So(0) = seen
    BY <1>1
<1>4. So(n) = seen \o frame
  <2>1. SubSeq(frame, 1, n) = frame
      OBVIOUS
  <2>. QED  BY <2>1
<1>5. ASSUME NEW i \in 1 .. n PROVE So(i) = Append(So(i - 1), frame[i])
  <2>. DEFINE before == SubSeq(frame, 1, i - 1)
  <2>1. i - 1 \in 0 .. n /\ i \in 0 .. n /\ frame[i] \in AnswerPart /\ before \in Seq(AnswerPart)
      BY <1>1
  <2>2. SubSeq(frame, 1, i) = Append(before, frame[i])
      BY <1>1, <2>1
  <2>. HIDE DEF before
  <2>3. seen \o Append(before, frame[i]) = Append(seen \o before, frame[i])
      BY <1>1, <2>1
  <2>. QED  BY <2>2, <2>3 DEF before
<1>. HIDE DEF So, n
<1>6. 0 \in T
    BY <1>1, <1>2, <1>3
<1>7. ASSUME NEW i \in 1 .. n, i - 1 \in T PROVE i \in T
  <2>1. i \in 0 .. n /\ frame[i] \in AnswerPart
      BY <1>1 DEF n
  <2>2. StreamOf(h[i - 1], So(i - 1))
      BY <1>7
  <2>3. StreamOf(ReadPart(h[i - 1], frame[i]), Append(So(i - 1), frame[i]))
      BY <2>1, <2>2, PartSeen
  <2>. QED  BY <1>2, <1>5, <2>1, <2>3
<1>. HIDE DEF T
<1>8. 0 .. n \subseteq T
    BY <1>1, <1>6, <1>7, UpTo
<1>9. StreamOf(h[n], So(n))
  <2>1. n \in 0 .. n
      BY <1>1
  <2>. QED  BY <1>8, <2>1 DEF T
<1>. QED  BY <1>2, <1>4, <1>9

Readable(frames) == {i \in DOMAIN frames : frames[i] \notin {Malformed, NoCandidates}}

LEMMA StreamSeen ==
    ASSUME NEW frames \in Seq(Frame)
    PROVE  StreamOf(FoldLeft(ReadFrame, Unread, frames), FlattenSeq(Kept(frames, Readable(frames))))
<1>. DEFINE n == Len(frames)
            P == Readable(frames)
            R == Rounds(frames, P)
<1>1. n \in Nat /\ DOMAIN frames = 1 .. n /\ \A i \in 1 .. n : frames[i] \in Frame
    OBVIOUS
<1>2. PICK h \in [0 .. n -> StreamState] :
        /\ h[0] = Unread
        /\ \A i \in 1 .. n : h[i] = ReadFrame(h[i - 1], frames[i])
        /\ FoldLeft(ReadFrame, Unread, frames) = h[n]
    BY FramesRead
<1>3. \A i \in 0 .. n : R[i] = Round(frames, P, R, i)
    BY RoundsExist
<1>. DEFINE T == {i \in 0 .. n : R[i] \in Seq(Seq(AnswerPart)) /\ StreamOf(h[i], FlattenSeq(R[i]))}
<1>4. Kept(frames, P) = R[n]
    BY KeptIsLastRound
<1>. HIDE DEF n, R
<1>5. 0 \in T
  <2>1. R[0] = << >> /\ 0 \in 0 .. n
      BY <1>1, <1>3 DEF Round
  <2>2. FlattenSeq(<< >>) = << >>
    <3>1. Len(<< >>) = 0
        OBVIOUS
    <3>. QED  BY <3>1, FlattenIsLast
  <2>3. << >> \in Seq(Seq(AnswerPart)) /\ << >> \in Seq(AnswerPart)
      OBVIOUS
  <2>4. Texts(<< >>) = << >>
      BY DEF Texts
  <2>5. StreamOf(Unread, << >>)
      BY <2>2, <2>3, <2>4, UnreadTyped, GenNext DEF StreamOf, Unread, NoReply
  <2>. QED  BY <1>2, <2>1, <2>2, <2>3, <2>5
<1>6. ASSUME NEW i \in 1 .. n, i - 1 \in T PROVE i \in T
  <2>1. i \in 0 .. n /\ i # 0 /\ i \in DOMAIN frames /\ frames[i] \in Frame
      BY <1>1
  <2>2. R[i - 1] \in Seq(Seq(AnswerPart)) /\ StreamOf(h[i - 1], FlattenSeq(R[i - 1]))
      BY <1>6
  <2>3. h[i] = ReadFrame(h[i - 1], frames[i])
      BY <1>2
  <2>4. R[i] = IF i \in P THEN Append(R[i - 1], frames[i]) ELSE R[i - 1]
      BY <1>3, <2>1 DEF Round
  <2>5. CASE i \in P
    <3>1. frames[i] \notin {Malformed, NoCandidates} /\ frames[i] \in Seq(AnswerPart)
        BY <2>1, <2>5 DEF Readable, Frame
    <3>2. h[i] = FoldLeft(ReadPart, h[i - 1], frames[i])
        BY <2>3, <3>1, Zenon DEF ReadFrame
    <3>3. R[i] \in Seq(Seq(AnswerPart))
        BY <2>2, <2>4, <2>5, <3>1
    <3>4. FlattenSeq(R[i]) = FlattenSeq(R[i - 1]) \o frames[i]
        BY <2>2, <2>4, <2>5, <3>1, FlattenAppend
    <3>5. StreamOf(h[i], FlattenSeq(R[i - 1]) \o frames[i])
        BY <2>2, <3>1, <3>2, FrameSeen
    <3>. QED  BY <2>1, <3>3, <3>4, <3>5
  <2>6. CASE i \notin P
    <3>1. frames[i] \in {Malformed, NoCandidates}
        BY <2>1, <2>6 DEF Readable
    <3>2. h[i] = h[i - 1]
        BY <2>3, <3>1 DEF ReadFrame
    <3>. QED  BY <2>1, <2>2, <2>4, <2>6, <3>2
  <2>. QED  BY <2>5, <2>6
<1>. HIDE DEF T
<1>7. 0 .. n \subseteq T
    BY <1>1, <1>5, <1>6, UpTo
<1>8. StreamOf(h[n], FlattenSeq(R[n]))
  <2>1. n \in 0 .. n
      BY <1>1
  <2>. QED  BY <1>7, <2>1 DEF T
<1>. QED  BY <1>2, <1>4, <1>8

\* The calls of an answer are numbered as they came.
Numbered(calls) == \A k \in 1 .. Len(calls) : calls[k].id = <<calls[k].name, k - 1>>

LEMMA CallsNumbered ==
    ASSUME NEW parts \in Seq(AnswerPart)
    PROVE  Gen(parts) \in GeminiReply /\ Numbered(Gen(parts).calls)
<1>. DEFINE n == Len(parts)
<1>1. n \in Nat /\ \A i \in 1 .. n : parts[i] \in AnswerPart
    OBVIOUS
<1>2. PICK h \in [0 .. n -> GeminiReply] :
        /\ h[0] = NoReply
        /\ \A i \in 1 .. n : h[i] = AddPart(h[i - 1], parts[i])
        /\ Gen(parts) = h[n]
    BY Generated
<1>. DEFINE T == {i \in 0 .. n : Numbered(h[i].calls)}
<1>. HIDE DEF n
<1>3. 0 \in T
  <2>1. NoReply.calls = << >> /\ Len(<< >>) = 0 /\ 0 \in 0 .. n
      BY <1>1 DEF NoReply
  <2>. QED  BY <1>2, <2>1 DEF Numbered
<1>4. ASSUME NEW i \in 1 .. n, i - 1 \in T PROVE i \in T
  <2>. DEFINE calls == h[i - 1].calls
              name == parts[i].call
              call == [id |-> <<name, Len(calls)>>, name |-> name]
  <2>1. i \in 0 .. n /\ i - 1 \in 0 .. n
      BY <1>1
  <2>2. calls \in Seq(Call) /\ Len(calls) \in Nat /\ name \in STRING \cup {None} /\ Numbered(calls)
    <3>1. h[i - 1] \in GeminiReply
        BY <1>2, <2>1
    <3>2. parts[i] \in AnswerPart
        BY <1>1
    <3>3. name \in STRING \cup {None}
        BY <3>2 DEF AnswerPart
    <3>4. calls \in Seq(Call)
        BY <3>1 DEF GeminiReply
    <3>5. Numbered(calls)
        BY <1>4
    <3>. QED  BY <3>3, <3>4, <3>5
  <2>3. h[i].calls = IF name = None THEN calls ELSE Append(calls, call)
    <3>1. h[i] = AddPart(h[i - 1], parts[i])
        BY <1>2
    <3>2. h[i].calls = AddCall(calls, name)
        BY <3>1 DEF AddPart
    <3>. QED  BY <3>2, Zenon DEF AddCall
  <2>4. name # None => Numbered(Append(calls, call))
    <3>. SUFFICES ASSUME name # None, NEW k \in 1 .. Len(Append(calls, call))
                  PROVE  Append(calls, call)[k].id = <<Append(calls, call)[k].name, k - 1>>
        BY DEF Numbered
    <3>1. call \in Call
        BY <2>2 DEF Call
    <3>2. call.id = <<call.name, Len(calls)>>
        OBVIOUS
    <3>. HIDE DEF call, calls, name
    <3>3. CASE k = Len(calls) + 1
      <4>1. Append(calls, call)[k] = call /\ k - 1 = Len(calls)
          BY <2>2, <3>1, <3>3
      <4>. QED  BY <3>2, <4>1
    <3>4. CASE k \in 1 .. Len(calls)
      <4>1. Append(calls, call)[k] = calls[k]
          BY <2>2, <3>1, <3>4
      <4>. QED  BY <2>2, <3>4, <4>1 DEF Numbered
    <3>5. Len(Append(calls, call)) = Len(calls) + 1
        BY <2>2, <3>1
    <3>. QED  BY <2>2, <3>3, <3>4, <3>5
  <2>. HIDE DEF call, calls, name
  <2>5. Numbered(h[i].calls)
      BY <2>2, <2>3, <2>4
  <2>. QED  BY <2>1, <2>5
<1>. HIDE DEF T
<1>5. 0 .. n \subseteq T
    BY <1>1, <1>3, <1>4, UpTo
<1>6. n \in 0 .. n
    BY <1>1
<1>. QED  BY <1>2, <1>5, <1>6 DEF T

LEMMA StreamWhole ==
    ASSUME NEW frames \in Seq(Frame), NEW broken \in BOOLEAN, None \notin Seq(AnswerPart)
    PROVE  StreamedAsWhole(GenerateStream(frames, broken), frames, broken)
<1>. DEFINE readable == Kept(frames, Readable(frames))
            read == FoldLeft(ReadFrame, Unread, frames)
            stream == GenerateStream(frames, broken)
            whole == Generate(FlattenSeq(readable))
            ids == [i \in DOMAIN whole.calls |-> whole.calls[i].id]
<1>1. StreamOf(read, FlattenSeq(readable))
    BY StreamSeen
<1>. HIDE DEF readable
<1>2. FlattenSeq(readable) \in Seq(AnswerPart) /\ read.reply = Gen(FlattenSeq(readable))
    BY <1>1 DEF StreamOf
<1>3. whole = Gen(FlattenSeq(readable))
  <2>1. FlattenSeq(readable) # None
      BY <1>2
  <2>. QED  BY <2>1, Zenon DEF Generate, Gen
<1>4. stream.chunks = read.chunks /\ stream.done = IF broken THEN None ELSE read.reply
    BY DEF GenerateStream
<1>5. FlattenSeq(Texts(stream.chunks)) = whole.text
  <2>. HIDE DEF read, stream, whole
  <2>. QED  BY <1>1, <1>2, <1>3, <1>4 DEF StreamOf
<1>6. broken \/ stream.done = whole
  <2>. HIDE DEF read, stream, whole
  <2>. QED  BY <1>2, <1>3, <1>4
<1>7. IsInjective(ids)
  <2>1. whole.calls \in Seq(Call) /\ Numbered(whole.calls)
    <3>. HIDE DEF whole
    <3>. QED  BY <1>2, <1>3, CallsNumbered DEF GeminiReply
  <2>. HIDE DEF whole
  <2>2. DOMAIN ids = 1 .. Len(whole.calls) /\ \A k \in 1 .. Len(whole.calls) : ids[k] = <<whole.calls[k].name, k - 1>>
      BY <2>1 DEF Numbered
  <2>. HIDE DEF ids
  <2>3. ASSUME NEW k \in DOMAIN ids, NEW l \in DOMAIN ids, ids[k] = ids[l] PROVE k = l
    <3>1. k \in Int /\ l \in Int /\ k - 1 = l - 1
        BY <2>1, <2>2, <2>3
    <3>. QED  BY <3>1
  <2>. QED  BY <2>3 DEF IsInjective
<1>. QED  BY <1>5, <1>6, <1>7, Zenon DEF StreamedAsWhole, Where, Readable, MapSeq, Texts, readable

-----------------------------------------------------------------------------
(* What is kept of a list.                                                  *)

\* What is kept at the first places of a list is what is kept of the list that ends there.
LEMMA KeptBefore ==
    ASSUME NEW X, NEW s \in Seq(X), NEW t \in Seq(X), NEW P
    PROVE  Rounds(s \o t, P)[Len(s)] = Kept(s, {i \in 1 .. Len(s) : i \in P})
<1>. DEFINE n == Len(s)
            u == s \o t
            Q == {i \in 1 .. n : i \in P}
            f == Rounds(u, P)
            g == Rounds(s, Q)
            T == {i \in 0 .. n : f[i] = g[i]}
<1>1. /\ n \in Nat /\ u \in Seq(X) /\ Len(u) >= n
      /\ \A i \in 1 .. n : u[i] = s[i] /\ (i \in P <=> i \in Q)
    OBVIOUS
<1>. HIDE DEF u, Q
<1>2. \A i \in 0 .. Len(u) : f[i] = Round(u, P, f, i)
    BY <1>1, RoundsExist
<1>3. \A i \in 0 .. n : g[i] = Round(s, Q, g, i)
    BY RoundsExist
<1>. HIDE DEF f, g
<1>4. 0 \in T
    BY <1>1, <1>2, <1>3 DEF Round
<1>5. ASSUME NEW i \in 1 .. n, i - 1 \in T PROVE i \in T
  <2>1. i \in 0 .. n /\ i # 0 /\ u[i] = s[i] /\ (i \in P <=> i \in Q)
      BY <1>1
  <2>2. f[i] = Round(u, P, f, i) /\ g[i] = Round(s, Q, g, i)
      BY <1>1, <1>2, <1>3, <2>1
  <2>3. f[i - 1] = g[i - 1]
      BY <1>5
  <2>. QED  BY <2>1, <2>2, <2>3 DEF Round
<1>. HIDE DEF T, n
<1>6. 0 .. n \subseteq T
    BY <1>1, <1>4, <1>5, UpTo
<1>7. f[n] = g[n]
  <2>1. n \in T
      BY <1>1, <1>6
  <2>. QED  BY <2>1 DEF T
<1>. QED  BY <1>7, KeptIsLastRound DEF f, g, n, u, Q

\* (A name for the provers: they do not match equations with \o.)
Joined(s, t) == s \o t

\* What is kept of two lists put together is what is kept of each.
LEMMA KeptJoin ==
    ASSUME NEW X, NEW s \in Seq(X), NEW t \in Seq(X), NEW P
    PROVE  Kept(Joined(s, t), P) = Joined(Kept(s, {i \in 1 .. Len(s) : i \in P}),
                                          Kept(t, {j \in 1 .. Len(t) : Len(s) + j \in P}))
<1>. DEFINE u == s \o t
            m == Len(s)
            n == Len(t)
            Q == {i \in 1 .. m : i \in P}
            R == {j \in 1 .. n : m + j \in P}
            f == Rounds(u, P)
            g == Rounds(t, R)
            first == Kept(s, Q)
            T == {j \in 0 .. n : f[m + j] = first \o g[j]}
<1>1. /\ m \in Nat /\ n \in Nat /\ u \in Seq(X) /\ Len(u) = m + n
      /\ \A j \in 1 .. n : u[m + j] = t[j] /\ t[j] \in X /\ (m + j \in P <=> j \in R)
    OBVIOUS
<1>2. \A i \in 0 .. m + n : f[i] = Round(u, P, f, i)
  <2>. HIDE DEF u
  <2>1. \A i \in 0 .. Len(u) : f[i] = Round(u, P, f, i)
      BY <1>1, RoundsExist
  <2>. QED  BY <1>1, <2>1
<1>3. g \in [0 .. n -> Seq(X)] /\ \A j \in 0 .. n : g[j] = Round(t, R, g, j)
    BY RoundsExist
<1>4. first \in Seq(X)
  <2>1. Rounds(s, Q) \in [0 .. m -> Seq(X)]
      BY RoundsExist
  <2>2. first = Rounds(s, Q)[m]
      BY KeptIsLastRound
  <2>. HIDE DEF first
  <2>. QED  BY <1>1, <2>1, <2>2
<1>5. f[m] = first
    BY KeptBefore
<1>6. Kept(u, P) = f[m + n] /\ Kept(t, R) = g[n]
  <2>1. Kept(u, P) = f[Len(u)] /\ Kept(t, R) = g[Len(t)]
      BY KeptIsLastRound
  <2>. QED  BY <1>1, <2>1
<1>. HIDE DEF u, f, g, first, Q, R, m, n
<1>7. 0 \in T
  <2>1. g[0] = << >>
      BY <1>1, <1>3 DEF Round
  <2>2. m + 0 = m /\ first \o << >> = first /\ 0 \in 0 .. n
      BY <1>1, <1>4
  <2>. QED  BY <1>5, <2>1, <2>2
<1>8. ASSUME NEW j \in 1 .. n, j - 1 \in T PROVE j \in T
  <2>1. j \in 0 .. n /\ j - 1 \in 0 .. n /\ j # 0 /\ m + j \in 0 .. m + n /\ m + j # 0 /\ (m + j) - 1 = m + (j - 1)
      BY <1>1
  <2>2. u[m + j] = t[j] /\ (m + j \in P <=> j \in R) /\ t[j] \in X
      BY <1>1
  <2>3. f[m + (j - 1)] = first \o g[j - 1] /\ g[j - 1] \in Seq(X)
      BY <1>3, <1>8, <2>1
  <2>4. f[m + j] = IF m + j \in P THEN Append(f[m + (j - 1)], u[m + j]) ELSE f[m + (j - 1)]
    <3>1. f[m + j] = Round(u, P, f, m + j)
        BY <1>2, <2>1
    <3>. QED  BY <2>1, <3>1 DEF Round
  <2>5. g[j] = IF j \in R THEN Append(g[j - 1], t[j]) ELSE g[j - 1]
      BY <1>3, <2>1 DEF Round
  <2>6. Append(first \o g[j - 1], t[j]) = first \o Append(g[j - 1], t[j])
    <3>. DEFINE a == first
                b == g[j - 1]
                x == t[j]
    <3>1. a \in Seq(X) /\ b \in Seq(X) /\ x \in X
        BY <1>4, <2>2, <2>3
    <3>. HIDE DEF a, b, x
    <3>2. a \o b \in Seq(X) /\ <<x>> \in Seq(X)
        BY <3>1
    <3>3. Append(a \o b, x) = (a \o b) \o <<x>> /\ Append(b, x) = b \o <<x>>
        BY <3>1, <3>2, AppendIsConcat
    <3>4. (a \o b) \o <<x>> = a \o (b \o <<x>>)
        BY <3>1, <3>2, ConcatAssociative
    <3>5. Append(a \o b, x) = a \o Append(b, x)
        BY <3>3, <3>4
    <3>. QED  BY <3>5 DEF a, b, x
  <2>. QED  BY <2>1, <2>2, <2>3, <2>4, <2>5, <2>6
<1>. HIDE DEF T
<1>9. 0 .. n \subseteq T
    BY <1>1, <1>7, <1>8, UpTo
<1>10. f[m + n] = first \o g[n] /\ g[n] \in Seq(X)
  <2>1. n \in 0 .. n
      BY <1>1
  <2>. QED  BY <1>3, <1>9, <2>1 DEF T
<1>. QED  BY <1>6, <1>10 DEF Joined, u, first, Q, R, m, n

LEMMA KeptAll ==
    ASSUME NEW X, NEW s \in Seq(X), NEW P, 1 .. Len(s) \subseteq P
    PROVE  Kept(s, P) = s
<1>. DEFINE n == Len(s)
            f == Rounds(s, P)
            T == {i \in 0 .. n : Len(f[i]) = i /\ \A k \in 1 .. i : f[i][k] = s[k]}
<1>1. n \in Nat /\ \A i \in 1 .. n : s[i] \in X
    OBVIOUS
<1>2. f \in [0 .. n -> Seq(X)] /\ \A i \in 0 .. n : f[i] = Round(s, P, f, i)
    BY RoundsExist
<1>. HIDE DEF f
<1>3. 0 \in T
  <2>1. f[0] = << >> /\ 0 \in 0 .. n
      BY <1>1, <1>2 DEF Round
  <2>2. Len(<< >>) = 0 /\ 1 .. 0 = {}
      OBVIOUS
  <2>. QED  BY <2>1, <2>2
<1>4. ASSUME NEW i \in 1 .. n, i - 1 \in T PROVE i \in T
  <2>1. i \in 0 .. n /\ i - 1 \in 0 .. n /\ i # 0 /\ i \in P /\ s[i] \in X
      BY <1>1
  <2>2. f[i - 1] \in Seq(X) /\ Len(f[i - 1]) = i - 1 /\ \A k \in 1 .. i - 1 : f[i - 1][k] = s[k]
      BY <1>2, <1>4, <2>1
  <2>3. f[i] = Append(f[i - 1], s[i])
      BY <1>2, <2>1 DEF Round
  <2>4. Len(f[i]) = i
      BY <2>1, <2>2, <2>3
  <2>5. ASSUME NEW k \in 1 .. i PROVE f[i][k] = s[k]
    <3>1. k = i \/ k \in 1 .. i - 1
        BY <2>1
    <3>. QED  BY <2>1, <2>2, <2>3, <3>1
  <2>. QED  BY <2>1, <2>4, <2>5
<1>. HIDE DEF T
<1>5. 0 .. n \subseteq T
    BY <1>1, <1>3, <1>4, UpTo
<1>6. f[n] \in Seq(X) /\ Len(f[n]) = n /\ \A k \in 1 .. n : f[n][k] = s[k]
  <2>1. n \in 0 .. n
      BY <1>1
  <2>. QED  BY <1>2, <1>5, <2>1 DEF T
<1>7. f[n] = s
  <2>1. f[n] \in Seq(X) /\ Len(f[n]) = Len(s) /\ \A k \in 1 .. Len(s) : f[n][k] = s[k]
      BY <1>6
  <2>. HIDE DEF n
  <2>. QED  BY <2>1
<1>. QED  BY <1>7, KeptIsLastRound DEF f

LEMMA KeptNone ==
    ASSUME NEW X, NEW s \in Seq(X), NEW P, (1 .. Len(s)) \cap P = {}
    PROVE  Kept(s, P) = << >>
<1>. DEFINE n == Len(s)
            f == Rounds(s, P)
            T == {i \in 0 .. n : f[i] = << >>}
<1>1. n \in Nat
    OBVIOUS
<1>2. \A i \in 0 .. n : f[i] = Round(s, P, f, i)
    BY RoundsExist
<1>. HIDE DEF f
<1>3. 0 \in T
    BY <1>1, <1>2 DEF Round
<1>4. ASSUME NEW i \in 1 .. n, i - 1 \in T PROVE i \in T
  <2>1. i \in 0 .. n /\ i # 0 /\ i \notin P
      BY <1>1
  <2>. QED  BY <1>2, <1>4, <2>1 DEF Round
<1>. HIDE DEF T
<1>5. 0 .. n \subseteq T
    BY <1>1, <1>3, <1>4, UpTo
<1>6. f[n] = << >>
  <2>1. n \in T
      BY <1>1, <1>5
  <2>. QED  BY <2>1 DEF T
<1>. QED  BY <1>6, KeptIsLastRound DEF f

\* What is kept and what is not are the whole list.
LEMMA KeptOrNot ==
    ASSUME NEW X, NEW s \in Seq(X), NEW P
    PROVE  /\ Kept(s, P) \in Seq(X)
           /\ Len(Kept(s, P)) + Len(Kept(s, {i \in 1 .. Len(s) : i \notin P})) = Len(s)
<1>. DEFINE n == Len(s)
            Q == {i \in 1 .. n : i \notin P}
            f == Rounds(s, P)
            g == Rounds(s, Q)
            T == {i \in 0 .. n : Len(f[i]) + Len(g[i]) = i}
<1>1. n \in Nat /\ \A i \in 1 .. n : s[i] \in X /\ (i \in P <=> i \notin Q)
    OBVIOUS
<1>2. f \in [0 .. n -> Seq(X)] /\ \A i \in 0 .. n : f[i] = Round(s, P, f, i)
    BY RoundsExist
<1>3. g \in [0 .. n -> Seq(X)] /\ \A i \in 0 .. n : g[i] = Round(s, Q, g, i)
    BY RoundsExist
<1>. HIDE DEF f, g, Q
<1>4. 0 \in T
  <2>1. f[0] = << >> /\ g[0] = << >> /\ 0 \in 0 .. n
      BY <1>1, <1>2, <1>3 DEF Round
  <2>2. Len(f[0]) = 0 /\ Len(g[0]) = 0
      BY <2>1
  <2>3. Len(f[0]) + Len(g[0]) = 0
      BY <2>2
  <2>. HIDE DEF n
  <2>. QED  BY <2>1, <2>3
<1>5. ASSUME NEW i \in 1 .. n, i - 1 \in T PROVE i \in T
  <2>1. i \in 0 .. n /\ i - 1 \in 0 .. n /\ i # 0 /\ (i \in P <=> i \notin Q) /\ s[i] \in X
      BY <1>1
  <2>2. f[i - 1] \in Seq(X) /\ g[i - 1] \in Seq(X) /\ Len(f[i - 1]) + Len(g[i - 1]) = i - 1
      BY <1>2, <1>3, <1>5, <2>1
  <2>3. f[i] = (IF i \in P THEN Append(f[i - 1], s[i]) ELSE f[i - 1])
      BY <1>2, <2>1 DEF Round
  <2>4. g[i] = (IF i \in Q THEN Append(g[i - 1], s[i]) ELSE g[i - 1])
      BY <1>3, <2>1 DEF Round
  <2>5. Len(f[i]) + Len(g[i]) = i
    <3>. DEFINE a == f[i - 1]
                b == g[i - 1]
    <3>3. a \in Seq(X) /\ b \in Seq(X) /\ Len(a) + Len(b) = i - 1
        BY <2>2
    <3>. HIDE DEF a, b
    <3>4. Len(a) \in Nat /\ Len(b) \in Nat
        BY <3>3
    <3>1. CASE i \in P
      <4>1. f[i] = Append(a, s[i]) /\ g[i] = b
          BY <2>1, <2>3, <2>4, <3>1 DEF a, b
      <4>2. Len(Append(a, s[i])) = Len(a) + 1
          BY <2>1, <3>3
      <4>. QED  BY <3>3, <3>4, <4>1, <4>2
    <3>2. CASE i \in Q
      <4>1. f[i] = a /\ g[i] = Append(b, s[i])
          BY <2>1, <2>3, <2>4, <3>2 DEF a, b
      <4>2. Len(Append(b, s[i])) = Len(b) + 1
          BY <2>1, <3>3
      <4>. QED  BY <3>3, <3>4, <4>1, <4>2
    <3>. QED  BY <2>1, <3>1, <3>2
  <2>. QED  BY <2>1, <2>5
<1>. HIDE DEF T
<1>6. 0 .. n \subseteq T
    BY <1>1, <1>4, <1>5, UpTo
<1>7. f[n] \in Seq(X) /\ g[n] \in Seq(X) /\ Len(f[n]) + Len(g[n]) = n
  <2>1. n \in 0 .. n
      BY <1>1
  <2>. QED  BY <1>2, <1>3, <1>6, <2>1 DEF T
<1>. QED  BY <1>7, KeptIsLastRound DEF f, g, Q

-----------------------------------------------------------------------------
(* An answer goes back.                                                     *)

\* The parts of a kind.
OfKind(s, kind) == Kept(s, {i \in DOMAIN s : s[i].kind = kind})

LEMMA OfKindJoin ==
    ASSUME NEW X, NEW s \in Seq(X), NEW t \in Seq(X), NEW kind
    PROVE  OfKind(Joined(s, t), kind) = Joined(OfKind(s, kind), OfKind(t, kind))
<1>. DEFINE u == Joined(s, t)
            P == {i \in DOMAIN u : u[i].kind = kind}
            Q == {i \in 1 .. Len(s) : i \in P}
            R == {j \in 1 .. Len(t) : Len(s) + j \in P}
<1>1. Kept(u, P) = Joined(Kept(s, Q), Kept(t, R))
  <2>. HIDE DEF P, u
  <2>. QED  BY KeptJoin DEF u
<1>2. Q = {i \in DOMAIN s : s[i].kind = kind}
    BY DEF Joined
<1>3. R = {j \in DOMAIN t : t[j].kind = kind}
    BY DEF Joined
<1>. HIDE DEF Q, R
<1>. QED  BY <1>1, <1>2, <1>3, Zenon DEF OfKind

LEMMA OfKindAll ==
    ASSUME NEW X, NEW s \in Seq(X), NEW kind, \A i \in 1 .. Len(s) : s[i].kind = kind
    PROVE  OfKind(s, kind) = s
<1>. DEFINE P == {i \in DOMAIN s : s[i].kind = kind}
<1>1. 1 .. Len(s) \subseteq P
    OBVIOUS
<1>. HIDE DEF P
<1>2. Kept(s, P) = s
    BY <1>1, KeptAll
<1>. QED  BY <1>2 DEF OfKind, P

LEMMA OfKindNone ==
    ASSUME NEW X, NEW s \in Seq(X), NEW kind, \A i \in 1 .. Len(s) : s[i].kind # kind
    PROVE  OfKind(s, kind) = << >>
<1>. DEFINE P == {i \in DOMAIN s : s[i].kind = kind}
<1>1. (1 .. Len(s)) \cap P = {}
    OBVIOUS
<1>. HIDE DEF P
<1>2. Kept(s, P) = << >>
    BY <1>1, KeptNone
<1>. QED  BY <1>2 DEF OfKind, P

\* The parts that an answer is sent back as.
MessagePart ==
    [kind : {"text", "call", "signature", "response"}, what : Seq(STRING) \cup STRING \cup {None},
     signature : STRING \cup {None}]

SentText(reply) ==
    IF reply.text = << >> THEN << >> ELSE <<Part("text", reply.text, reply.signature)>>
SentCalls(reply) ==
    [i \in DOMAIN reply.calls |-> Part("call", reply.calls[i].name, reply.signature)]
SentAlone(reply) ==
    IF reply.text = << >> /\ reply.calls = << >> /\ reply.signature # None
    THEN <<Part("signature", None, reply.signature)>> ELSE << >>

LEMMA SentTyped ==
    ASSUME NEW reply \in GeminiReply
    PROVE  /\ SentText(reply) \in Seq(MessagePart)
           /\ SentCalls(reply) \in Seq(MessagePart)
           /\ SentAlone(reply) \in Seq(MessagePart)
<1>1. reply.text \in Seq(STRING) /\ reply.signature \in STRING \cup {None} /\ reply.calls \in Seq(Call)
    BY DEF GeminiReply
<1>2. Part("text", reply.text, reply.signature) \in MessagePart
    BY <1>1 DEF Part, MessagePart
<1>3. Part("signature", None, reply.signature) \in MessagePart
    BY <1>1 DEF Part, MessagePart
<1>4. \A i \in DOMAIN reply.calls : Part("call", reply.calls[i].name, reply.signature) \in MessagePart
  <2>. SUFFICES ASSUME NEW i \in DOMAIN reply.calls
                PROVE  Part("call", reply.calls[i].name, reply.signature) \in MessagePart
      OBVIOUS
  <2>1. reply.calls[i] \in Call
      BY <1>1
  <2>2. reply.calls[i].name \in STRING
      BY <2>1 DEF Call
  <2>. QED  BY <1>1, <2>2 DEF Part, MessagePart
<1>5. DOMAIN reply.calls = 1 .. Len(reply.calls) /\ Len(reply.calls) \in Nat
    BY <1>1
<1>6. SentCalls(reply) \in [1 .. Len(reply.calls) -> MessagePart]
    BY <1>4, <1>5 DEF SentCalls
<1>. QED  BY <1>2, <1>3, <1>5, <1>6 DEF SentText, SentAlone

LEMMA AnswerSent ==
    ASSUME NEW reply \in GeminiReply
    PROVE  PartsOf(MessageOf(reply)) = Joined(Joined(SentText(reply), SentCalls(reply)), SentAlone(reply))
<1>. DEFINE msg == MessageOf(reply)
            X == MessagePart
            T == SentText(reply)
            C == SentCalls(reply)
            L == SentAlone(reply)
<1>1. /\ msg.content = reply.text /\ msg.signature = reply.signature /\ msg.attachments = << >>
      /\ msg.calls = reply.calls /\ msg.responses = << >>
    BY DEF MessageOf
<1>2. T \in Seq(X) /\ C \in Seq(X) /\ L \in Seq(X)
    BY SentTyped
<1>. HIDE DEF msg
<1>3. TextParts(msg) = T
    BY <1>1 DEF TextParts, SentText
<1>4. AttachmentParts(msg) = << >>
  <2>1. AttachmentParts(msg) = [i \in DOMAIN msg.attachments |->
            IF isGeminiSupportedMime(msg.attachments[i]) THEN Part("data", msg.attachments[i], None)
            ELSE Part("note", msg.attachments[i], None)]
      BY Zenon DEF AttachmentParts, MapSeq
  <2>. QED  BY <1>1, <2>1
<1>5. CallParts(msg) = C
  <2>1. CallParts(msg) = [i \in DOMAIN msg.calls |-> Part("call", msg.calls[i].name, msg.signature)]
      BY Zenon DEF CallParts, MapSeq
  <2>. QED  BY <1>1, <2>1 DEF SentCalls
<1>6. LoneSignature(msg) = L
    BY <1>1 DEF LoneSignature, SentAlone
<1>7. ResponseParts(msg) = << >>
  <2>1. ResponseParts(msg) = [i \in DOMAIN msg.responses |-> Part("response", msg.responses[i], None)]
      BY Zenon DEF ResponseParts, MapSeq
  <2>. QED  BY <1>1, <2>1
<1>. HIDE DEF T, C, L, X
<1>8. T \o << >> = T
    BY <1>2, ConcatEmptySeq
<1>9. ((T \o C) \o L) \o << >> = (T \o C) \o L
  <2>1. (T \o C) \o L \in Seq(X)
      BY <1>2
  <2>. QED  BY <2>1, ConcatEmptySeq
<1>10. PartsOf(msg) = (((T \o << >>) \o C) \o L) \o << >>
    BY <1>3, <1>4, <1>5, <1>6, <1>7 DEF PartsOf
<1>. QED  BY <1>8, <1>9, <1>10 DEF Joined, msg, T, C, L

LEMMA SentKinds ==
    ASSUME NEW reply \in GeminiReply
    PROVE  LET parts == PartsOf(MessageOf(reply))
           IN  /\ OfKind(parts, "text") = SentText(reply)
               /\ OfKind(parts, "call") = SentCalls(reply)
               /\ reply.signature # None =>
                      \E i \in DOMAIN parts : parts[i].signature = reply.signature
<1>. DEFINE X == MessagePart
            T == SentText(reply)
            C == SentCalls(reply)
            L == SentAlone(reply)
            parts == PartsOf(MessageOf(reply))
<1>1. parts = Joined(Joined(T, C), L)
    BY AnswerSent
<1>2. T \in Seq(X) /\ C \in Seq(X) /\ L \in Seq(X) /\ Joined(T, C) \in Seq(X) /\ << >> \in Seq(X)
  <2>1. T \in Seq(X) /\ C \in Seq(X) /\ L \in Seq(X)
      BY SentTyped
  <2>. HIDE DEF T, C, L, X
  <2>. QED  BY <2>1 DEF Joined
<1>3. \A i \in 1 .. Len(T) : T[i].kind = "text" /\ T[i].signature = reply.signature
    BY DEF SentText, Part
<1>4. \A i \in 1 .. Len(C) : C[i].kind = "call" /\ C[i].signature = reply.signature
  <2>1. reply.calls \in Seq(Call)
      BY DEF GeminiReply
  <2>. QED  BY <2>1 DEF SentCalls, Part
<1>5. \A i \in 1 .. Len(L) : L[i].kind = "signature" /\ L[i].signature = reply.signature
    BY DEF SentAlone, Part
<1>6. reply.signature # None => Len(T) # 0 \/ Len(C) # 0 \/ Len(L) # 0
  <2>1. reply.calls \in Seq(Call)
      BY DEF GeminiReply
  <2>2. Len(C) = 0 => reply.calls = << >>
    <3>1. DOMAIN C = DOMAIN reply.calls
        BY DEF SentCalls
    <3>2. DOMAIN C = 1 .. Len(C)
        BY <1>2
    <3>3. DOMAIN reply.calls = 1 .. Len(reply.calls) /\ Len(reply.calls) \in Nat
        BY <2>1
    <3>. HIDE DEF C
    <3>4. ASSUME Len(C) = 0 PROVE Len(reply.calls) = 0
      <4>. DEFINE k == Len(reply.calls)
      <4>1. 1 .. k = 1 .. 0
          BY <3>1, <3>2, <3>3, <3>4
      <4>2. k \in Nat
          BY <3>3
      <4>. HIDE DEF k
      <4>3. 1 \notin 1 .. k
          BY <4>1
      <4>. QED  BY <4>2, <4>3 DEF k
    <3>5. Len(reply.calls) = 0 => reply.calls = << >>
        BY <2>1
    <3>. QED  BY <3>4, <3>5
  <2>. HIDE DEF C
  <2>. QED  BY <2>2 DEF SentText, SentAlone
<1>. HIDE DEF T, C, L, X, parts
<1>7. OfKind(T, "text") = T /\ OfKind(C, "text") = << >> /\ OfKind(L, "text") = << >>
  <2>1. OfKind(T, "text") = T
      BY <1>2, <1>3, OfKindAll
  <2>2. \A i \in 1 .. Len(C) : C[i].kind # "text"
      BY <1>4
  <2>3. \A i \in 1 .. Len(L) : L[i].kind # "text"
      BY <1>5
  <2>. QED  BY <1>2, <2>1, <2>2, <2>3, OfKindNone
<1>8. OfKind(T, "call") = << >> /\ OfKind(C, "call") = C /\ OfKind(L, "call") = << >>
  <2>1. OfKind(C, "call") = C
      BY <1>2, <1>4, OfKindAll
  <2>2. \A i \in 1 .. Len(T) : T[i].kind # "call"
      BY <1>3
  <2>3. \A i \in 1 .. Len(L) : L[i].kind # "call"
      BY <1>5
  <2>. QED  BY <1>2, <2>1, <2>2, <2>3, OfKindNone
<1>9. OfKind(parts, "text") = Joined(Joined(OfKind(T, "text"), OfKind(C, "text")), OfKind(L, "text"))
    BY <1>1, <1>2, OfKindJoin
<1>10. OfKind(parts, "call") = Joined(Joined(OfKind(T, "call"), OfKind(C, "call")), OfKind(L, "call"))
    BY <1>1, <1>2, OfKindJoin
<1>11. OfKind(parts, "text") = T
  <2>1. Joined(T, << >>) = T
      BY <1>2, ConcatEmptySeq DEF Joined
  <2>. QED  BY <1>7, <1>9, <2>1
<1>12. OfKind(parts, "call") = C
  <2>1. Joined(<< >>, C) = C
      BY <1>2, ConcatEmptySeq DEF Joined
  <2>2. Joined(C, << >>) = C
      BY <1>2, ConcatEmptySeq DEF Joined
  <2>. QED  BY <1>8, <1>10, <2>1, <2>2
<1>13. ASSUME reply.signature # None
       PROVE  \E i \in DOMAIN parts : parts[i].signature = reply.signature
  <2>1. /\ DOMAIN parts = 1 .. Len(T) + Len(C) + Len(L)
        /\ Len(T) \in Nat /\ Len(C) \in Nat /\ Len(L) \in Nat
        /\ \A i \in 1 .. Len(T) : parts[i] = T[i]
        /\ \A i \in 1 .. Len(C) : parts[Len(T) + i] = C[i]
        /\ \A i \in 1 .. Len(L) : parts[Len(T) + Len(C) + i] = L[i]
      BY <1>1, <1>2 DEF Joined
  <2>2. CASE Len(T) # 0
    <3>1. 1 \in DOMAIN parts /\ 1 \in 1 .. Len(T)
        BY <2>1, <2>2
    <3>. QED  BY <1>3, <2>1, <3>1
  <2>3. CASE Len(C) # 0
    <3>1. Len(T) + 1 \in DOMAIN parts /\ 1 \in 1 .. Len(C)
        BY <2>1, <2>3
    <3>. QED  BY <1>4, <2>1, <3>1
  <2>4. CASE Len(L) # 0
    <3>1. Len(T) + Len(C) + 1 \in DOMAIN parts /\ 1 \in 1 .. Len(L)
        BY <2>1, <2>4
    <3>. QED  BY <1>5, <2>1, <3>1
  <2>. QED  BY <1>6, <1>13, <2>2, <2>3, <2>4
<1>. QED  BY <1>11, <1>12, <1>13 DEF T, C, parts

\* The messages that are sent as the system's instruction, and those sent as turns.
Instructions(history) == Kept(history, {i \in DOMAIN history : history[i].role = "system"})
Turns(history) == Kept(history, {i \in DOMAIN history : ~(history[i].role = "system")})

LEMMA InstructionsAndTurns ==
    ASSUME NEW history \in Seq(SavedMessage)
    PROVE  /\ Instructions(history) \in Seq(SavedMessage) /\ Turns(history) \in Seq(SavedMessage)
           /\ Len(Instructions(history)) + Len(Turns(history)) = Len(history)
<1>. DEFINE P == {i \in DOMAIN history : history[i].role = "system"}
            Q == {i \in DOMAIN history : ~(history[i].role = "system")}
            R == {i \in 1 .. Len(history) : i \notin P}
<1>1. R = Q
    OBVIOUS
<1>. HIDE DEF P, Q
<1>2. /\ Kept(history, P) \in Seq(SavedMessage)
      /\ Len(Kept(history, P)) + Len(Kept(history, R)) = Len(history)
    BY KeptOrNot
<1>3. Kept(history, Q) \in Seq(SavedMessage)
    BY KeptOrNot
<1>. HIDE DEF R
<1>. QED  BY <1>1, <1>2, <1>3 DEF Instructions, Turns, P, Q

LEMMA RequestSent ==
    ASSUME NEW history
    PROVE  LET systems == Instructions(history)
               others == Turns(history)
           IN  GeminiRequest(history) =
                   [system |-> [i \in DOMAIN systems |-> systems[i].content],
                    contents |-> [i \in DOMAIN others |->
                                     [role |-> GeminiRole(others[i].role), parts |-> PartsOf(others[i])]]]
BY Zenon DEF GeminiRequest, Where, MapSeq, Instructions, Turns

LEMMA JoinedPlaces ==
    ASSUME NEW X, NEW s \in Seq(X), NEW t \in Seq(X)
    PROVE  /\ Len(s) \in Nat /\ Len(t) \in Nat
           /\ Len(Joined(s, t)) = Len(s) + Len(t)
           /\ DOMAIN Joined(s, t) = 1 .. Len(s) + Len(t)
           /\ \A i \in 1 .. Len(s) : Joined(s, t)[i] = s[i]
           /\ \A j \in 1 .. Len(t) : Joined(s, t)[Len(s) + j] = t[j]
BY DEF Joined

LEMMA TurnsAdded ==
    ASSUME NEW X, NEW s \in Seq(X), NEW t \in Seq(X), \A j \in 1 .. Len(t) : t[j].role # "system"
    PROVE  /\ Turns(Joined(s, t)) = Joined(Turns(s), t)
           /\ Instructions(Joined(s, t)) = Joined(Instructions(s), << >>)
<1>. DEFINE more == Joined(s, t)
<1>1. /\ Len(s) \in Nat /\ Len(t) \in Nat
      /\ \A i \in 1 .. Len(s) : i \in DOMAIN more /\ more[i] = s[i]
      /\ \A j \in 1 .. Len(t) : Len(s) + j \in DOMAIN more /\ more[Len(s) + j] = t[j]
    BY JoinedPlaces
<1>. HIDE DEF more
<1>2. Turns(more) = Joined(Turns(s), t)
  <2>. DEFINE P == {i \in DOMAIN more : ~(more[i].role = "system")}
              Q == {i \in 1 .. Len(s) : i \in P}
              R == {j \in 1 .. Len(t) : Len(s) + j \in P}
  <2>1. Q = {i \in DOMAIN s : ~(s[i].role = "system")}
      BY <1>1
  <2>2. 1 .. Len(t) \subseteq R
      BY <1>1
  <2>3. Kept(more, P) = Joined(Kept(s, Q), Kept(t, R))
    <3>. HIDE DEF P
    <3>. QED  BY KeptJoin DEF more
  <2>. HIDE DEF R
  <2>4. Kept(t, R) = t
      BY <2>2, KeptAll
  <2>. HIDE DEF Q
  <2>. QED  BY <2>1, <2>3, <2>4, Zenon DEF Turns
<1>3. Instructions(more) = Joined(Instructions(s), << >>)
  <2>. DEFINE P == {i \in DOMAIN more : more[i].role = "system"}
              Q == {i \in 1 .. Len(s) : i \in P}
              R == {j \in 1 .. Len(t) : Len(s) + j \in P}
  <2>1. Q = {i \in DOMAIN s : s[i].role = "system"}
      BY <1>1
  <2>2. (1 .. Len(t)) \cap R = {}
      BY <1>1
  <2>3. Kept(more, P) = Joined(Kept(s, Q), Kept(t, R))
    <3>. HIDE DEF P
    <3>. QED  BY KeptJoin DEF more
  <2>. HIDE DEF R
  <2>4. Kept(t, R) = << >>
      BY <2>2, KeptNone
  <2>. HIDE DEF Q
  <2>. QED  BY <2>1, <2>3, <2>4, Zenon DEF Instructions
<1>. QED  BY <1>2, <1>3 DEF more

LEMMA TwoMore ==
    ASSUME NEW history \in Seq(SavedMessage), NEW m \in SavedMessage, NEW r \in SavedMessage,
           m.role # "system", r.role # "system"
    PROVE  LET more == history \o <<m, r>>
               n == Len(Turns(history)) + 2
           IN  /\ Instructions(more) = Instructions(history)
               /\ Len(Turns(more)) = n /\ DOMAIN Turns(more) = 1 .. n
               /\ Turns(more)[n - 1] = m /\ Turns(more)[n] = r
<1>. DEFINE X == SavedMessage
            two == <<m, r>>
            more == Joined(history, two)
            others == Turns(history)
            systems == Instructions(history)
<1>1. history \in Seq(X) /\ two \in Seq(X) /\ Len(two) = 2
    OBVIOUS
<1>2. systems \in Seq(X) /\ others \in Seq(X)
    BY InstructionsAndTurns
<1>3. two[1] = m /\ two[2] = r /\ \A j \in 1 .. Len(two) : two[j].role # "system"
    OBVIOUS
<1>. HIDE DEF X, two
<1>4. Turns(more) = Joined(others, two) /\ Instructions(more) = Joined(systems, << >>)
    BY <1>1, <1>3, TurnsAdded
<1>. HIDE DEF more
<1>. HIDE DEF others, systems
<1>7. Instructions(more) = systems
    BY <1>2, <1>4, ConcatEmptySeq DEF Joined
<1>. DEFINE k == Len(others)
            all == Joined(others, two)
<1>8. /\ k \in Nat /\ Len(all) = k + 2 /\ DOMAIN all = 1 .. k + 2
      /\ all[k + 1] = two[1] /\ all[k + 2] = two[2]
  <2>. HIDE DEF others
  <2>1. /\ Len(others) \in Nat
        /\ Len(all) = Len(others) + Len(two)
        /\ DOMAIN all = 1 .. Len(others) + Len(two)
        /\ \A j \in 1 .. Len(two) : all[Len(others) + j] = two[j]
    <3>1. others \in Seq(X) /\ two \in Seq(X)
        BY <1>1, <1>2
    <3>. QED  BY <3>1 DEF Joined
  <2>2. 1 \in 1 .. Len(two) /\ 2 \in 1 .. Len(two)
      BY <1>1
  <2>. HIDE DEF all
  <2>. QED  BY <1>1, <2>1, <2>2
<1>. HIDE DEF all
<1>9. (k + 2) - 1 = k + 1
    BY <1>8
<1>10. /\ Len(all) = k + 2 /\ DOMAIN all = 1 .. k + 2
       /\ all[(k + 2) - 1] = m /\ all[k + 2] = r
  <2>. HIDE DEF k
  <2>. QED  BY <1>3, <1>8, <1>9
<1>11. Turns(more) = all
    BY <1>4 DEF all
<1>12. more = history \o <<m, r>>
    BY DEF more, Joined, two
<1>. QED  BY <1>7, <1>10, <1>11, <1>12, Zenon DEF others, systems

\* The message with the results of the calls.
ResultsOf(names) ==
    [role |-> "tool", content |-> << >>, signature |-> None,
     attachments |-> << >>, calls |-> << >>, responses |-> names]

SentResults(names) == [i \in DOMAIN names |-> Part("response", names[i], None)]

LEMMA ResultsSent ==
    ASSUME NEW names \in Seq(STRING)
    PROVE  PartsOf(ResultsOf(names)) = SentResults(names)
<1>. DEFINE msg == ResultsOf(names)
            R == SentResults(names)
<1>1. /\ msg.content = << >> /\ msg.signature = None /\ msg.attachments = << >>
      /\ msg.calls = << >> /\ msg.responses = names
    BY DEF ResultsOf
<1>2. R \in Seq(MessagePart)
  <2>1. \A i \in DOMAIN names : Part("response", names[i], None) \in MessagePart
    <3>. SUFFICES ASSUME NEW i \in DOMAIN names PROVE Part("response", names[i], None) \in MessagePart
        OBVIOUS
    <3>1. names[i] \in STRING
        OBVIOUS
    <3>. QED  BY <3>1 DEF Part, MessagePart
  <2>2. DOMAIN names = 1 .. Len(names) /\ Len(names) \in Nat
      OBVIOUS
  <2>3. R \in [1 .. Len(names) -> MessagePart]
      BY <2>1, <2>2 DEF SentResults
  <2>. QED  BY <2>2, <2>3
<1>. HIDE DEF msg
<1>3. TextParts(msg) = << >>
    BY <1>1 DEF TextParts
<1>4. AttachmentParts(msg) = << >>
  <2>1. AttachmentParts(msg) = [i \in DOMAIN msg.attachments |->
            IF isGeminiSupportedMime(msg.attachments[i]) THEN Part("data", msg.attachments[i], None)
            ELSE Part("note", msg.attachments[i], None)]
      BY Zenon DEF AttachmentParts, MapSeq
  <2>. QED  BY <1>1, <2>1
<1>5. CallParts(msg) = << >>
  <2>1. CallParts(msg) = [i \in DOMAIN msg.calls |-> Part("call", msg.calls[i].name, msg.signature)]
      BY Zenon DEF CallParts, MapSeq
  <2>. QED  BY <1>1, <2>1
<1>6. LoneSignature(msg) = << >>
    BY <1>1 DEF LoneSignature
<1>7. ResponseParts(msg) = R
  <2>1. ResponseParts(msg) = [i \in DOMAIN msg.responses |-> Part("response", msg.responses[i], None)]
      BY Zenon DEF ResponseParts, MapSeq
  <2>. QED  BY <1>1, <2>1 DEF SentResults
<1>. HIDE DEF R
<1>8. PartsOf(msg) = (((<< >> \o << >>) \o << >>) \o << >>) \o R
    BY <1>3, <1>4, <1>5, <1>6, <1>7 DEF PartsOf
<1>9. (((<< >> \o << >>) \o << >>) \o << >>) \o R = R
    BY <1>2
<1>. QED  BY <1>8, <1>9 DEF msg, R

Whats(parts) == [i \in DOMAIN parts |-> parts[i].what]

LEMMA GoesBack ==
    ASSUME NEW reply \in GeminiReply, NEW history \in Seq(SavedMessage)
    PROVE  AnswerGoesBack(reply, history)
<1>. DEFINE names == [i \in DOMAIN reply.calls |-> reply.calls[i].name]
            m == MessageOf(reply)
            r == ResultsOf(names)
            more == history \o <<m, r>>
            sent == GeminiRequest(more)
            k == Len(Turns(history))
            n == Len(sent.contents)
<1>1. /\ reply.text \in Seq(STRING) /\ reply.signature \in STRING \cup {None}
      /\ reply.calls \in Seq(Call)
    BY DEF GeminiReply
<1>2. names \in Seq(STRING)
  <2>1. \A i \in DOMAIN reply.calls : reply.calls[i].name \in STRING
    <3>. SUFFICES ASSUME NEW i \in DOMAIN reply.calls PROVE reply.calls[i].name \in STRING
        OBVIOUS
    <3>1. reply.calls[i] \in Call
        BY <1>1
    <3>. QED  BY <3>1 DEF Call
  <2>2. DOMAIN reply.calls = 1 .. Len(reply.calls) /\ Len(reply.calls) \in Nat
      BY <1>1
  <2>. QED  BY <2>1, <2>2
<1>. HIDE DEF names
<1>3. m \in SavedMessage /\ m.role = "assistant"
    BY <1>1 DEF MessageOf, SavedMessage, Call
<1>4. r \in SavedMessage /\ r.role = "tool"
    BY <1>2 DEF ResultsOf, SavedMessage
<1>. HIDE DEF m, r
<1>5. m.role # "system" /\ r.role # "system"
    BY <1>3, <1>4
<1>6. /\ Instructions(more) = Instructions(history)
      /\ Len(Turns(more)) = k + 2 /\ DOMAIN Turns(more) = 1 .. k + 2
      /\ Turns(more)[(k + 2) - 1] = m /\ Turns(more)[k + 2] = r
    BY <1>3, <1>4, <1>5, TwoMore
<1>7. /\ Instructions(history) \in Seq(SavedMessage) /\ k \in Nat
      /\ Len(Instructions(history)) + k = Len(history)
    BY InstructionsAndTurns
<1>. HIDE DEF more, k
<1>8. /\ sent.system = [i \in DOMAIN Instructions(more) |-> Instructions(more)[i].content]
      /\ sent.contents = [i \in DOMAIN Turns(more) |->
                             [role |-> GeminiRole(Turns(more)[i].role), parts |-> PartsOf(Turns(more)[i])]]
    BY RequestSent
<1>. HIDE DEF sent
<1>9. n = k + 2 /\ (k + 2) - 1 \in 1 .. k + 2 /\ k + 2 \in 1 .. k + 2
    BY <1>6, <1>7, <1>8
<1>10. Len(sent.system) = Len(history) - (n - 2)
  <2>1. Len(sent.system) = Len(Instructions(history))
      BY <1>6, <1>7, <1>8
  <2>2. Len(Instructions(history)) \in Nat
      BY <1>7
  <2>. QED  BY <1>7, <1>9, <2>1, <2>2
<1>. HIDE DEF n
<1>11. sent.contents[n - 1].role = "model" /\ sent.contents[n - 1].parts = PartsOf(m)
    BY <1>3, <1>6, <1>8, <1>9 DEF GeminiRole
<1>12. sent.contents[n].role = "tool" /\ sent.contents[n].parts = PartsOf(r)
    BY <1>4, <1>6, <1>8, <1>9 DEF GeminiRole
<1>13. FlattenSeq(Whats(OfKind(PartsOf(m), "text"))) = reply.text
  <2>1. OfKind(PartsOf(m), "text") = SentText(reply)
      BY SentKinds DEF m
  <2>2. Whats(SentText(reply)) = IF reply.text = << >> THEN << >> ELSE <<reply.text>>
      BY DEF Whats, SentText, Part
  <2>3. FlattenSeq(<< >>) = << >>
      BY FlattenIsLast
  <2>4. FlattenSeq(<<reply.text>>) = reply.text
    <3>. DEFINE s == reply.text
                none == << >>
    <3>1. s \in Seq(STRING) /\ none \in Seq(Seq(STRING)) /\ Append(none, s) = <<s>> /\ none \o s = s
        BY <1>1
    <3>. HIDE DEF s
    <3>2. FlattenSeq(Append(none, s)) = FlattenSeq(none) \o s
        BY <3>1, FlattenAppend
    <3>. QED  BY <2>3, <3>1, <3>2 DEF s
  <2>. QED  BY <2>1, <2>2, <2>3, <2>4
<1>14. Whats(OfKind(PartsOf(m), "call")) = names
  <2>1. OfKind(PartsOf(m), "call") = SentCalls(reply)
      BY SentKinds DEF m
  <2>2. Whats(SentCalls(reply)) = names
      BY <1>1 DEF Whats, SentCalls, Part, names
  <2>. QED  BY <2>1, <2>2
<1>15. Whats(OfKind(PartsOf(r), "response")) = names
  <2>1. PartsOf(r) = SentResults(names)
      BY <1>2, ResultsSent DEF r
  <2>. DEFINE R == SentResults(names)
  <2>2. DOMAIN R = DOMAIN names /\ \A i \in DOMAIN names : R[i].kind = "response" /\ R[i].what = names[i]
      BY DEF SentResults, Part
  <2>3. R \in Seq({R[i] : i \in DOMAIN R}) /\ DOMAIN R = 1 .. Len(R)
      BY <1>2 DEF SentResults
  <2>. HIDE DEF R
  <2>4. OfKind(R, "response") = R
      BY <2>2, <2>3, OfKindAll
  <2>5. Whats(R) = names
      BY <1>2, <2>2 DEF Whats
  <2>. QED  BY <2>1, <2>4, <2>5 DEF R
<1>16. reply.signature # None =>
           \E i \in DOMAIN PartsOf(m) : PartsOf(m)[i].signature = reply.signature
    BY SentKinds DEF m
<1>. DEFINE Sent(i, kind) == Whats(OfKind(sent.contents[i].parts, kind))
<1>17. /\ n = Len(Turns(history)) + 2
       /\ Len(sent.system) = Len(history) - (n - 2)
       /\ sent.contents[n - 1].role = "model" /\ sent.contents[n].role = "tool"
       /\ FlattenSeq(Sent(n - 1, "text")) = reply.text
       /\ Sent(n - 1, "call") = names
       /\ Sent(n, "response") = names
       /\ reply.signature # None =>
              \E i \in DOMAIN sent.contents[n - 1].parts :
                  sent.contents[n - 1].parts[i].signature = reply.signature
  <2>1. n = Len(Turns(history)) + 2
      BY <1>9 DEF k
  <2>. QED  BY <1>10, <1>11, <1>12, <1>13, <1>14, <1>15, <1>16, <2>1, Zenon
<1>. QED  BY <1>17, Zenon DEF AnswerGoesBack, Whats, OfKind, Turns, MapSeq, Where,
             ResultsOf, names, m, r, more, sent, n

-----------------------------------------------------------------------------
\* A request is asked until it is answered.
CallsInv ==
    /\ task \in StreamRequests \/ task \in BackRequests
    /\ \/ answer = Pending
       \/ task.op = "stream" /\ answer = GenerateStream(task.frames, task.broken)
       \/ task.op = "back" /\ answer = Generate(task.parts)

\* Whatever Gemini answers, and however it cuts it into frames, what a caller is given
\* piece by piece and as a whole is the same answer, its calls have ids of their own,
\* and it goes back whole with the next request (GenerateStream, Generate, and the
\* request they build).
THEOREM AnswersAlwaysKept == CallsSpec => []AnswersKept
<1>1. CallsInit => CallsInv
    BY DEF CallsInit, CallsInv
<1>2. CallsInv /\ [CallsNext]_requestVars => CallsInv'
  <2>. SUFFICES ASSUME CallsInv, [CallsNext]_requestVars PROVE CallsInv'
      OBVIOUS
  <2>1. CASE Stream
      BY <2>1 DEF CallsInv, Stream, AnswerWith
  <2>2. CASE Complete
      BY <2>2 DEF CallsInv, Complete, AnswerWith
  <2>3. CASE UNCHANGED requestVars
      BY <2>3 DEF CallsInv, requestVars
  <2>. QED  BY <2>1, <2>2, <2>3 DEF CallsNext
<1>3. CallsInv => AnswersKept
  <2>. SUFFICES ASSUME CallsInv PROVE AnswersKept
      OBVIOUS
  <2>1. ASSUME Answered("stream") PROVE StreamedAsWhole(answer, task.frames, task.broken)
    <3>1. task \in StreamRequests /\ answer = GenerateStream(task.frames, task.broken)
        BY <2>1, BacksAssumption DEF CallsInv, Answered
    <3>2. task.frames \in Seq(Frame) /\ task.broken \in BOOLEAN /\ None \notin Seq(AnswerPart)
        BY <3>1, StreamsAssumption DEF Frame
    <3>. QED  BY <3>1, <3>2, StreamWhole
  <2>2. ASSUME Answered("back") PROVE AnswerGoesBack(answer, task.history)
    <3>1. task \in BackRequests /\ answer = Generate(task.parts)
        BY <2>2, StreamsAssumption DEF CallsInv, Answered
    <3>2. task.history \in Seq(SavedMessage) /\ task.parts \in Seq(AnswerPart)
        BY <3>1, BacksAssumption
    <3>3. answer = Gen(task.parts)
      <4>1. task.parts # None
          BY <3>2, StreamsAssumption
      <4>. QED  BY <3>1, <4>1, Zenon DEF Generate, Gen
    <3>4. answer \in GeminiReply
        BY <3>2, <3>3, CallsNumbered
    <3>. QED  BY <3>2, <3>4, GoesBack
  <2>. QED  BY <2>1, <2>2 DEF AnswersKept
<1>. QED  BY <1>1, <1>2, <1>3, PTL DEF CallsSpec
====
