------------------------------ MODULE NewsFeeds ------------------------------
(***************************************************************************)
(* The news of a bulletin: worldnews/rss.go, the publisher and image parts *)
(* of worldnews/media.go and the lists that service.go makes of them.      *)
(*                                                                         *)
(* An entry is an item of a feed as it is published:                       *)
(*   story, suffix   the title "story - suffix"; "" where there is none    *)
(*   about           the words of the title that a list looks for          *)
(*   date            when, or NoDate where no format fits                  *)
(*   link, source    the hosts of its link and of its <source> element     *)
(*   image, page     is there an image in the entry, and on the page?      *)
(* A feed has a name, a kind and a format; an answer is a list of entries, *)
(* the empty one too when the request fails or the body cannot be parsed.  *)
(***************************************************************************)
EXTENDS NewsDigest, Loops, SequencesExt

PublishedEntry ==
    [story : STRING, suffix : STRING, about : SUBSET STRING, date : Int \cup {NoDate},
     link : STRING, source : STRING, image : BOOLEAN, page : BOOLEAN]
FeedSource == [name : STRING, kind : STRING, format : {"rss", "atom"}]

Sections == {"stocks", "vietnam", "breaking", "vtv"}

knownSourceHosts ==
    [label \in {"CNBC", "Reuters", "WSJ", "Bloomberg"} |->
        CASE label = "CNBC" -> "cnbc.com"
          [] label = "Reuters" -> "reuters.com"
          [] label = "WSJ" -> "wsj.com"
          [] label = "Bloomberg" -> "bloomberg.com"]

hostFromSourceLabel(label) ==
    IF label \in DOMAIN knownSourceHosts THEN knownSourceHosts[label] ELSE ""

isAggregatorHost(host) == host \in {"news.google.com", "google.com", "news.google.com.vn"}

extractPublisherHost(entry, label) ==
    CASE entry.source # "" -> entry.source
      [] entry.source = "" /\ entry.link # "" /\ ~isAggregatorHost(entry.link) -> entry.link
      [] OTHER -> hostFromSourceLabel(label)

-----------------------------------------------------------------------------
(* Reading a feed.                                                          *)

publisherFromGoogleTitle(entry, feed) ==
    IF entry.suffix = "" THEN feed.name ELSE entry.suffix

ItemOf(entry, feed, label) ==
    [title |-> <<entry.story, entry.suffix>>, about |-> entry.about, date |-> entry.date,
     source |-> label, kind |-> feed.kind, host |-> extractPublisherHost(entry, label),
     link |-> entry.link, image |-> entry.image, page |-> entry.page]

Titled(entries) == Where(entries, LAMBDA e : e.story # "")

mapRSS2Items(entries, feed) ==
    LET titled == Titled(entries)
    IN  [i \in DOMAIN titled |->
            ItemOf(titled[i], feed, publisherFromGoogleTitle(titled[i], feed))]

mapAtomEntries(entries, feed) ==
    LET titled == Titled(entries)
    IN  [i \in DOMAIN titled |-> ItemOf(titled[i], feed, feed.name)]

parseFeedBody(entries, feed) ==
    IF feed.format = "rss" THEN mapRSS2Items(entries, feed) ELSE mapAtomEntries(entries, feed)

\* The items of several feeds, one after the other.
Read(feeds, answers) ==
    FlattenSeq([i \in DOMAIN feeds |-> parseFeedBody(answers[i], feeds[i])])

-----------------------------------------------------------------------------
(* Choosing among items.                                                    *)

isAllowedStockNewsSource(it) ==
    \/ it.host \in {"cnbc.com", "reuters.com", "wsj.com"}
    \/ it.source \in {"CNBC", "Reuters", "WSJ", "The Wall Street Journal"}

filterStockNewsSources(items) == Where(items, isAllowedStockNewsSource)

isNewsInDigestWindow(date, window) == date # NoDate /\ InWindow(date, window)

filterNewsBetween(items, window) ==
    Where(items, LAMBDA it : isNewsInDigestWindow(it.date, window))

\* The first of several items of one title stays.
dedupeNews(items) ==
    Kept(items, {i \in DOMAIN items : \A j \in 1 .. i - 1 : items[j].title # items[i].title})

Exchange(items, i, j) == [items EXCEPT ![i] = items[j], ![j] = items[i]]
NewestFirst(items, i, j) ==
    IF items[j].date > items[i].date THEN Exchange(items, i, j) ELSE items

\* The inner loop of the sort: place i is compared with every later one.
\* (Mutant: with the next one only.)
NextCompared(items, i) == IF i < Len(items) THEN NewestFirst(items, i, i + 1) ELSE items
Compared(items, i) ==
    LET upTo[j \in i .. Len(items)] ==
            IF j = i THEN items ELSE NewestFirst(upTo[j - 1], i, j)
    IN  upTo[Len(items)]

sortNewsByDateDesc(items) ==
    LET rounds[i \in 0 .. Len(items)] ==
            IF i = 0 THEN items ELSE Compared(rounds[i - 1], i)
    IN  rounds[Len(items)]

takeNewsItems(items, limit) == SubSeq(items, 1, Min({limit, Len(items)}))

-----------------------------------------------------------------------------
(* Images: the page of an item that has none is asked for one, until enough *)
(* pages have given one.                                                    *)

fetchOGImage(it) == it.page /\ it.link # "" /\ ~isAggregatorHost(it.link)

GivesImage(it, left) == ~it.image /\ left > 0 /\ fetchOGImage(it)

Spent(it, left) == IF GivesImage(it, left) THEN left - 1 ELSE left

enrichItemMedia(items, ogLimit) ==
    LET remaining[i \in 0 .. Len(items)] ==
            IF i = 0 THEN ogLimit ELSE Spent(items[i], remaining[i - 1])
    IN  [i \in DOMAIN items |->
            [items[i] EXCEPT !.image = @ \/ GivesImage(items[i], remaining[i - 1])]]

-----------------------------------------------------------------------------
(* The sections.  `feeds` and `queries` are what is asked; answers[1] and   *)
(* answers[2] are what the feeds and the searches of the archive answer.    *)

\* A section with fewer items than this searches the archive.
Enough(section) ==
    CASE section = "stocks" -> 2 [] section = "vietnam" -> 4
      [] section = "breaking" -> 3 [] section = "vtv" -> 2

fetchHistoricalStockGoogleNews(queries, answers, window) ==
    filterNewsBetween(Read(queries, answers), window)

fetchHistoricalNewsQueries(queries, answers, window) ==
    dedupeNews(FlattenSeq([i \in DOMAIN queries |->
        filterNewsBetween(parseFeedBody(answers[i], queries[i]), window)]))

\* (Mutant: an item or two are taken to be enough.)
WithArchiveLater(section, fresh, found) ==
    IF Len(fresh) < Enough(section) - 1 THEN dedupeNews(fresh \o found) ELSE fresh
WithArchive(section, fresh, found) ==
    IF Len(fresh) < Enough(section) THEN dedupeNews(fresh \o found) ELSE fresh

\* How many pages of a section give it an image.
ImageLimit(section) ==
    CASE section = "stocks" -> 4 [] section = "vietnam" -> 6
      [] section = "breaking" -> 8 [] section = "vtv" -> 5

\* What of it is the section's, before images are looked for.
fetchStockNewsForReport(fresh, found) ==
    filterStockNewsSources(dedupeNews(WithArchive("stocks", fresh, found)))

\* (The other sections filter what they merged once more, to no effect.)
fetchNewsForReport(fresh, found) == WithArchive("vietnam", fresh, found)

fetchBreakingNewsForReport(fresh, found) ==
    sortNewsByDateDesc(WithArchive("breaking", fresh, found))

fetchVTVNewsForReport(fresh, found) == sortNewsByDateDesc(WithArchive("vtv", fresh, found))

SectionItems(section, feeds, queries, answers, window) ==
    LET fresh == filterNewsBetween(Read(feeds, answers[1]), window)
        found == fetchHistoricalNewsQueries(queries, answers[2], window)
    IN  CASE section = "stocks" ->
                fetchStockNewsForReport(
                    fresh, fetchHistoricalStockGoogleNews(queries, answers[2], window))
          [] section = "vietnam" -> fetchNewsForReport(fresh, found)
          [] section = "breaking" -> fetchBreakingNewsForReport(fresh, found)
          [] section = "vtv" -> fetchVTVNewsForReport(fresh, found)

SectionNews(section, feeds, queries, answers, window) ==
    enrichItemMedia(SectionItems(section, feeds, queries, answers, window), ImageLimit(section))

-----------------------------------------------------------------------------
(* What the report shows of them.                                           *)

\* Only items that are Vietnamese by kind: those of the archive's third search
\* and of the feeds.
VietnamFinanceNews(items) ==
    takeNewsItems(Where(items, LAMBDA it : it.kind = "vietnam"), 6)

toNewsArticles(items) ==
    [i \in DOMAIN items |->
        [title |-> items[i].title, source |-> items[i].source, host |-> items[i].host,
         image |-> items[i].image, day |-> VnDay(items[i].date),
         clock |-> VnClock(items[i].date)]]

toBreakingNews(items) ==
    LET articles == toNewsArticles(items)
    IN  [i \in DOMAIN items |->
            [article |-> articles[i],
             urgent |-> items[i].about \cap {"breaking", "fed", "oil", "war"} # {}]]

\* Headlines that follow `quoted` lines about prices, at most `limit` with them.
Headlines(items, words, quoted, limit) ==
    takeNewsItems(Where(items, LAMBDA it : it.about \cap words # {}), limit - quoted)

buildStockHighlights(items, quoted) ==
    takeNewsItems(filterStockNewsSources(items), 5 - quoted)

buildOilHighlights(items, quoted) ==
    Headlines(items, {"oil", "crude", "opec", "energy"}, quoted, 4)

GoldHighlights(items, quoted) == Headlines(items, {"gold", "dollar", "usd"}, quoted, 4)

\* Two events are always on the list.
buildWatchlist(items) == Headlines(items, {"fed", "cpi", "ecb", "jobs"}, 2, 5)

-----------------------------------------------------------------------------
Titles(items) == {it.title : it \in ToSet(items)}

\* Every item of a section is of the bulletin's day; the stock section has none
\* of another publisher and none twice; breaking news and VTV have the newest
\* first; and the lists made of them have room for the lines on prices that they
\* begin with, and nothing but items of the section.
SectionSound(section, shown, window) ==
    /\ \A it \in ToSet(shown) : it.date # NoDate /\ window.since <= it.date /\ it.date < window.until
    /\ section = "stocks" =>
        /\ \A it \in ToSet(shown) : isAllowedStockNewsSource(it)
        /\ Cardinality(Titles(shown)) = Len(shown)
    /\ section \in {"breaking", "vtv"} =>
        \A i, j \in DOMAIN shown : i < j => shown[i].date >= shown[j].date
    /\ \A i \in DOMAIN toBreakingNews(shown) :
        LET article == toBreakingNews(shown)[i].article
        IN  IF article.clock < MorningDigestHour * Hour
            THEN article.day = VnDay(window.until)
            ELSE article.day = VnDay(window.since)
    /\ \A quoted \in 0 .. 2 :
        LET Fits(list, limit) ==
                /\ Len(list) + quoted <= limit
                /\ ToSet(list) \subseteq ToSet(shown)
        IN  /\ Fits(buildStockHighlights(shown, quoted), 5)
            /\ Fits(buildOilHighlights(shown, quoted), 4)
            /\ Fits(GoldHighlights(shown, quoted), 4)
            /\ quoted = 2 => Fits(buildWatchlist(shown), 5)
            /\ quoted = 0 => Fits(VietnamFinanceNews(shown), 6)

\* A section is short only if there is no more to show: all that the feeds have
\* for the day is there, and if that is little, all that the archive has too.
\* (Stocks are counted before doubles and other publishers are dropped: there it
\* is so only of feeds without them.)
NothingMissing(section, shown, fresh, found) ==
    \/ /\ section = "stocks"
       /\ \/ filterStockNewsSources(fresh \o found) # fresh \o found
          \/ Cardinality(Titles(fresh)) < Len(fresh)
    \/ /\ Titles(fresh) \subseteq Titles(shown)
       /\ Titles(shown) \subseteq Titles(fresh \o found)
       /\ Len(shown) < Enough(section) => Titles(found) \subseteq Titles(shown)

\* The pages that give an image are at most `limit`, and no item goes without
\* for the sake of one further down; nothing else of an item is changed.
ImagesSpentInOrder(shown, items, limit) ==
    LET given == {i \in DOMAIN shown : shown[i].image /\ ~items[i].image}
    IN  /\ Cardinality(given) <= limit
        /\ \A i \in DOMAIN shown :
              /\ shown[i] \in {items[i], [items[i] EXCEPT !.image = TRUE]}
              /\ ~shown[i].image /\ fetchOGImage(shown[i]) =>
                    Cardinality({j \in given : j < i}) = limit
=============================================================================
