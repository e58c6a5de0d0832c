----------------------------- MODULE NewsSummary -----------------------------
(***************************************************************************)
(* The summary of a bulletin: worldnews/highlights_summary.go (a template)  *)
(* and worldnews/highlights_summary_ai.go (a model's prose, made to fit).   *)
(*                                                                         *)
(* A text is a sequence of paragraphs, a paragraph a sequence of words.     *)
(* Of a word it matters which one it is, whether it is a number with a      *)
(* decimal point in it and whether a full stop ends it (! and ? are not     *)
(* told apart from it, except that no dots are stripped from them).         *)
(* A text stays below twelve characters a word, so that there is room for  *)
(* a last full stop.                                                        *)
(***************************************************************************)
EXTENDS Integers, SequencesExt

CONSTANTS
    HighlightSummaryMinWords, HighlightSummaryMaxWords,
    SentencesPerParagraph,      \* of a text that comes as one paragraph
    Padding                     \* the words of the sentence that is added

ASSUME SummaryAssumption ==
    /\ HighlightSummaryMinWords \in Nat
    /\ HighlightSummaryMaxWords \in Nat \ {0}
    /\ SentencesPerParagraph \in Nat \ {0}
    /\ Padding \in Seq([id : {0}, number : {FALSE}, stop : BOOLEAN]) \ {<<>>}

Word(id) == [id |-> id, number |-> FALSE, stop |-> FALSE]
Stopped(word) == [word EXCEPT !.stop = TRUE]

Words(text) == FlattenSeq(text)
wordCount(text) == Len(Words(text))

collapseParagraphSpaces(text) == SelectSeq(text, LAMBDA p : p # <<>>)

-----------------------------------------------------------------------------
(* Paragraphs.                                                              *)

\* A full stop inside a number ends a sentence too.
Pieces(word) ==
    IF word.number
    THEN <<[id |-> word.id, number |-> FALSE, stop |-> TRUE],
           [id |-> word.id, number |-> FALSE, stop |-> word.stop]>>
    ELSE <<word>>

splitSummarySentences(words) ==
    LET pieces == FlattenSeq([i \in DOMAIN words |-> Pieces(words[i])])
        AddTo(sentences, piece) ==
            IF sentences = <<>> \/ Last(Last(sentences)).stop
            THEN Append(sentences, <<piece>>)
            ELSE [sentences EXCEPT ![Len(sentences)] = Append(@, piece)]
    IN  FoldLeft(AddTo, <<>>, pieces)

\* Sentences in groups of n, a smaller one at the end.
\* (Mutant: the smaller one is lost.)
WholeGroups(sentences, n) ==
    [g \in 1 .. Len(sentences) \div n |->
        FlattenSeq(SubSeq(sentences, (g - 1) * n + 1, g * n))]
Groups(sentences, n) ==
    [g \in 1 .. (Len(sentences) + n - 1) \div n |->
        FlattenSeq(SubSeq(sentences, (g - 1) * n + 1,
                          IF g * n < Len(sentences) THEN g * n ELSE Len(sentences)))]

autoSplitSummaryParagraphs(words) ==
    LET sentences == splitSummarySentences(words)
    IN  IF Len(sentences) <= SentencesPerParagraph THEN <<words>>
        ELSE Groups(sentences, SentencesPerParagraph)

ensureSummaryParagraphs(text) ==
    IF Len(text) = 1 THEN autoSplitSummaryParagraphs(text[1]) ELSE text

-----------------------------------------------------------------------------
(* Length.  To cut a text is to make it one paragraph.                      *)

WithLast(text, word) ==
    [text EXCEPT ![Len(text)] = [@ EXCEPT ![Len(@)] = word]]

ensureSentenceEnding(text) ==
    IF text = <<>> THEN text ELSE WithLast(text, Stopped(Last(Last(text))))

\* The dots at the end go, a single full stop too.
stripTrailingEllipsis(words) ==
    [words EXCEPT ![Len(words)] = [@ EXCEPT !.stop = FALSE]]

trimToMaxWords(text, max) ==
    IF wordCount(text) <= max THEN text ELSE <<SubSeq(Words(text), 1, max)>>

\* Up to the last full stop that another word follows.
trimToMaxWordsAtSentence(text, max) ==
    LET ends == {i \in 1 .. max - 1 : Words(text)[i].stop}
    IN  CASE wordCount(text) <= max -> ensureSentenceEnding(text)
          [] wordCount(text) > max /\ ends # {} ->
                <<SubSeq(Words(text), 1, CHOOSE i \in ends : \A j \in ends : j <= i)>>
          [] OTHER -> trimToMaxWords(text, max)

\* The padding sentence ends the last paragraph as often as is needed.
padSummaryWords(text, min, max) ==
    LET paragraphs == IF text = <<>> THEN << <<>> >> ELSE text
        Missing(n) == min - wordCount(paragraphs) - n * Len(Padding)
        times == CHOOSE n \in 0 .. min :
                    Missing(n) <= 0 /\ \A k \in 0 .. n - 1 : Missing(k) > 0
        padded == [paragraphs EXCEPT
                    ![Len(paragraphs)] = @ \o FlattenSeq([k \in 1 .. times |-> Padding])]
    IN  IF wordCount(padded) > max THEN trimToMaxWords(padded, max)
        ELSE ensureSentenceEnding(padded)

fitSummaryWordLength(text, min, max) ==
    LET n == wordCount(text)
    IN  ensureSummaryParagraphs(
            CASE n > max -> trimToMaxWords(text, max)
              [] n < min -> padSummaryWords(text, min, max)
              [] min <= n /\ n <= max -> ensureSentenceEnding(text))

normalizeAISummaryWords(text, max) ==
    LET stripped == [text EXCEPT ![Len(text)] = stripTrailingEllipsis(@)]
    IN  IF text = <<>> THEN <<>>
        ELSE ensureSummaryParagraphs(trimToMaxWordsAtSentence(stripped, max))

-----------------------------------------------------------------------------
(* The template.  Its sentences are given: one on the day, one on the       *)
(* indices, one on what there is of oil, gold and the dollar, one for each  *)
(* of the first ten news, in paragraphs of three, and advice.               *)

buildHighlightSummary(s) ==
    LET news == SubSeq(s.news, 1, IF Len(s.news) < 10 THEN Len(s.news) ELSE 10)
        onNews == IF news = <<>> THEN <<>> ELSE <<s.leadIn>> \o Groups(news, 3)
        text == <<s.intro>> \o s.indices
                \o (IF s.goods = <<>> THEN <<>> ELSE <<FlattenSeq(s.goods)>>)
                \o onNews \o <<s.advice>>
    IN  fitSummaryWordLength(text, HighlightSummaryMinWords, HighlightSummaryMaxWords)

-----------------------------------------------------------------------------
(* The model's prose.                                                       *)

sanitizeAISummary(raw) ==
    LET paragraphs == collapseParagraphSpaces(raw)
    IN  [i \in DOMAIN paragraphs |-> stripTrailingEllipsis(paragraphs[i])]

\* <<>> for a request that failed.
generateHighlightSummaryAI(raw) ==
    normalizeAISummaryWords(sanitizeAISummary(raw), HighlightSummaryMaxWords)

resolveHighlightSummary(raw, template) ==
    LET prose == generateHighlightSummaryAI(raw)
    IN  IF prose = <<>> THEN template ELSE prose

\* What the prompt says of the market and of at most eight news, in lines.
NoData == "no data"
Lines(lines) == IF lines = <<>> THEN <<NoData>> ELSE lines

buildHighlightSummaryMarketData(quotes) ==
    Lines(SelectSeq(<<"S&P 500", "WTI", "Brent", "gold", "DXY">>, LAMBDA q : q \in quotes))

buildHighlightSummaryNewsData(news) ==
    Lines(SubSeq(news, 1, IF Len(news) < 8 THEN Len(news) ELSE 8))

-----------------------------------------------------------------------------
Ids(text) ==
    LET words == Words(text)
    IN  [i \in DOMAIN words |-> words[i].id]

Numbers(words) == {i \in DOMAIN words : words[i].number}

\* A summary of the model's prose begins as the prose does, says nothing that it
\* does not say, and leaves nothing out if the prose is short enough; it has no
\* more words than allowed and ends in a full stop, unless no sentence ends in
\* reach.  Where the prose has several paragraphs and is short enough its numbers
\* come through as they are.  (As one paragraph it is split into sentences, at the
\* point of a number too: then the number is torn apart, which adds a word.)
ProseFits(raw) ==
    LET given == Words(raw)
        out == resolveHighlightSummary(raw, << >>)
        whole == Len(collapseParagraphSpaces(raw)) > 1
                 /\ Len(given) <= HighlightSummaryMaxWords
        plain == Numbers(given) = {}
    IN  given # <<>> =>
        /\ plain \/ whole => IsPrefix(Ids(out), Ids(raw))
        /\ whole => Len(Words(out)) = Len(given) /\ Numbers(Words(out)) = Numbers(given)
        /\ plain /\ Len(given) <= HighlightSummaryMaxWords => Ids(out) = Ids(raw)
        /\ plain \/ whole => wordCount(out) <= HighlightSummaryMaxWords
        /\ \/ Last(Words(out)).stop
           \/ Len(given) > HighlightSummaryMaxWords
        /\ \A i \in DOMAIN out : out[i] # <<>>

\* The template has the news that fit, in their order, and is neither too short
\* nor too long.
TemplateFits(s) ==
    LET out == buildHighlightSummary(s)
        all == Ids(<<s.intro>> \o s.indices \o s.goods
                   \o (IF s.news = <<>> THEN <<>> ELSE <<s.leadIn>>)
                   \o SubSeq(s.news, 1, IF Len(s.news) < 10 THEN Len(s.news) ELSE 10)
                   \o <<s.advice>>)
        said == SelectSeq(Ids(out), LAMBDA id : id # 0)
    IN  /\ IsPrefix(said, all)
        /\ Len(all) <= HighlightSummaryMaxWords => said = all
        /\ wordCount(out) <= HighlightSummaryMaxWords
        /\ \/ wordCount(out) >= HighlightSummaryMinWords
           \/ HighlightSummaryMinWords > HighlightSummaryMaxWords
        /\ Len(buildHighlightSummaryNewsData(s.news)) \in 1 .. 8
        /\ Len(s.news) \in 1 .. 10 /\ Len(all) <= HighlightSummaryMaxWords =>
              Len(out) = 3 + Len(s.indices) + (IF s.goods = <<>> THEN 0 ELSE 1)
                         + (Len(s.news) + 2) \div 3
=============================================================================
