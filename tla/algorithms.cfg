CONSTANTS
    NoDate = NoDate
    NoTime = NoTime
    Failed = Failed
    Pending = Pending
    None = None
    NoCandidates = NoCandidates
    Malformed = Malformed
    Invalid = Invalid
    SectionRequests <- MCSectionRequests
    QuoteRequests <- MCQuoteRequests
    NumberRequests <- MCNumberRequests
    StreamRequests <- MCStreamRequests
    BackRequests <- MCBackRequests
    SummerFrom <- MCSummerFrom
    SummerTo <- MCSummerTo
    FirstInstants <- MCFirstInstants
    Pauses <- MCPauses
    LastInstant <- MCLastInstant
    HighlightSummaryMinWords = 2
    HighlightSummaryMaxWords = 3
    SentencesPerParagraph = 2
    Padding <- MCPadding
SPECIFICATION Spec
INVARIANTS
    BulletinDays
    SectionsSound
    NewsComplete
    YahooBeforeCutoff
    NumbersAtCutoff
    SummaryFits
    AnswersKept
    ReadAsWritten
\* Every task ends with its answer, or with the time looked at.
CHECK_DEADLOCK FALSE
