# A verification model of the financial-services agent

The repository is a Go server (`src/Gemini`) around one chat agent. A user's
message goes through an HTTP handler into a ReAct loop: call the model, run the
tools it asks for, call it again, until it answers. Chats are kept in a session
store, tool results in a cache, and a world-news page is built beside it. A
TypeScript frontend (`src/frontend`) talks to the server. This directory models
the parts of it whose correctness depends on the order of things, checks them
with TLC and proves what matters most with TLAPS.

Paths below are relative to `src/Gemini/internal/` unless they start with `src/`.

## 1. Inventory

| Component | State | Operations | What is hard | What makes it correct |
|---|---|---|---|---|
| Chat API (`api/handlers.go`) | none of its own; a request's locals | chat, stream, reset, list, create, delete | every request works on the one shared agent | what is saved in a chat is that chat and one new turn; a failed request saves nothing |
| Agent (`core/agent.go`) | history, summary, `userInput`, `handoffPlan`, provider, prompt, all under `mu` | LoadHistory, ProcessMessage(Stream), GetHistory, Reset, 30-minute prompt refresh | sections under `mu` interleave; `userInput` is read without it; nested read locks | lock discipline; requests end |
| Orchestrator (`core/orchestrator.go`) | a loop counter | the blocking loop and the streaming loop | validation before or after the append; handoff; early returns; timeouts | every tool call answered; the final reply streamed once, nothing else; bounded number of iterations |
| Context window (`core/context_window.go`) | history, `MemorySummary`, `lastSummarizedIdx` | BuildLLMHistory, ShouldSummarize, SummarizeOldest, UpdateSummary | an LLM call under a read lock; what the prompt leaves out | messages are shown or summarised |
| Routing, slash commands, bootstrap (`core/routing.go`, `slash.go`, `bootstrap.go`, `routing/`) | none | choose agent and skills, load documents, search in parallel (30 s) | the append happens outside the lock on one path and inside on two | one context message per bootstrap |
| Dispatcher (`core/dispatcher.go`) | tool table, LRU cache | HandleToolCalls, ValidateRequiredToolUsage, eight tools | tools fail; two callers share the cache; fallback | required tools used; answers come from the right service and query |
| LRU cache (`cache/lru.go`) | map and order | Get, Put, Clear | eviction at capacity | order and map agree; oldest put leaves first |
| Market and scraper tools (`tools/market`, `tools/scraper`) | none | searches with free fallback, quotes, page text | how failures look to the caller | failures are recognised |
| Session store (`store/session_store.go`, `redis/client.go`) | map of 1000 sessions, or Redis | Save, Get, List, Reset, Delete | checks made after the unlock; pointers shared with handlers; 24 h ageing; Redis pipeline not a transaction | a save holds a whole chat or none of it; capacity |
| Event hub (`pubsub/hub.go`), SSE handler | set of channels of ten | Register, Unregister, Broadcast | a slow or leaving reader | never blocks, never sends to a closed channel |
| Providers (`core/provider_mgr.go`, `providers/`) | key list and index | Generate, GenerateStream, key rotation over retries | the index moves under a read lock; timeouts of 5 and 10 minutes | every key is tried |
| Key pools (`core/key_manager.go`, `utils/key_pool.go`, `utils/simple_key_pool.go`) | keys, health, use counts | get, release, rotate, add, remove | `rotateKeys` re-locks; index after removal; empty pool | the load is shared; no request gives up before every key was tried. Only the last is used, by `SimpleGeminiProvider`, which nothing in the repository creates but an example |
| World news (`worldnews/`) | 5-minute report cache, media caches | GetReport, feeds, quotes (CNBC, then Yahoo) | concurrent rebuilds; partial failure of feeds and quotes; market-day arithmetic; live prices in a bulletin of the morning | a report matches its date; what stands in for a failure is said to be that; prices from before the cutoff |
| Document registry (`tools/registry`) | 30-minute document cache | load | errors are cached; concurrent loads store in any order | no document, and no error, lives longer than it should |
| Server (`api/server.go`, `presentation/`) | rate limiter, listeners | serve, shut down | one global limiter; drain | a request under way is answered before the process ends |
| Layered rewrite (`domain/`, `application/`, `di/`, `infrastructure/`) | agents, conversations, container | a second architecture, not used by the server binary | writes under read locks, lost updates | |
| Evaluator, time parser, report files, parsers (`tools/`, `infrastructure/tools`, `scripts/`) | none | pure functions and file formats | precedence, dates | an expression is computed as it is written |
| Frontend (`src/frontend/src`) | current chat, list of chats, generating flag, abort controller, the streamed text, one pending animation frame, the elements of the view | send, stop, new chat, switch, delete, token, done, error, frame | every `await` lets the user act; `fullText` and the current elements are shared by all sends; histories and lists arrive late | while the stop button is shown it stops the latest stream; every send ends; a finished answer is shown whole |
| CLI (`src/Gemini/cmd/gemini-cli`), `src/Claude` | none | a read-answer loop; a sample | | |

Interactions: a handler copies a session out of the store, loads it into the
agent, lets the orchestrator work, copies the agent's history back and saves it.
The orchestrator calls the context window (under `mu`), the provider (without
`mu`, except when it summarises) and the dispatcher (without `mu`; single tools
take it). Everything reports to the hub, which feeds the SSE clients.

`PROJECT.json` lists the hazards with their lines. The properties below are
aimed at them; a hazard without one has a note.

## 2. Modules

| Module | Models | Correspondence |
|---|---|---|
| `ContextWindow` | message type, `context_window.go`, the required-tool rule | pure operators with the names of the functions |
| `Agent` (extends it) | handlers, agent, both loops, tool calls, bootstrap, an ideal chat table | `pc[c]` is where the goroutine of request `c` is, `frame[c]` its locals; one action per section under `mu` or per call outside it |
| `ChatService` | what the API promises to clients that come one at a time | abstract specification; `Agent` implements it with one client |
| `MCAgent` | inputs and replies for TLC | |
| `LRUCache`, `BoundedMap` | `cache/lru.go` and what a cache promises | one action per method (each holds the mutex throughout); `Refresh`, `Insert`, `Evict` are the three paths of `Put` |
| `ToolCache` (composes `LRUCache`) | the three cached web tools called by concurrent requests | lookup, service call and store are separate steps |
| `MCToolCache` | two spellings of a query and a second one | |
| `SessionStore`, `SessionTable` | `store/session_store.go` with its in-memory backend and the handlers around it, and what such a store promises | the table maps a chat to an object; `frame[c].sess` is the object a request works on, `seen` the pointer it found; each section under `memMu` is one action, and the check, the three reads of the copy and the stamp outside it are actions of their own |
| `RedisStore` | the same store with Redis behind it | the keys and the list are apart; each command of a pipeline is an action, and `Break` loses the rest of one; `step[r]` is where request `r` is |
| `EventHub` | `pubsub/hub.go`, `handleSSE` | `channel[s]` is the buffer of stream `s`; a broadcast is one action per stream between taking and giving back `mu` |
| `KeyPool` | `simple_gemini_pool.go` over `simple_key_pool.go` | `GetRoundRobinKey` under the pool's lock, the call without it |
| `Bootstrap` | `BuildBootstrapContext` | two search goroutines, `resultsCh`, the timeout, and the `select` that collects |
| `Server` | `StartServer` and `main` | the main goroutine, the signal goroutine, and a state per connection |
| `ReadThrough` | media caches, document registry; what the report cache promises | look up, fetch, store, one action each |
| `WorldNews` (implements `ReadThrough`) | `GetReport`, `buildReport`, `fetchWorldStockQuotes` | a worker per symbol, the channel, the wait, and the rest of the builder in order |
| `MCServices` | composes `ReadThrough`, `EventHub`, `KeyPool`, `Bootstrap`, `RedisStore` and `Server`, which share no state | a behaviour follows one of them |
| `NewsDigest` | `digest.go`, dates of `service.go` | operators on minutes, with the functions' names |
| `Bulletin` (extends it) | which day's bulletin `GetReport` gives, with which window, and which session it names | one action per request, with a date that `GetAvailableDates` offers or none, while the clock runs |
| `Loops` | the loops that append some elements of a slice | recursive functions, about which one can prove |
| `NewsFeeds` | `rss.go`, publishers and images of `media.go`, the lists of `service.go` | operators on sequences of entries |
| `NewsQuotes` | `market.go`, `cnbc.go`, `keynumbers.go` | a price is named by its instant |
| `Contents` (composes `NewsFeeds` and `NewsQuotes`) | the requests `buildReport` and its workers make for a section, a quote of Yahoo, and of CNBC a stock or a key number | `task` is what is asked for with all that the services answer to it, `answer` is `Pending` or the function's value; which answers are possible are its assumptions |
| `NewsSummary` | `highlights_summary.go`, `highlights_summary_ai.go` | a text is paragraphs of words |
| `GeminiProvider` | `providers/gemini.go` | requests, whole answers, streamed frames |
| `Requests` | what `Contents` and `ProviderCalls` share | one request, answered once |
| `ProviderCalls` (composes `Requests` and `GeminiProvider`) | calls of `GenerateStream` and `Generate` | `task` is a stream of frames, or a chat and the parts of the next answer; what Gemini may answer is its assumption |
| `Evaluator` | the calculator of `tools/tools.go` | the recursive-descent parser, giving trees |
| `MCAlgorithms` | inputs for `Bulletin`, `Contents`, `NewsSummary`, `ProviderCalls` and `Evaluator` | a task is chosen, then answered |
| `MCWorldNews` | three stocks in two tabs | |
| `AgentProofs`, `LRUProofs`, `ToolCacheProofs`, `SessionProofs`, `ReadThroughProofs` | theorems about the module each is named after | |
| `ServicesProofs` | theorems about `Bootstrap`, `EventHub`, `KeyPool` and `RedisStore` | |
| `AlgorithmsProofs` | theorems about `Loops`, `NewsDigest`, `Bulletin`, `Contents` and `ProviderCalls` | |
| `NewsProofs` (extends it) | theorems about `WorldNews` | |

### Abstractions of `Agent`

- A message is its kind, its chat and the tools it calls or answers. A summary is
  the list of messages it was made from. A reply is the tools it calls, whether it
  has any text once it is sanitized and trimmed, and whether it names suspicious dates. A
  reply without text is saved like any other, and nothing of it is streamed.
- An input is the keywords the code looks for in it: does it need research,
  calculation, real-time data; has it digits; is it a greeting, a slash command,
  or something that only begins like one. Of a slash command these describe the
  arguments, which is what the code stores in `userInput`.
- `"search"`, `"calculate"` and `"handoff"` stand for the tools the control flow
  knows, `"other"` for the rest and for any call that fails: it is answered by an
  error text. What tools return does not matter here; `ToolCache` models it.
- `mu` is an RWMutex: read sections of a few statements are one action, guarded by
  "no writer waits" (`RLock`), write sections are one action, guarded by "no
  reader is inside" (`Lock`). The only long read section is the summarizer's LLM
  call; clients inside it are `readers`. A writer that finds readers may announce
  itself (`waiting`), after which no new reader gets in, as in Go.
- `BootstrapContext` after a plain first message appends without `mu`: read and
  write of the slice are two actions (`Route`, `AppendBootstrap`), so that an
  append can be lost.
- The validator takes the read lock for each of its history scans; the model
  reads once. `UpdateSummary` writes under the read lock in one step.
  `EnsureFreshSystemPrompt` at the start of a request is merged into the request's
  first write section; the updater goroutine keeps its own.
- `GetProvider` and the call on the provider are one action, whose outcome is any
  reply or a failure (an error, the stream's timeout, a client that went away).
- The chat table is ideal here: no capacity and no ageing, which `SessionStore`
  models, and no Redis (`RedisStore`).

### Abstractions of `ToolCache`

A result is the service, the query and how the text begins, which is all the code
tests: `SearchGoogle` and `SearchTavily` never return an error text of their own
(they end in `ExecuteFreeSearchFallback`); `ScrapeWeb` returns `LỖI_…`, or page
text, which may begin with anything. The query that real-time data substitutes for
the model's own is one of the queries. Because no search begins with `Lỗi`, the
branch that falls back to Tavily is written in `Settle` and never taken. A key is the
query in lower case without spaces around it (its normal form), an address's too: two
addresses that differ in the case of their path share an entry, in the code and here, and
`RightAnswer` allows it.

### Abstractions of `SessionStore`

A session is the list of the requests whose turns it holds and its `UpdatedAt`;
titles are left out. A request owns the object it was given (request `n` has object
`n`), so that "copy" and "pointer" differ. `GetSession` unlocks before it checks the
age and copies: lookup and check are actions, and the copy is three, for it reads the
session three times (`CopyStruct`, `MakeRoom` for as many messages as there are, and
`CopyMessages`). A reset between two of them leaves room for messages that are not copied any
more: `Lost` stands for such a zero message, and for what a torn read of the slice would
show, since Go calls this a data race. Stamping a session and putting it into the table
are actions too. `ResetSession` goes by chat id, under the lock, and so may empty a session
that is not the one the check was made on. A request that fails, or that only reads
(`GET /api/history`), ends in `Fail`. An id that `POST /api/chats` draws is one nobody
uses. `ListSessions` only reads. The shared agent is not in this module (what it does
to a chat's history is in `Agent`): a request appends one turn. A request ends with the put: what it reads of
its object afterwards (`handlers.go:134`) is not modelled.

### Abstractions of `RedisStore`

A chat is the set of requests whose turns it holds. A request reads the chat in one
command, works on what it read, and writes all of it: `SET` and `SADD` are two actions,
`DEL` and `SREM` two, because a go-redis pipeline is no transaction and the commands of
other connections come between. `Break` is a request that fails before it saves, or a
connection or timeout that takes the rest of the pipeline; the handlers only log that.
`ReadFails` is an error of Redis or of the JSON decoder, which `resolveChatSession` turns
into an empty session. `Expire` drops a key and leaves its id on the list. An id that
`POST /api/chats` draws is new. `ResetSession` in Redis mode is modelled although nothing
calls it there. `wrote`, `unlisted`, `expired` and `readAt` are history: they number the
commands in the order in which Redis runs them, and the properties compare them.

### Abstractions of the other services

- `EventHub`: an event is its number. The keep-alive ping changes nothing. A stream may
  stop reading and may leave at any time, with events in its channel.
- `KeyPool`: a key is its index; any error leads to the next key, as in the code; the
  growing pause between attempts is left out. `before` and `uses` are history. The
  pool's provider, `SimpleGeminiProvider`, is offered by the repository and created by none of
  its programs.
- `Bootstrap`: a search finds something, finds nothing or fails; it may also never end.
- `Server`: a request is under way, answered, or cut off. Streams that never end are
  requests under way. `ShutdownReturns` with requests under way is the 30-second timeout.
- `ReadThrough`: an answer is when it was asked for and whether it is one. Time passes
  in ticks, and no fetch lasts longer than `MaxFetch`, the clients' timeout.
- `WorldNews`: a report is its date, when it was begun, and its tabs, which a stored report
  keeps no longer. Prices, key numbers and news are not in this module: each of the three
  requests to CNBC for key numbers fails by itself and is replaced by a quote that the report
  has already, so none of these failures ends a report, which is all that matters here.
  What a quote of CNBC becomes is in `NewsQuotes`, a section of news in `NewsFeeds`.
- `NewsDigest` and `Bulletin`: an instant is a number of minutes; Vietnam is seven hours ahead,
  New York four or five behind according to `SummerFrom` and `SummerTo`. A bulletin is its
  day, its window and the session it names, which is also the day whose prices Yahoo is
  asked for. CNBC is asked for its last price whatever the day: that is in `NewsQuotes`. The
  cache is left to `WorldNews`. A bulletin asked for before its cutoff names the session that will
  be over by then. A holiday of New York on a weekday counts as a session: the code has no
  calendar of holidays, although `digest.go:25` speaks of the "last regular close".
- `NewsFeeds`: an entry is its story, publisher, words, date and hosts; a feed that fails
  or cannot be parsed is empty. XML and HTML scanning are left out.
- `NewsQuotes`: a price is the instant at which it was the price, which is all that the
  cutoff can be about. An answer of Yahoo has one list of closes; without it the code
  would index an empty list (`worldnews/market.go:121`, `172`, `260`). CNBC's last price
  may be a text that is no number (a dash), which makes the quote a failure. A chart of
  days may have two bars for a session, as in `market_test.go:36`.
- `NewsSummary`: a word is its number, whether it has a decimal point, whether a stop
  ends it. No text reaches the limit of characters. The word limits are constants. For what an
  AI writes no minimum is asked: the code enforces none, though `WORLD_NEWS.md:13` speaks of 800.
- `GeminiProvider`: texts are sequences of tokens, attachments their kinds. API key, model
  name, tool declarations and safety settings are left out. Ids of calls are numbered anew in
  every answer, so they are unique within one only.
- `Evaluator`: trees for values; overflow, the error of a division by zero and the panic of a
  remainder by zero (`tools.go:110`) are left out, and `/` is not among the operators tried.
  A sign before a power, and input that is left over, are read as this parser reads them.

## 3. Runs

| Run | Bounds | Checks |
|---|---|---|
| `agent_serial` | 1 client, 2 chats, 2 requests, 2 iterations, `KeepRecent` 1; 3 inputs (research with digits, a slash command that needs a calculation, an unknown slash command), 6 replies, one of them empty | type invariant; `SessionIsolation`; `ToolCallsAnswered`; `RequiredToolsInSavedChat`; `OneReplyStreamed`; refinement of `ChatService`; `Responds` |
| `agent_concurrent` | 2 clients and the updater, 1 chat, 2 requests, 2 inputs (a plain text and a slash command), 1 iteration, `KeepRecent` 0 so that every history condenses | `HandoffPending`, `LockConsistent`, `RespondsUnlessCycle` |
| `lru` | 4 keys, 2 values, 2 entries, 6 operations | `OrderMatchesItems`, `KeepsLatestPuts`, refinement of `BoundedMap` |
| `tool_cache` | 2 callers, 3 queries of which 2 are the same, 2 entries, 3 calls | `RightAnswer` |
| `sessions` | 2 requests at a time, 4 in all, 3 chats, a table of 2, `MaxAge` 0, clock 0 or 1 | type invariant, `OwnCopies`, `AllOrNothing`, refinement of `SessionTable` |
| `news` | 2 readers, 1 date, 3 symbols in 2 tabs, 3 instants, entries that live for 1 | type invariant, `TabsInOrder`, `EveryReaderAnswered`, refinement of `ReadThrough` |
| `services` | caches: 2 callers, a picture and a document, 4 instants; hub: 2 streams, 2 publishers, buffers of 1, 3 events; pool: 2 requests, 3 keys, 2 rounds, 9 uses; bootstrap: 2 searches; Redis: 1 chat, 3 requests, any expiries; server: 2 connections | `AnswersAreRecent`; `NoSendOnClosed`, `StreamsInOrder`, `BroadcastEnds`; `KeysShared`, `GivesUpLate`; `ContextComplete`, `NothingLeftWaiting`; `TurnsKept`, `StoredIsListed` |
| `algorithms` | for bulletins: 3 weeks with both changes of the clocks in New York, 4 instants to start from, 12 hours between them, the dates offered or none; sections of up to 5 stories with one odd entry in each feed and search; charts of 5 half hours and 3 sessions, one with two bars; quotes of CNBC before and after the cutoff, and unreadable; texts of 5 words; answers of 2 frames of 2 parts; trees of depth 2, strings of 4 tokens | `BulletinDays`, `SectionsSound`, `NewsComplete`, `YahooBeforeCutoff`, `NumbersAtCutoff`, `SummaryFits`, `AnswersKept`, `ReadAsWritten` |
| `isolation`, `lock_cycle`, `shutdown`, `news_prices` | small instances | one documented claim each that the code does not keep, see 5 |

Why the bounds are enough: two requests are what it takes for one to see what the
other left (a summary, a plan, a stored chat) or to meet it; two iterations let a
tool call be followed by a reply and let the loop run out; a second chat makes
isolation meaningful; `KeepRecent` 0 or 1 makes histories of three or four messages
long enough to condense and to cut. Four keys and two entries let an evicted key
come back while two others stay. Three chats for a table of two make it full with one
outside; with `MaxAge` 0 one tick makes everything saved before it old, so that two
requests can find the same chat old and a third can have saved it meanwhile.

Two readers are what it takes to build the same report at once and store in the other order.
Three symbols in two tabs can arrive in an order that is neither that of the tabs nor that
within a tab, and a tab can be left empty. A buffer of one is full after one event, and three
events let one pass by between two that arrive. Three keys, two rounds and two requests let one
request take the turns the other needed. Three requests of one chat are a reader of old turns, a
writer in between and a deletion; chats do not touch each other except in the list, and the
theorems of `ServicesProofs` are for any number of them. In `algorithms` every threshold of the
code (two, three or four items before the archive is asked, the word limits, the number of
sentences in a paragraph, the cutoff) has inputs on both sides of it; the word limits and the
paragraph are scaled down with the texts. The odd entries are those a filter exists for: without
a date, at the window's ends and outside, without a title, twice, from a blog or through an
aggregator.

The instants that bulletins start from in `algorithms` lie on both sides of midnight and of seven in the
morning in Vietnam, and the twelve hours lead over every weekend and both changes.

`CHECK_DEADLOCK FALSE` is set in the runs in which a request can meet the lock
cycle or two clients stop for good: that deadlock is real (`lock_cycle`). It is set too where
there is an end: when events, uses, requests or time are used up, when the server
has exited, and when a task is answered.

### Fairness

`Fairness` is weak fairness of the steps of each request and of the updater's
refresh: goroutines are scheduled, and every wait inside a step is bounded by a
timeout in the code (HTTP clients 30 s, provider 300 s and 10 min, stream
600 s), so a request that can move does. Arrivals, deletions and the updater's
ticker owe nothing. (The export of a report by a Python script, `dispatcher.go:699-704`,
is the one wait without a timeout; that it ends is assumed.) `Responds` is checked where
it can hold: with one client. With condensation and a concurrent writer it does not
(`lock_cycle`), and `agent_concurrent` shows that nothing else is in the way: two requests
that condense, whose summaries fail or not, and the updater contend for the lock, and each
request ends unless a reader holds the lock and waits for a writer that waits for it.

`WorldNews` has weak fairness of each builder and its workers: they are goroutines, and
every fetch has a timeout. In `EventHub` only a publisher inside a broadcast is
fair: a stream need not read nor ever end, and `BroadcastEnds` holds nevertheless. In
`Bootstrap` goroutines go on and the 30 seconds end, but a search need not:
`NothingLeftWaiting` holds although one hangs for ever.

## 4. Proofs

`AgentProofs` (any clients, chats, inputs, replies and bounds, from the
assumptions named in `ContextWindow` and `Agent`):

- `TypeCorrect`: `Spec => []TypeOK`. `TypeOK` is inductive once it says that a
  request at `"respond"` has a call left (`CallOpen`), because its step takes the
  head of that list.
- `HandoffNeverLeftBehind`: `HandoffPending` is inductive with `TypeOK`. Only a
  request inside `HandleToolCalls` sets the plan, and it can leave
  `tools … check` only through `check`, where a set plan is taken. It is true with
  concurrent requests too: whoever is at `check` takes the plan, perhaps another's.
- `LockCorrect`: the readers are exactly the requests in `nested` or `condense`;
  a writer announces itself only where it takes the lock, and it cannot leave
  that place without taking it.
- `OneClientIsolation`: with one client `SessionIsolation` holds. The inductive
  invariant adds that the request's own copy, its snapshots and, from its
  `LoadHistory` on, the shared history are all of its chat. Without
  the one-client assumption it is false (`isolation`).
- `OneClientOneReply`: `OneReplyStreamed` for one client. What a request owes (`Owed`) is
  inductive: unanswered calls belong to the current reply, and a handoff plan was set by a reply
  with calls, so an iteration that is followed by another has sent nothing; and a final reply
  without text sends nothing either. With a second client the plan may be another's and the text
  is sent.
- `OneClientToolsUsed`: `RequiredToolsInSavedChat` for one client. The rule looks at the whole
  chat, so that a tool used in an earlier turn counts. `Vetted` follows a reply from the check
  to the save: the shared `userInput` is the request's own from its first section on, and the
  history the check read only grows (`RequiredAppend`).
- `OneClientCallsAnswered`: `ToolCallsAnswered` for one client, whose calls of a warned copy
  are excepted because the code answers no copy (see 5). `AnsweredUpTo(h, todo)`
  says that the answers to come would complete `h`; a reply opens its calls, a response
  closes the first of them (`AnsweredReply`, `AnsweredCall`), and with nothing to do
  the history is complete. `Placed` says where the reply in hand stands, so that a response
  belongs to it and a copy follows the last of its responses (`Paired`).
- `OneClientImplementsService`: with one client `Agent` implements `ChatService`.
  `Extending` says that the shared history, and each snapshot that is used later, is what
  the chat held followed by messages of this chat, and that a reply without calls, once
  appended, is the last of them; so the only step that stores (`SaveSession`) is `Answer`
  of `ChatService`, the ends without a save are `Fail`, and all others stutter.

`LRUProofs` (any keys, values, size at least 1, any number of operations):
`CacheTypeCorrect`, `OrderCorrect`, `LatestPutsKept` and
`CacheImplementsBoundedMap`. `KeepsLatestPuts` is not inductive: an eviction removes
the head of the order, so one must know that the order is sorted by last put
(`OrderSorted`), that no put is later than the clock (`NotLater`), and that the order
lists the keys exactly once (`OrderMatchesItems`). The refinement needs the last of
these to know that a full order means a full map.

`SessionProofs` (any chats, clients, table size and age limit, any number of
requests): `StoreTypeCorrect`, `NoSharedSessions`, `SavedChatsWhole` and
`StoreImplementsSessionTable`.
`OwnCopies` needs `Locals` (a request under way has an object no younger than the last
request, so the next one is nobody's) and makes the refinement work: what a
request does to its own object cannot show, because the table does not hold it.
`Capacity` carries the bound of the abstract `Save` from step to step.
`SavedChatsWhole` (`AllOrNothing`) needs what each place in a request knows of its own
object and of the one it found (`Knows`): nobody works on the object found (`Apart`), so
it can only be emptied or grow old, and both stay so. Between the reads of the copy `Knows`
says what each has taken: the whole chat, its length, or nothing.

`ToolCacheProofs` (any callers, queries, normal forms and cache size): `AnswersAreRight`
follows each call from its start (`Asks`: the service is the tool's own, or Tavily for
Google; `Holds`: the result it has is to its query), and every entry answers its key
(`Entries`). `PutEntries` shows that a put keeps this whatever it evicts.
`ToolsImplementCache`: a step of a tool call is one operation of the cache or none, so that
all that `LRUProofs` proves holds of the shared cache (`SharedCacheBounded`).

`ServicesProofs`, on the first context (`ContextAlwaysComplete`): an answer
in `resultsCh` is that of a search that is over, one of each (`ChannelSound`); what the
request has taken is in the channel no more (`HasSound`); and without the timeout
the searches that are over are in the channel or taken (`NoneLost`).

On the hub (any streams, publishers, buffer size and number of events): with `Locked` (a
publisher that has streams to offer to holds `mu`, and they are registered) `NeverSendsOnClosed`
is inductive, because a stream closes its channel under `mu`. `EventsInOrder` adds that the
event under way is the latest one (`Latest`): two broadcasts are never under way at once.

On the pool (any requests; `KeysCount`, `MaxRetries` natural numbers):
the keys before the index were used once more than those behind it (`Balanced`), which
bounds their difference. `GivesUpAfterAllKeys` counts the turns since a request began as
rounds and rest, so that enough attempts mean whole rounds whoever took them.

On Redis (any chats, any number of requests): `SavedTurnsKept` is inductive with
two facts about single requests: a turn or a creation that has not written yet is alone in
having its number in any chat (`AloneInv`), and a chat request that is about to write has read
every turn that was there when it read (`ReadInv`). `StoredChatsListed` needs
`SavedInv`: of the requests that wrote a stored chat one was last, and nothing deleted or
expired the chat since. The history variables only grow (`Histories`), which orders the
events of different requests.

`ReadThroughProofs` (any keys, callers, life and fetch times): an entry is no older than
when it expires allows (`SoundEntry`), a fetch under way began no longer ago than
`MaxFetch` (`SoundCall`), and both together bound what an answer can say.

`AlgorithmsProofs` starts with the calendar (any instant and day, whatever the rules of summer
time): the windows divide time (`EveryInstantInOneDigest`), a window ends on its own
day (`WindowEndsOnItsDay`), and the dates offered are those of their bulletins
(`DatesAlwaysOffered`). `OneAfterTheOther` compares the bulletins of two days that follow each
other, over weekends and whatever the clocks in New York do in between; a bulletin is always
some day's (`BulletinOf`), and so `BulletinsKeepTheirDays`.

Then the contents (any number of feeds, entries, bars and bodies; any times). A request is
answered once, with its function's value (`ContentsInv`), so the theorems are about the functions,
and those are loops. The prover has no induction over data: `UpTo` gets it for one range of numbers
from the least counterexample (`WellFoundedInduction`). On it rest `Invariance`, a loop invariant
for a function of the rounds, and `Iterates`, that the recursive function of such a loop is defined.

- `Kept` is what a loop collects that appends some elements: `RoundsExist` shows that its function is
  defined and `KeptLists` that it lists the chosen places, all of them and in order.
- `YahooAlwaysBeforeCutoff`: the bars until the cutoff are bars of the chart in their order
  (`FilteredBars`), so the last of them bounds the price and the one before it the price that it
  is compared with. `PriceTimes` is about the time that is shown, whose latest case, the close of the
  quote day's session, is over at the cutoff (`SessionsOverAtCutoff`, from the calendar). Labels of
  different sessions go up because each is tied to its session's day (`SessionLabel`), and the
  market's own label, which is cut at 06:59, still comes after that of the bar before it
  (`MarketLabel`, `LabelsGoUp`). Two bars of one session have one label: that the labels go up is
  said, by the property, of charts without such.
- `NumbersAlwaysAtCutoff`: what becomes of a quote of CNBC (`Resolved`, `LineEnds`), and of late gold
  (`CutoffPrice`, with the minute found by `MinutePrice`). It says nothing of the other prices'
  age, which the code does not bound (`news_prices`).
- `SectionsAlwaysSound`: the double loop of `sortNewsByDateDesc` is a sort by exchanges. The
  invariant of the inner loop (`ComparedUpTo`) says that the place of the round holds the
  newest of those compared and that only later places have changed, that of the outer loop
  (`SortedUpTo`) that the places before are sorted and no older than what follows, and no
  exchange changes which items there are (`SameElements`). In `dedupeNews` the first item of a title
  is the least place that has it (`Deduped`), which makes as many titles as items
  (`TitlesCounted`). `ArticleDay` ties the clock that is shown to the day.
- `NewsAlwaysComplete`: `Merged` and `ArchiveFound` follow the titles through merging, filtering
  and dropping doubles; `Enriched` and `ImagesSpent` say that what is left of the limit is the limit
  less the images given so far, which never goes below zero, so that an item without an image is
  one after which nothing is left, or has no page to take it from.

The theorems about the contents assume what `Contents` says the services may answer
(`SectionsAssumption`, `QuotesAssumption`, `NumbersAssumption`): bars in the order of their
times; the price before a chart no later than its bars; the market price of an index or a stock
no older than its bars, where it is from before the cutoff; as many answers as there are feeds.
TLC checks them for the inputs of `algorithms`. Of CNBC nothing is assumed but the form. That no
price is 0 is a premise of the property: the code takes a 0 for a missing price.

Last the answers of Gemini (any frames, parts and chats). These functions are written with
`FoldLeft`, which the library defines by a fold over a set of places: `FoldExists` and `FoldPrefixes` show
once, for any step that stays within a set, that this is the loop over the places in their order.

- `AnswersAlwaysKept`, streamed: `StreamOf` ties what has been read of a stream to what has been shown of it
  and to the answer put together of the parts seen. A part keeps it (`PartSeen`), so a frame
  does (`FrameSeen`), and frames that cannot be read change nothing (`StreamSeen`). The calls are
  numbered as they come (`CallsNumbered`), which makes their ids differ even where one tool is
  called twice.
- `AnswersAlwaysKept`, going back: what is kept of two lists put together is what is kept of each
  (`KeptJoin`), so the parts of a kind are those of the text, the calls and the lone signature
  (`SentKinds`), and the last two turns sent are the answer and its results (`TurnsAdded`).

They assume the form of an answer and of a saved message (`StreamsAssumption`, `BacksAssumption`), and
nothing of what Gemini says or where it cuts it.

`NewsProofs` is about the report (any readers, dates, tabs, symbols and times; no symbol is defined twice):

- `NewsTyped`: `TypeOK` is inductive with its last conjunct, that only a reader in
  `"stocks"` has workers or answers waiting. One lemma per action says what it does to its
  reader (`GatherMoves` and its like), and the others are left alone (`Others`).
- `TabsAlwaysInOrder`: `TabsOrdered` composes `KeptLists` for the tabs and for the
  instruments of each tab. The order in which the workers answered does not occur in
  it; the tabs stay as they are until the report is built.
- `NewsImplementsReadThrough`: the end of the wait without the S&P 500, and the end of the
  futures without WTI, are a failed `Fetch`; `FinishReport` is the successful one; what comes
  between stutters. `Progress` (a report under way was asked for when its building began, and
  is no answer yet) is what makes the mapped calls equal. `ReportsAlwaysRecent` is what
  `ReadThroughProofs` then says of reports.

Only model-checked: liveness (out of the prover's reach) and two properties of `algorithms`.
`ReadAsWritten` is about recursive operators, with which the prover cannot work. `SummaryFits` is about
a dozen functions on paragraphs (dropping the empty ones with `SelectSeq`, of which the prover knows
nothing, cutting sentences, grouping, trimming and padding them); the way is open, with the folds and
loops of `AlgorithmsProofs`, and has not been gone.

## 5. Where code and documents differ

| Run | Says | Does |
|---|---|---|
| `isolation` | "Request serialization (requestMu)" (`src/docs/ARCHITECTURE.md:32`) | there is no `requestMu`; concurrent requests mix their chats |
| `lock_cycle` | "eliminating the previous deadlock risk from nested … locking" (`core/agent.go:22`) | `GetProvider` read-locks inside a read lock |
| `shutdown` | "Graceful shutdown on SIGINT/SIGTERM" (`api/server.go:168`; also `src/docs/RUNBOOK.md:115`) | `ListenAndServe` returns at once, `StartServer` and `main` with it, and the process exits while requests are being answered |
| `news_prices` | "giá chốt trước 07:00 GMT+7", prices closed before 07:00 (`worldnews/service.go:166`) | CNBC's last price is shown in any bulletin, with its time set back to 06:59 (`cnbc.go:262`); only gold is priced again |

Met on the way and not given a run:

- "Cập nhật lại message", update the message (`core/orchestrator.go:283`): a reply with suspicious
  dates is not updated but appended again, and where it makes calls nothing answers the second
  copy's (286; the blocking loop likewise, 420). `ToolCallsAnswered` excepts exactly these.
- "Returns error if required tools are missing when they should be used"
  (`core/dispatcher.go:171`): with two requests at once the input that is checked
  (`core/orchestrator.go:391`) may be the other's. `RequiredToolsInSavedChat` holds, and is
  checked and proved, for one client.
- "retrieves a session by ID with proper isolation" (`store/session_store.go:83`): a reset between
  the reads of the copy (101-106) leaves empty messages in place of the chat's, which are then
  saved. `AllOrNothing` names this outcome and allows it after such a reset only.
- "CNBC (chứng khoán, Brent, vàng) + Yahoo Finance (WTI, DXY)" (`worldnews/service.go:166`): where CNBC
  fails for the S&P 500 twice, the price is Yahoo's (`stocks.go:127-131`) and is labelled
  CNBC's (`service.go:180`).
- "Least Recently Used eviction policy" (`src/docs/CONTEXT.md:71`): a read does not count
  as use (`Get` of `LRUCache`); what the cache keeps is the latest puts (`KeepsLatestPuts`).
- "Middle messages are replaced by the summary." (`src/docs/adr/005-context-summarization.md:19`):
  below the token limit they are dropped without one (`BuildLLMHistory` of `ContextWindow`).
- "Must be called with a.mu held (write lock)." (`core/agent.go:242`): the first message's
  bootstrap appends without it (`Route` and `AppendBootstrap` of `Agent`).
- "Fallback to tavily if google fails" (`core/dispatcher.go:408`): a failed search is not
  recognised and is cached; a failed scrape (`LỖI_…`) is cached for good, because the
  test looks for `Lỗi` (`ToolCache`).
- `LoadHistory` (`core/agent.go:296`) keeps the summary of the previous chat.
- A report without Brent shows the price of WTI under the name of Brent
  (`worldnews/service.go:129`).
- The calculator does not look at what follows a complete expression, so that `2^3^2` is
  read as `2^3` (`Evaluator`), and breaking and general news with enough items are not
  rid of doubles as the stock section is (`NewsFeeds`).

## 6. Plan

Done: the agent core, the LRU and tool caches, both backends of the session store, the
hub, the key pool, the bootstrap search, the server's end, the world-news service and its
algorithms, the document registry, the provider's requests and answers, the calculator.

What could follow:

1. A proof of `SummaryFits`.
2. `ProviderManager`'s choice of key and the rate limiter, each as small as `KeyPool`.
3. `ChatPage`: one action per event handler and per continuation after an `await`.

### Not modelled

- The frontend: its handlers run between awaits, and a history or a list that arrives late
  can be shown in the wrong chat; but no document says what the view must hold.
- The rate limiter and middleware; the key pools of `core/key_manager.go` and
  `utils/key_pool.go` and the time parser `tools/time_parser.go`, which nothing
  calls; `buildQuickHighlights`, unused.
- Which agent, skills and market queries a message leads to: tables of keywords, with no
  promise beyond themselves.
- File formats (attachments, reports), HTML and JSON parsing, logging, configuration: no
  state a checker could explore.
- The layered rewrite under `domain/`, `application/`, `di/` and `infrastructure/`: the
  program that serves the frontend does not use it, and `cmd/gemini-server` only
  demonstrates it.
