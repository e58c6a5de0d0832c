----------------------------- MODULE ToolCache -----------------------------
(***************************************************************************)
(* The three tools of core/dispatcher.go that read the web through one     *)
(* LRUCache: financial_research, tavily_search and financial_scrape, called *)
(* by requests that run at the same time.  Looking up, asking the service  *)
(* and storing its answer are separate steps; the cache's mutex is free in *)
(* between.                                                                *)
(***************************************************************************)
EXTENDS Naturals, Sequences

CONSTANTS
    Callers,      \* request goroutines
    Queries,      \* queries and URLs as they are written
    Names,        \* the same, trimmed and in lower case
    Normal,       \* Queries -> Names: ToLower(TrimSpace(query))
    Idle,         \* the call of a goroutine that calls no tool
    MaxSize,      \* maxCacheEntries
    MaxCalls      \* bound: tool calls in one behaviour

ASSUME NormalAssumption == Normal \in [Queries -> Names]
ASSUME CallsAssumption == MaxCalls \in Nat
ASSUME SizeAssumption == MaxSize \in Nat \ {0}

Sources == {"google", "tavily", "scrape"}
FirstSource == [financial_research |-> "google", tavily_search |-> "tavily",
                financial_scrape |-> "scrape"]

\* How what a service returns begins.  SearchGoogle and SearchTavily turn
\* every error of their own into a free search, which has results or says
\* "Khong tim thay"; ScrapeWeb returns text of the page, whatever that begins
\* with, or "LOI_...".
Beginnings(source) ==
    {"text"} \cup IF source = "scrape" THEN {"Loi", "LOI_"} ELSE {"Khong tim thay"}

Results == [source : Sources, query : Queries,
            begins : {"text", "Loi", "LOI_", "Khong tim thay"}]

VARIABLES
    items, order, clock, lastPut,   \* the cache
    pc, call,                                \* each caller's step and locals
    calls                                    \* tool calls so far

cacheVars == <<items, order, clock, lastPut>>
vars == <<cacheVars, pc, call, calls>>

\* A call looks the cache up once and stores at most one answer.
Cache == INSTANCE LRUCache WITH
    Keys <- Sources \X Names, Values <- Results, MaxOps <- 2 * MaxCalls

Calls == [tool : DOMAIN FirstSource, query : Queries, source : Sources,
          result : Results \cup {Idle}]

TypeOK ==
    /\ Cache!TypeOK
    /\ pc \in [Callers -> {"idle", "lookup", "ask", "settle", "answered"}]
    /\ call \in [Callers -> Calls \cup {Idle}]
    /\ calls \in 0 .. MaxCalls

Init ==
    /\ Cache!Init
    /\ pc = [c \in Callers |-> "idle"]
    /\ call = [c \in Callers |-> Idle]
    /\ calls = 0

\* (Mutant: the key does not name the service.)
CacheKeyWithoutPrefix(source, query) == <<"google", Normal[query]>>
CacheKey(source, query) == <<source, Normal[query]>>

Goto(c, from, to) == pc[c] = from /\ pc' = [pc EXCEPT ![c] = to]

\* The handler settles on a query: the model's argument, or the plan made
\* from the user's input if that asks for real-time data.
Start(c) ==
    /\ calls < MaxCalls /\ calls' = calls + 1
    /\ Goto(c, "idle", "lookup")
    /\ \E tool \in DOMAIN FirstSource, query \in Queries :
           call' = [call EXCEPT ![c] =
               [tool |-> tool, query |-> query, source |-> FirstSource[tool],
                result |-> Idle]]
    /\ UNCHANGED cacheVars

Key(c) == CacheKey(call[c].source, call[c].query)

Hit(c) ==
    /\ Goto(c, "lookup", "answered")
    /\ Key(c) \in DOMAIN items
    /\ Cache!Get(Key(c))
    /\ call' = [call EXCEPT ![c].result = items[Key(c)]]
    /\ UNCHANGED calls

Miss(c) ==
    /\ Goto(c, "lookup", "ask")
    /\ Key(c) \notin DOMAIN items
    /\ Cache!Get(Key(c))
    /\ UNCHANGED <<call, calls>>

\* SearchGoogle, SearchTavily, ScrapeWeb.
Ask(c) ==
    /\ Goto(c, "ask", "settle")
    /\ \E begins \in Beginnings(call[c].source) :
           call' = [call EXCEPT
               ![c].result = [source |-> call[c].source, query |-> call[c].query,
                              begins |-> begins]]
    /\ UNCHANGED <<cacheVars, calls>>

\* strings.HasPrefix(result, "Lỗi") || strings.HasPrefix(result, "Error")
LooksFailed(result) == result.begins \in {"Loi", "Error"}

\* A usable answer is stored.  Otherwise financial_research falls back from
\* Google to Tavily, and the other tools return what they have.
Settle(c) ==
    /\ pc[c] = "settle"
    /\ IF ~LooksFailed(call[c].result)
       THEN /\ Cache!Put(Key(c), call[c].result)
            /\ Goto(c, "settle", "answered") /\ UNCHANGED call
       ELSE /\ IF call[c].tool = "financial_research" /\ call[c].source = "google"
               THEN /\ Goto(c, "settle", "ask")
                    /\ call' = [call EXCEPT ![c].source = "tavily"]
               ELSE Goto(c, "settle", "answered") /\ UNCHANGED call
            /\ UNCHANGED cacheVars
    /\ UNCHANGED calls

Return(c) ==
    /\ Goto(c, "answered", "idle")
    /\ call' = [call EXCEPT ![c] = Idle]
    /\ UNCHANGED <<cacheVars, calls>>

Done ==
    /\ calls = MaxCalls /\ \A c \in Callers : pc[c] = "idle"
    /\ UNCHANGED vars

Next ==
    \/ \E c \in Callers :
          \/ Start(c) \/ Hit(c) \/ Miss(c) \/ Ask(c) \/ Settle(c) \/ Return(c)
    \/ Done

Spec == Init /\ [][Next]_vars

-----------------------------------------------------------------------------
\* Whoever stored it, and whatever was evicted meanwhile: an answer comes from
\* the service the tool stands for, and to a query of the same normal form.
RightAnswer ==
    \A c \in Callers : pc[c] = "answered" =>
        /\ \/ call[c].result.source = FirstSource[call[c].tool]
           \/ call[c].tool = "financial_research" /\ call[c].result.source = "tavily"
        /\ Normal[call[c].result.query] = Normal[call[c].query]
=============================================================================
