--------------------------- MODULE ToolCacheProofs ---------------------------
(***************************************************************************)
(* Tool calls that share the cache: what TLAPS proves of ToolCache for any  *)
(* callers, queries, way of normalising them and size of the cache.  LRU is *)
(* the cache with what LRUProofs proves of it.                              *)
(***************************************************************************)
EXTENDS ToolCache, TLAPS

LRU == INSTANCE LRUProofs WITH
    Keys <- Sources \X Names, Values <- Results, MaxOps <- 2 * MaxCalls

-----------------------------------------------------------------------------
(* The invariant.                                                           *)

\* An entry answers its key: it is from the key's service and to a query of the
\* key's normal form.
Entries ==
    \A k \in DOMAIN items :
        items[k] \in Results /\ k = <<items[k].source, Normal[items[k].query]>>

\* A call asks the service of its tool, or Tavily in the place of Google.
Asks(c) ==
    \/ call[c].source = FirstSource[call[c].tool]
    \/ call[c].tool = "financial_research" /\ call[c].source = "tavily"

\* The answer that a call holds is to what it asked.
Holds(c) ==
    /\ call[c].result \in Results
    /\ call[c].result.source = call[c].source
    /\ Normal[call[c].result.query] = Normal[call[c].query]

SoundCall(c) ==
    /\ pc[c] # "idle" => call[c] \in Calls /\ Asks(c)
    /\ pc[c] \in {"settle", "answered"} => Holds(c)

Typed ==
    /\ pc \in [Callers -> {"idle", "lookup", "ask", "settle", "answered"}]
    /\ call \in [Callers -> Calls \cup {Idle}]
    /\ calls \in 0 .. MaxCalls

IInv == Typed /\ Entries /\ \A c \in Callers : SoundCall(c)

-----------------------------------------------------------------------------
\* What a caller looks up or stores under is a key of the cache.
LEMMA KeyType ==
    ASSUME NEW c \in Callers, call[c] \in Calls
    PROVE  /\ Key(c) = <<call[c].source, Normal[call[c].query]>>
           /\ Key(c) \in Sources \X Names
BY NormalAssumption DEF Key, CacheKey, Calls

\* A step of one caller leaves the others as they were.
LEMMA Alone ==
    ASSUME IInv, NEW c \in Callers, NEW to, pc' = [pc EXCEPT ![c] = to],
           NEW new \in Calls \cup {Idle}, call' = [call EXCEPT ![c] = new],
           to \in {"idle", "lookup", "ask", "settle", "answered"},
           calls' \in 0 .. MaxCalls, Entries', SoundCall(c)'
    PROVE  IInv'
<1>1. Typed'
  BY DEF IInv, Typed
<1>2. ASSUME NEW d \in Callers PROVE SoundCall(d)'
  <2>1. CASE d = c
    BY <2>1
  <2>2. CASE d # c
    <3>1. pc'[d] = pc[d] /\ call'[d] = call[d]
      BY <2>2 DEF IInv, Typed
    <3> QED
      BY <3>1 DEF IInv, SoundCall, Asks, Holds
  <2> QED
    BY <2>1, <2>2
<1> QED
  BY <1>1, <1>2 DEF IInv

\* Whatever Put throws out, what it keeps was there or is the new entry.
LEMMA PutEntries ==
    ASSUME Entries, NEW key, NEW value \in Results,
           key = <<value.source, Normal[value.query]>>, Cache!Put(key, value)
    PROVE  Entries'
<1>1. \E kept \in SUBSET DOMAIN items :
         items' = [k \in kept \cup {key} |-> IF k = key THEN value ELSE items[k]]
  BY DEF Cache!Put, Cache!Refresh, Cache!Insert, Cache!Evict, Cache!Updated
<1> QED
  BY <1>1 DEF Entries

LEMMA StartStep ==
    ASSUME IInv, NEW c \in Callers, Start(c)
    PROVE  IInv'
<1>1. PICK tool \in DOMAIN FirstSource, query \in Queries :
         call' = [call EXCEPT ![c] = [tool |-> tool, query |-> query,
                                      source |-> FirstSource[tool], result |-> Idle]]
  BY DEF Start
<1> DEFINE new == [tool |-> tool, query |-> query, source |-> FirstSource[tool], result |-> Idle]
<1>2. new \in Calls
  BY DEF Calls, FirstSource, Sources
<1>3. pc' = [pc EXCEPT ![c] = "lookup"] /\ pc'[c] = "lookup" /\ call'[c] = new
      /\ calls' \in 0 .. MaxCalls /\ items' = items
  BY <1>1, CallsAssumption DEF Start, Goto, IInv, Typed, cacheVars
<1>4. SoundCall(c)'
  BY <1>2, <1>3 DEF SoundCall, Asks
<1>5. Entries'
  BY <1>3 DEF IInv, Entries
<1> QED
  BY <1>1, <1>2, <1>3, <1>4, <1>5, Alone

LEMMA HitStep ==
    ASSUME IInv, NEW c \in Callers, Hit(c)
    PROVE  IInv'
<1> DEFINE new == [call[c] EXCEPT !.result = items[Key(c)]]
<1>1. /\ pc[c] = "lookup" /\ Key(c) \in DOMAIN items /\ items' = items /\ calls' = calls
      /\ pc' = [pc EXCEPT ![c] = "answered"] /\ call' = [call EXCEPT ![c] = new]
  BY DEF Hit, Goto, Cache!Get
<1>2. call[c] \in Calls /\ Asks(c)
  BY <1>1 DEF IInv, SoundCall
<1>3. items[Key(c)] \in Results /\ Key(c) = <<items[Key(c)].source, Normal[items[Key(c)].query]>>
  BY <1>1 DEF IInv, Entries
<1>4. /\ new \in Calls /\ new.tool = call[c].tool /\ new.query = call[c].query
      /\ new.source = call[c].source /\ new.result = items[Key(c)]
  BY <1>2, <1>3 DEF Calls
<1>5. pc'[c] = "answered" /\ call'[c] = new /\ calls' \in 0 .. MaxCalls
  BY <1>1 DEF IInv, Typed
<1>6. new.result.source = new.source /\ Normal[new.result.query] = Normal[new.query]
  BY <1>2, <1>3, <1>4, KeyType
<1> HIDE DEF new
<1>7. SoundCall(c)'
  BY <1>2, <1>3, <1>4, <1>5, <1>6 DEF SoundCall, Asks, Holds
<1>8. Entries'
  BY <1>1 DEF IInv, Entries
<1> QED
  BY <1>1, <1>4, <1>5, <1>7, <1>8, Alone

LEMMA MissStep ==
    ASSUME IInv, NEW c \in Callers, Miss(c)
    PROVE  IInv'
<1>1. /\ pc[c] = "lookup" /\ items' = items /\ calls' = calls /\ call' = call
      /\ pc' = [pc EXCEPT ![c] = "ask"]
  BY DEF Miss, Goto, Cache!Get
<1>2. pc'[c] = "ask" /\ call' = [call EXCEPT ![c] = call[c]] /\ call[c] \in Calls \cup {Idle}
      /\ calls' \in 0 .. MaxCalls
  BY <1>1 DEF IInv, Typed
<1>3. SoundCall(c)'
  BY <1>1, <1>2 DEF IInv, SoundCall, Asks
<1>4. Entries'
  BY <1>1 DEF IInv, Entries
<1> QED
  BY <1>1, <1>2, <1>3, <1>4, Alone

LEMMA AskStep ==
    ASSUME IInv, NEW c \in Callers, Ask(c)
    PROVE  IInv'
<1>1. PICK begins \in Beginnings(call[c].source) :
         call' = [call EXCEPT ![c].result = [source |-> call[c].source, query |-> call[c].query,
                                             begins |-> begins]]
  BY DEF Ask
<1> DEFINE answer == [source |-> call[c].source, query |-> call[c].query, begins |-> begins]
           new == [call[c] EXCEPT !.result = answer]
<1>2. /\ pc[c] = "ask" /\ items' = items /\ calls' = calls
      /\ pc' = [pc EXCEPT ![c] = "settle"] /\ call' = [call EXCEPT ![c] = new]
  BY <1>1 DEF Ask, Goto, cacheVars
<1>3. call[c] \in Calls /\ Asks(c)
  BY <1>2 DEF IInv, SoundCall
<1>4. answer \in Results
  BY <1>3 DEF Calls, Results, Beginnings
<1>5. /\ new \in Calls /\ new.tool = call[c].tool /\ new.query = call[c].query
      /\ new.source = call[c].source /\ new.result = answer
  BY <1>3, <1>4 DEF Calls
<1>6. pc'[c] = "settle" /\ call'[c] = new /\ calls' \in 0 .. MaxCalls
  BY <1>2 DEF IInv, Typed
<1>7. answer.source = call[c].source /\ answer.query = call[c].query
  OBVIOUS
<1> HIDE DEF new, answer
<1>8. SoundCall(c)'
  BY <1>3, <1>4, <1>5, <1>6, <1>7 DEF SoundCall, Asks, Holds
<1>9. Entries'
  BY <1>2 DEF IInv, Entries
<1> QED
  BY <1>2, <1>5, <1>6, <1>8, <1>9, Alone

LEMMA SettleStep ==
    ASSUME IInv, NEW c \in Callers, Settle(c)
    PROVE  IInv'
<1>1. pc[c] = "settle" /\ call[c] \in Calls /\ Asks(c) /\ Holds(c) /\ calls' = calls
      /\ calls' \in 0 .. MaxCalls /\ call = [call EXCEPT ![c] = call[c]]
  BY DEF Settle, IInv, SoundCall, Typed
<1>2. CASE ~LooksFailed(call[c].result)
  <2>1. Cache!Put(Key(c), call[c].result) /\ pc' = [pc EXCEPT ![c] = "answered"] /\ call' = call
    BY <1>2 DEF Settle, Goto
  <2>2. Key(c) = <<call[c].result.source, Normal[call[c].result.query]>>
    BY <1>1, KeyType DEF Holds
  <2>3. Entries'
    BY <1>1, <2>1, <2>2, PutEntries DEF IInv, Holds
  <2>4. SoundCall(c)'
    BY <1>1, <2>1 DEF SoundCall, Asks, Holds
  <2> QED
    BY <1>1, <2>1, <2>3, <2>4, Alone
<1>3. CASE LooksFailed(call[c].result)
  <2>1. Entries'
    BY <1>3 DEF Settle, cacheVars, IInv, Entries
  <2>2. CASE call[c].tool = "financial_research" /\ call[c].source = "google"
    <3> DEFINE new == [call[c] EXCEPT !.source = "tavily"]
    <3>1. pc' = [pc EXCEPT ![c] = "ask"] /\ call' = [call EXCEPT ![c] = new]
      BY <1>3, <2>2 DEF Settle, Goto
    <3>2. new \in Calls /\ new.tool = "financial_research" /\ new.source = "tavily"
      BY <1>1, <2>2 DEF Calls, Sources
    <3>3. pc'[c] = "ask" /\ call'[c] = new
      BY <3>1 DEF IInv, Typed
    <3> HIDE DEF new
    <3>4. SoundCall(c)'
      BY <3>2, <3>3 DEF SoundCall, Asks
    <3> QED
      BY <1>1, <2>1, <3>1, <3>2, <3>4, Alone
  <2>3. CASE ~(call[c].tool = "financial_research" /\ call[c].source = "google")
    <3>1. pc' = [pc EXCEPT ![c] = "answered"] /\ call' = call
      BY <1>3, <2>3 DEF Settle, Goto
    <3>2. SoundCall(c)'
      BY <1>1, <3>1 DEF SoundCall, Asks, Holds
    <3> QED
      BY <1>1, <2>1, <3>1, <3>2, Alone
  <2> QED
    BY <2>2, <2>3
<1> QED
  BY <1>2, <1>3

LEMMA ReturnStep ==
    ASSUME IInv, NEW c \in Callers, Return(c)
    PROVE  IInv'
<1>1. /\ pc' = [pc EXCEPT ![c] = "idle"] /\ call' = [call EXCEPT ![c] = Idle]
      /\ items' = items /\ calls' = calls
  BY DEF Return, Goto, cacheVars
<1>2. pc'[c] = "idle" /\ calls' \in 0 .. MaxCalls
  BY <1>1 DEF IInv, Typed
<1>3. SoundCall(c)' /\ Entries'
  BY <1>1, <1>2 DEF SoundCall, IInv, Entries
<1> QED
  BY <1>1, <1>2, <1>3, Alone

LEMMA InitInv == Init => IInv
<1> SUFFICES ASSUME Init PROVE IInv
  OBVIOUS
<1>1. Typed
  BY CallsAssumption DEF Init, Typed
<1>2. Entries
  BY DEF Init, Cache!Init, Cache!Empty, Entries
<1>3. \A c \in Callers : SoundCall(c)
  BY DEF Init, SoundCall
<1> QED
  BY <1>1, <1>2, <1>3 DEF IInv

LEMMA NextInv == IInv /\ [Next]_vars => IInv'
<1> SUFFICES ASSUME IInv, [Next]_vars PROVE IInv'
  OBVIOUS
<1>1. ASSUME NEW c \in Callers,
             Start(c) \/ Hit(c) \/ Miss(c) \/ Ask(c) \/ Settle(c) \/ Return(c)
      PROVE  IInv'
  BY <1>1, StartStep, HitStep, MissStep, AskStep, SettleStep, ReturnStep
<1>2. CASE UNCHANGED vars
  BY <1>2 DEF vars, cacheVars, IInv, Typed, Entries, SoundCall, Asks, Holds
<1> QED
  BY <1>1, <1>2 DEF Next, Done

\* dispatcher.go: however the calls of several requests interleave and whatever the
\* cache threw out meanwhile, a tool's answer is from a service that the tool stands
\* for and to a query of the same normal form.
THEOREM AnswersAreRight == Spec => []RightAnswer
<1>1. IInv => RightAnswer
  BY DEF IInv, SoundCall, Asks, Holds, RightAnswer
<1> QED
  BY InitInv, NextInv, <1>1, PTL DEF Spec

-----------------------------------------------------------------------------
(* The tools as users of the cache.                                         *)

\* One step of a tool call is one operation of the cache, or none.
LEMMA StepUsesCache == IInv /\ [Next]_vars => [LRU!Next]_(LRU!vars)
<1> SUFFICES ASSUME IInv, [Next]_vars PROVE [LRU!Next]_(LRU!vars)
  OBVIOUS
<1>1. ASSUME NEW c \in Callers, Hit(c) \/ Miss(c) PROVE LRU!Next
  <2>1. Key(c) \in Sources \X Names
    BY <1>1, KeyType DEF Hit, Miss, Goto, IInv, SoundCall
  <2>2. LRU!Get(Key(c))
    BY <1>1 DEF Hit, Miss, Cache!Get, Cache!Log, LRU!Get, LRU!Log
  <2> QED
    BY <2>1, <2>2 DEF LRU!Next
<1>2. ASSUME NEW c \in Callers, Settle(c) PROVE LRU!Next \/ UNCHANGED cacheVars
  <2>1. Key(c) \in Sources \X Names /\ call[c].result \in Results
    BY <1>2, KeyType DEF Settle, IInv, SoundCall, Holds
  <2>2. CASE ~LooksFailed(call[c].result)
    <3>1. Cache!Put(Key(c), call[c].result)
      BY <1>2, <2>2 DEF Settle
    <3>2. LRU!Put(Key(c), call[c].result)
      BY <3>1
      DEF Cache!Put, Cache!Refresh, Cache!Insert, Cache!Evict, Cache!Updated, Cache!Without, Cache!Log,
          LRU!Put, LRU!Refresh, LRU!Insert, LRU!Evict, LRU!Updated, LRU!Without, LRU!Log
    <3> QED
      BY <2>1, <3>2 DEF LRU!Next
  <2>3. CASE LooksFailed(call[c].result)
    BY <1>2, <2>3 DEF Settle
  <2> QED
    BY <2>2, <2>3
<1>3. ASSUME NEW c \in Callers, Start(c) \/ Ask(c) \/ Return(c) PROVE UNCHANGED cacheVars
  BY <1>3 DEF Start, Ask, Return
<1>4. CASE UNCHANGED vars
  BY <1>4 DEF vars, cacheVars, LRU!vars, LRU!history
<1> QED
  BY <1>1, <1>2, <1>3, <1>4 DEF Next, Done, cacheVars, LRU!vars, LRU!history

LEMMA InitUsesCache == Init => LRU!Init
BY DEF Init, Cache!Init, Cache!Empty, LRU!Init, LRU!Empty

\* The three tools use the cache as lru.go means it to be used, and so all that is
\* proved of LRUCache holds of the cache that they share.
THEOREM ToolsImplementCache == Spec => LRU!Spec
<1> QED
  BY InitInv, NextInv, InitUsesCache, StepUsesCache, PTL DEF Spec, LRU!Spec

\* Under concurrent tool calls the cache stays within maxCacheEntries, its order lists
\* every entry once, and what it has lost was stored before what it still has.
THEOREM SharedCacheBounded == Spec => [](LRU!OrderMatchesItems /\ LRU!KeepsLatestPuts)
<1>1. LRU!Spec => []LRU!OrderMatchesItems
  BY LRU!OrderCorrect, SizeAssumption, CallsAssumption
<1>2. LRU!Spec => []LRU!KeepsLatestPuts
  BY LRU!LatestPutsKept, SizeAssumption, CallsAssumption
<1> QED
  BY ToolsImplementCache, <1>1, <1>2, PTL
=============================================================================
