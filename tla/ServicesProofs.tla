--------------------------- MODULE ServicesProofs ---------------------------
(***************************************************************************)
(* The services around the chat that MCServices runs side by side: the      *)
(* first context of a request, the event hub, and the pool of API keys, for *)
(* any number of streams, publishers, senders, keys and events.             *)
(***************************************************************************)
EXTENDS Bootstrap, EventHub, KeyPool, RedisStore, SequenceTheorems, TLAPS

-----------------------------------------------------------------------------
(* Bootstrap: the first context holds what the searches found, whichever    *)
(* ends first, or late, or never.                                           *)

Places == DOMAIN resultsCh

\* What is in the channel is the answer of a search that is over, one of each.
ChannelSound ==
    /\ \A i \in Places : /\ search[resultsCh[i].source].at = "over"
                         /\ resultsCh[i].result = search[resultsCh[i].source].result
    /\ \A i, j \in Places : resultsCh[i].source = resultsCh[j].source => i = j

\* What the request has from a search is that search's answer, and is not in the
\* channel any more.
HasSound ==
    \A s \in Searches : collector.has[s] # "empty" =>
        /\ search[s].at = "over"
        /\ collector.has[s] = search[s].result
        /\ \A i \in Places : resultsCh[i].source # s

Collector == [waited : 0 .. 2, has : [Searches -> Results], done : BOOLEAN, context : Seq(Searches)]

Over(s) == IF search[s].at = "over" THEN 1 ELSE 0

\* As long as there is time no answer is lost: each is in the channel or was
\* received, and the request has counted those.
NoneLost ==
    ~timedOut =>
        /\ collector.waited + Len(resultsCh) = Over("google") + Over("tavily")
        /\ \A s \in Searches : search[s].at = "over" =>
              \/ collector.has[s] = search[s].result
              \/ \E i \in Places : resultsCh[i].source = s

ContextSound ==
    collector.done => collector.waited = 2 /\ collector.context = combinedResults

BootTyped ==
    /\ search \in [Searches -> [at : {"running", "sending", "over"}, result : Results]]
    /\ resultsCh \in Seq(Sent)
    /\ timedOut \in BOOLEAN
    /\ collector \in Collector

BootInv == BootTyped /\ ChannelSound /\ HasSound /\ NoneLost /\ ContextSound

-----------------------------------------------------------------------------
LEMMA BootInvInit == BootInit => BootInv
<1> SUFFICES ASSUME BootInit PROVE BootInv
  OBVIOUS
<1> USE DEF BootInit, Searches, Results
<1>1. resultsCh = << >> /\ Len(resultsCh) = 0 /\ Places = {}
  BY DEF Places
<1>2. BootTyped
  <2>1. collector \in Collector
    BY DEF Collector
  <2>2. resultsCh \in Seq(Sent)
    OBVIOUS
  <2> QED
    BY <2>1, <2>2 DEF BootTyped
<1>3. ChannelSound /\ HasSound
  BY <1>1 DEF ChannelSound, HasSound
<1>4. NoneLost
  BY <1>1 DEF NoneLost, Over
<1>5. ContextSound
  BY DEF ContextSound
<1> QED
  BY <1>2, <1>3, <1>4, <1>5 DEF BootInv

\* What the invariant says of the messages in the channel.
LEMMA Messages ==
    ASSUME BootInv
    PROVE  /\ Len(resultsCh) \in Nat /\ Places = 1 .. Len(resultsCh)
           /\ \A i \in Places : resultsCh[i] \in Sent /\ resultsCh[i].source \in Searches
<1>1. resultsCh \in Seq(Sent)
  BY DEF BootInv, BootTyped
<1>2. Len(resultsCh) \in Nat /\ Places = 1 .. Len(resultsCh) /\ \A i \in Places : resultsCh[i] \in Sent
  BY <1>1 DEF Places
<1> QED
  BY <1>2 DEF Sent

\* A search that is not over has nothing in the channel, nor has the request
\* anything of it.
LEMMA NotOver ==
    ASSUME BootInv, NEW s \in Searches, search[s].at # "over"
    PROVE  (\A i \in Places : resultsCh[i].source # s) /\ collector.has[s] = "empty"
BY DEF BootInv, ChannelSound, HasSound

LEMMA FindStep ==
    ASSUME BootInv, NEW s \in Searches, Find(s)
    PROVE  BootInv'
<1>1. PICK result \in Results : search' = [search EXCEPT ![s] = [at |-> "sending", result |-> result]]
  BY DEF Find
<1>2. /\ search[s].at = "running" /\ search'[s].at = "sending" /\ UNCHANGED <<resultsCh, timedOut, collector>>
      /\ \A r \in Searches \ {s} : search'[r] = search[r]
  BY <1>1 DEF Find, BootInv, BootTyped
<1>3. BootTyped'
  BY <1>1, <1>2 DEF BootInv, BootTyped
<1>4. Places' = Places /\ \A r \in Searches : Over(r)' = Over(r)
  BY <1>2 DEF Places, Over
<1>5. (\A i \in Places : resultsCh[i].source # s) /\ collector.has[s] = "empty"
  BY <1>2, NotOver
<1>6. ChannelSound'
  BY <1>2, <1>4, <1>5, Messages DEF BootInv, ChannelSound
<1>7. HasSound'
  BY <1>2, <1>4, <1>5 DEF BootInv, HasSound
<1>8. NoneLost'
  <2>1. Over("google")' = Over("google") /\ Over("tavily")' = Over("tavily")
    BY <1>4 DEF Searches
  <2>2. \A r \in Searches : search'[r].at = "over" => search'[r] = search[r]
    BY <1>2
  <2> QED
    BY <1>2, <1>4, <2>1, <2>2 DEF BootInv, NoneLost
<1>9. ContextSound'
  BY <1>2 DEF BootInv, ContextSound, combinedResults, Part
<1> QED
  BY <1>3, <1>6, <1>7, <1>8, <1>9 DEF BootInv

LEMMA SendStep ==
    ASSUME BootInv, NEW s \in Searches, Send(s)
    PROVE  BootInv'
<1> DEFINE sent == [source |-> s, result |-> search[s].result]
           n == Len(resultsCh)
<1>1. /\ search[s].at = "sending" /\ UNCHANGED <<timedOut, collector>>
      /\ resultsCh' = Append(resultsCh, sent)
      /\ search' = [search EXCEPT ![s].at = "over"]
  BY DEF Send
<1>2. /\ search'[s].at = "over" /\ search'[s].result = search[s].result
      /\ \A r \in Searches \ {s} : search'[r] = search[r]
      /\ search[s] \in [at : {"running", "sending", "over"}, result : Results]
  BY <1>1 DEF BootInv, BootTyped
<1>3. sent \in Sent
  BY <1>2 DEF Sent
<1>4. resultsCh \in Seq(Sent) /\ n \in Nat /\ Places = 1 .. n
  BY Messages DEF BootInv, BootTyped
<1>5. /\ resultsCh' \in Seq(Sent) /\ Len(resultsCh') = n + 1 /\ Places' = 1 .. n + 1
      /\ resultsCh'[n + 1] = sent
      /\ \A i \in Places : resultsCh'[i] = resultsCh[i]
  BY <1>1, <1>3, <1>4 DEF Places
<1>6. (\A i \in Places : resultsCh[i].source # s) /\ collector.has[s] = "empty"
  BY <1>1, NotOver
<1>7. BootTyped'
  BY <1>1, <1>2, <1>5 DEF BootInv, BootTyped
<1>8. sent.source = s /\ sent.result = search[s].result
  OBVIOUS
<1> HIDE DEF sent, n
<1>9. \A i \in Places' : i \in Places \/ i = n + 1
  BY <1>4, <1>5
<1>10. n + 1 \notin Places /\ n + 1 \in Places'
  BY <1>4, <1>5
<1>11. ChannelSound'
  <2>1. ASSUME NEW i \in Places'
        PROVE  /\ search'[resultsCh'[i].source].at = "over"
               /\ resultsCh'[i].result = search'[resultsCh'[i].source].result
    <3>1. CASE i = n + 1
      BY <1>2, <1>5, <1>8, <3>1
    <3>2. CASE i \in Places
      <4>1. resultsCh[i].source \in Searches \ {s}
        BY <1>6, <3>2, Messages
      <4> QED
        BY <1>2, <1>5, <3>2, <4>1 DEF BootInv, ChannelSound
    <3> QED
      BY <1>9, <3>1, <3>2
  <2>2. ASSUME NEW i \in Places', NEW j \in Places', resultsCh'[i].source = resultsCh'[j].source
        PROVE  i = j
    BY <2>2, <1>5, <1>6, <1>8, <1>9 DEF BootInv, ChannelSound
  <2> QED
    BY <2>1, <2>2 DEF ChannelSound
<1>12. HasSound'
  <2> SUFFICES ASSUME NEW r \in Searches, collector'.has[r] # "empty"
               PROVE  /\ search'[r].at = "over" /\ collector'.has[r] = search'[r].result
                      /\ \A i \in Places' : resultsCh'[i].source # r
    BY DEF HasSound
  <2>1. r # s
    BY <1>1, <1>6
  <2>2. /\ search[r].at = "over" /\ collector.has[r] = search[r].result
        /\ \A i \in Places : resultsCh[i].source # r
    BY <1>1 DEF BootInv, HasSound
  <2> QED
    BY <1>1, <1>2, <1>5, <1>8, <1>9, <2>1, <2>2
<1>13. NoneLost'
  <2> SUFFICES ASSUME ~timedOut
               PROVE  /\ collector.waited + (n + 1) = Over("google")' + Over("tavily")'
                      /\ \A r \in Searches : search'[r].at = "over" =>
                            \/ collector.has[r] = search'[r].result
                            \/ \E i \in Places' : resultsCh'[i].source = r
    BY <1>1, <1>5 DEF NoneLost
  <2>1. collector.waited + n = Over("google") + Over("tavily") /\ collector.waited \in Nat
    BY DEF BootInv, BootTyped, Collector, NoneLost, n
  <2>2. Over("google")' + Over("tavily")' = (Over("google") + Over("tavily")) + 1
    BY <1>1, <1>2 DEF Over, Searches
  <2>3. ASSUME NEW r \in Searches, search'[r].at = "over"
        PROVE  collector.has[r] = search'[r].result \/ \E i \in Places' : resultsCh'[i].source = r
    <3>1. CASE r = s
      BY <1>5, <1>8, <1>10, <3>1
    <3>2. CASE r # s
      <4>1. collector.has[r] = search[r].result \/ \E i \in Places : resultsCh[i].source = r
        BY <1>2, <2>3, <3>2 DEF BootInv, NoneLost
      <4> QED
        BY <1>2, <1>4, <1>5, <3>2, <4>1
    <3> QED
      BY <3>1, <3>2
  <2>4. collector.waited + (n + 1) = Over("google")' + Over("tavily")'
    BY <1>4, <2>1, <2>2 DEF Over
  <2> QED
    BY <2>3, <2>4
<1>14. ContextSound'
  BY <1>1 DEF BootInv, ContextSound, combinedResults, Part
<1> QED
  BY <1>7, <1>11, <1>12, <1>13, <1>14 DEF BootInv

\* Nobody gives up while there is time: only two answers make a request done.
LEMMA AbandonStep ==
    ASSUME BootInv, NEW s \in Searches, Abandon(s)
    PROVE  BootInv'
<1>1. /\ search[s].at = "sending" /\ UNCHANGED <<resultsCh, timedOut, collector>>
      /\ search' = [search EXCEPT ![s].at = "over"] /\ (timedOut \/ collector.done)
  BY DEF Abandon, CtxDone
<1>2. /\ search'[s].at = "over" /\ search'[s].result = search[s].result
      /\ \A r \in Searches \ {s} : search'[r] = search[r]
  BY <1>1 DEF BootInv, BootTyped
<1>3. BootTyped'
  BY <1>1 DEF BootInv, BootTyped
<1>4. (\A i \in Places : resultsCh[i].source # s) /\ collector.has[s] = "empty" /\ Places' = Places
  BY <1>1, NotOver DEF Places
<1>5. ChannelSound'
  BY <1>1, <1>2, <1>4, Messages DEF BootInv, ChannelSound
<1>6. HasSound'
  BY <1>1, <1>2, <1>4 DEF BootInv, HasSound
<1>7. timedOut
  <2> SUFFICES ASSUME ~timedOut PROVE FALSE
    OBVIOUS
  <2>1. collector.waited = 2 /\ 2 + Len(resultsCh) = Over("google") + Over("tavily")
    BY <1>1 DEF BootInv, ContextSound, NoneLost
  <2>2. Over("google") + Over("tavily") <= 1
    BY <1>1 DEF Over, Searches
  <2> QED
    BY <2>1, <2>2, Messages DEF Over
<1>8. NoneLost'
  BY <1>1, <1>7 DEF NoneLost
<1>9. ContextSound'
  BY <1>1 DEF BootInv, ContextSound, combinedResults, Part
<1> QED
  BY <1>3, <1>5, <1>6, <1>8, <1>9 DEF BootInv

LEMMA TimeOutStep == BootInv /\ TimeOut => BootInv'
BY DEF TimeOut, BootInv, BootTyped, ChannelSound, HasSound, NoneLost, ContextSound, Places,
       combinedResults, Part

LEMMA ReceiveStep ==
    ASSUME BootInv, Receive
    PROVE  BootInv'
<1> DEFINE got == Head(resultsCh)
           s == got.source
           rest == Tail(resultsCh)
           n == Len(resultsCh)
<1>1. /\ collector.waited < 2 /\ resultsCh # << >> /\ resultsCh' = rest /\ UNCHANGED <<search, timedOut>>
      /\ collector' = [collector EXCEPT !.waited = @ + 1, !.has[s] = got.result]
  BY DEF Receive, FiledUnder
<1>2. /\ resultsCh \in Seq(Sent) /\ n \in Nat /\ n > 0 /\ 1 \in Places /\ got = resultsCh[1]
      /\ rest \in Seq(Sent) /\ Len(rest) = n - 1
      /\ \A i \in 1 .. n - 1 : rest[i] = resultsCh[i + 1]
  BY <1>1 DEF BootInv, BootTyped, Places
<1>3. Places = 1 .. n /\ Places' = 1 .. n - 1
  BY <1>1, <1>2 DEF Places
<1>4. s \in Searches /\ got.result \in Results
  <2>1. got \in Sent
    BY <1>2
  <2> QED
    BY <2>1 DEF Sent
<1>5. /\ collector' \in Collector
      /\ collector'.waited = collector.waited + 1 /\ collector'.has = [collector.has EXCEPT ![s] = got.result]
      /\ collector'.done = collector.done /\ collector'.context = collector.context
  <2>1. collector \in Collector /\ collector.waited \in 0 .. 2 /\ collector.has \in [Searches -> Results]
    BY DEF BootInv, BootTyped, Collector
  <2>2. [collector.has EXCEPT ![s] = got.result] \in [Searches -> Results] /\ collector.waited + 1 \in 0 .. 2
    BY <1>1, <1>4, <2>1
  <2> HIDE DEF s
  <2> QED
    BY <1>1, <2>1, <2>2 DEF Collector
<1>6. /\ collector'.has[s] = got.result
      /\ \A r \in Searches \ {s} : collector'.has[r] = collector.has[r]
  BY <1>4, <1>5 DEF BootInv, BootTyped, Collector
<1>7. search[s].at = "over" /\ got.result = search[s].result
  BY <1>2 DEF BootInv, ChannelSound
<1>8. BootTyped'
  BY <1>1, <1>2, <1>5 DEF BootInv, BootTyped
<1> HIDE DEF got, rest, n
<1>9. ASSUME NEW i \in Places'
      PROVE  i + 1 \in Places /\ resultsCh'[i] = resultsCh[i + 1] /\ resultsCh'[i].source # s
  <2>1. i + 1 \in Places /\ resultsCh'[i] = resultsCh[i + 1] /\ i + 1 # 1
    BY <1>1, <1>2, <1>3
  <2> QED
    BY <1>2, <2>1 DEF BootInv, ChannelSound
<1> HIDE DEF s
<1>10. ChannelSound'
  <2>1. ASSUME NEW i \in Places', NEW j \in Places', resultsCh'[i].source = resultsCh'[j].source
        PROVE  i = j
    <3>1. i + 1 = j + 1
      BY <1>9, <2>1 DEF BootInv, ChannelSound
    <3> QED
      BY <1>2, <1>3, <3>1
  <2>2. ASSUME NEW i \in Places'
        PROVE  /\ search[resultsCh'[i].source].at = "over"
               /\ resultsCh'[i].result = search[resultsCh'[i].source].result
    BY <1>9 DEF BootInv, ChannelSound
  <2> QED
    BY <1>1, <2>1, <2>2 DEF ChannelSound
<1>11. HasSound'
  <2> SUFFICES ASSUME NEW r \in Searches, collector'.has[r] # "empty"
               PROVE  /\ search[r].at = "over" /\ collector'.has[r] = search[r].result
                      /\ \A i \in Places' : resultsCh'[i].source # r
    BY <1>1 DEF HasSound
  <2>1. CASE r = s
    BY <1>6, <1>7, <1>9, <2>1
  <2>2. CASE r # s
    <3>1. collector'.has[r] = collector.has[r]
      BY <1>6, <2>2
    <3> QED
      BY <1>9, <3>1 DEF BootInv, HasSound
  <2> QED
    BY <2>1, <2>2
<1>12. NoneLost'
  <2> SUFFICES ASSUME ~timedOut
               PROVE  /\ (collector.waited + 1) + (n - 1) = Over("google") + Over("tavily")
                      /\ \A r \in Searches : search[r].at = "over" =>
                            \/ collector'.has[r] = search[r].result
                            \/ \E i \in Places' : resultsCh'[i].source = r
    BY <1>1, <1>2, <1>5 DEF NoneLost, Over
  <2>1. collector.waited + n = Over("google") + Over("tavily") /\ collector.waited \in Nat
    BY DEF BootInv, BootTyped, Collector, NoneLost, n
  <2>2. ASSUME NEW r \in Searches, search[r].at = "over"
        PROVE  collector'.has[r] = search[r].result \/ \E i \in Places' : resultsCh'[i].source = r
    <3>1. CASE r = s
      BY <1>6, <1>7, <3>1
    <3>2. CASE r # s
      <4>1. CASE collector.has[r] = search[r].result
        BY <1>6, <3>2, <4>1
      <4>2. CASE \E i \in Places : resultsCh[i].source = r
        <5>1. PICK i \in Places : resultsCh[i].source = r
          BY <4>2
        <5>2. i # 1
          BY <1>2, <3>2, <5>1 DEF s
        <5>3. i - 1 \in Places' /\ (i - 1) + 1 = i
          BY <1>2, <1>3, <5>2
        <5>4. resultsCh'[i - 1] = resultsCh[i]
          BY <1>9, <5>3
        <5> QED
          BY <5>1, <5>3, <5>4
      <4> QED
        BY <2>2, <4>1, <4>2 DEF BootInv, NoneLost
    <3> QED
      BY <3>1, <3>2
  <2> QED
    BY <1>2, <2>1, <2>2
<1>13. ContextSound'
  BY <1>1, <1>5 DEF BootInv, ContextSound
<1> QED
  BY <1>8, <1>10, <1>11, <1>12, <1>13 DEF BootInv

LEMMA StopWaitingStep ==
    ASSUME BootInv, StopWaiting
    PROVE  BootInv'
<1>1. /\ collector.waited < 2 /\ timedOut /\ UNCHANGED <<search, resultsCh, timedOut>>
      /\ collector' = [collector EXCEPT !.waited = 2]
  BY DEF StopWaiting
<1>2. /\ collector' \in Collector
      /\ collector'.has = collector.has /\ collector'.done = collector.done
  BY <1>1 DEF BootInv, BootTyped, Collector
<1>3. ~collector.done
  BY <1>1 DEF BootInv, ContextSound
<1> QED
  BY <1>1, <1>2, <1>3 DEF BootInv, BootTyped, ChannelSound, HasSound, NoneLost, ContextSound, Places

LEMMA FinishStep ==
    ASSUME BootInv, Finish
    PROVE  BootInv'
<1>1. /\ collector.waited = 2 /\ UNCHANGED <<search, resultsCh, timedOut>>
      /\ collector' = [collector EXCEPT !.done = TRUE, !.context = combinedResults]
  BY DEF Finish
<1>2. combinedResults \in Seq(Searches)
  <2>1. << >> \in Seq(Searches) /\ \A s \in Searches : <<s>> \in Seq(Searches)
    OBVIOUS
  <2>2. Part("google") \in Seq(Searches) /\ Part("tavily") \in Seq(Searches)
    BY <2>1 DEF Part, Searches
  <2> QED
    BY <2>2 DEF combinedResults
<1>3. /\ collector' \in Collector
      /\ collector'.has = collector.has /\ collector'.waited = 2 /\ collector'.context = combinedResults
  BY <1>1, <1>2 DEF BootInv, BootTyped, Collector
<1>4. combinedResults' = combinedResults
  BY <1>3 DEF combinedResults, Part
<1>5. BootTyped' /\ ContextSound'
  BY <1>1, <1>3, <1>4 DEF BootInv, BootTyped, ContextSound
<1>6. ChannelSound' /\ HasSound' /\ NoneLost'
  BY <1>1, <1>3 DEF BootInv, ChannelSound, HasSound, NoneLost, Places, Over
<1> QED
  BY <1>5, <1>6 DEF BootInv

LEMMA BootInvStep == BootInv /\ [BootNext]_bootVars => BootInv'
<1> SUFFICES ASSUME BootInv, [BootNext]_bootVars PROVE BootInv'
  OBVIOUS
<1>1. CASE UNCHANGED bootVars
  BY <1>1 DEF bootVars, BootInv, BootTyped, ChannelSound, HasSound, NoneLost, ContextSound, Places, Over,
     combinedResults, Part
<1> QED
  BY <1>1, FindStep, SendStep, AbandonStep, TimeOutStep, ReceiveStep, StopWaitingStep, FinishStep DEF BootNext

-----------------------------------------------------------------------------
\* Two parts make a context of two.
LEMMA PairOf == ASSUME NEW a \in Searches, NEW b \in Searches PROVE <<a>> \o <<b>> = <<a, b>>
<1> DEFINE t == <<a>> \o <<b>>
           u == <<a, b>>
<1>1. <<a>> \in Seq(Searches) /\ <<b>> \in Seq(Searches)
  OBVIOUS
<1>2. t \in Seq(Searches) /\ Len(t) = 2 /\ t[1] = a /\ t[2] = b
  BY <1>1
<1>3. u \in Seq(Searches) /\ Len(u) = 2 /\ u[1] = a /\ u[2] = b
  OBVIOUS
<1> HIDE DEF t, u
<1>4. \A i \in 1 .. Len(t) : t[i] = u[i]
  BY <1>2, <1>3
<1>5. t = u
  BY <1>2, <1>3, <1>4, SeqEqual
<1> QED
  BY <1>5 DEF t, u

\* What the context may be, and which searches are in it.
LEMMA Combined ==
    /\ combinedResults \in {<< >>, <<"google">>, <<"tavily">>, <<"google", "tavily">>}
    /\ ToSet(combinedResults) = {s \in Searches : collector.has[s] = "found"}
<1> DEFINE c == combinedResults
           found(s) == collector.has[s] = "found"
<1>1. c = Part("google") \o Part("tavily")
  BY DEF combinedResults
<1>2. CASE found("google") /\ found("tavily")
  <2>1. c = <<"google", "tavily">>
    <3>1. <<"google">> \o <<"tavily">> = <<"google", "tavily">>
      BY PairOf DEF Searches
    <3> QED
      BY <1>1, <1>2, <3>1 DEF Part
  <2> QED
    BY <1>2, <2>1 DEF ToSet, Searches
<1>3. CASE found("google") /\ ~found("tavily")
  <2>1. c = <<"google">>
    BY <1>1, <1>3 DEF Part
  <2> QED
    BY <1>3, <2>1 DEF ToSet, Searches
<1>4. CASE ~found("google") /\ found("tavily")
  <2>1. c = <<"tavily">>
    BY <1>1, <1>4 DEF Part
  <2> QED
    BY <1>4, <2>1 DEF ToSet, Searches
<1>5. CASE ~found("google") /\ ~found("tavily")
  <2>1. c = << >>
    BY <1>1, <1>5 DEF Part
  <2> QED
    BY <1>5, <2>1 DEF ToSet, Searches
<1> QED
  BY <1>2, <1>3, <1>4, <1>5

\* BuildBootstrapContext: the context of a request holds what each search found, in one
\* order whichever came first, and all of it unless the 30 seconds passed.
THEOREM ContextAlwaysComplete == BootSpec => []ContextComplete
<1>1. BootInv => ContextComplete
  <2> SUFFICES ASSUME BootInv, collector.done
               PROVE  /\ \A s \in ToSet(collector.context) : search[s].result = "found"
                      /\ collector.context \in {<< >>, <<"google">>, <<"tavily">>, <<"google", "tavily">>}
                      /\ ~timedOut => \A s \in Searches :
                            search[s].result = "found" => s \in ToSet(collector.context)
    BY DEF ContextComplete
  <2>1. /\ collector.context \in {<< >>, <<"google">>, <<"tavily">>, <<"google", "tavily">>}
        /\ ToSet(collector.context) = {s \in Searches : collector.has[s] = "found"}
        /\ collector.waited = 2
    BY Combined DEF BootInv, ContextSound
  <2>2. \A s \in ToSet(collector.context) : search[s].result = "found"
    BY <2>1 DEF BootInv, HasSound
  <2>3. ASSUME ~timedOut, NEW s \in Searches, search[s].result = "found"
        PROVE  s \in ToSet(collector.context)
    <3>1. 2 + Len(resultsCh) = Over("google") + Over("tavily") /\ Len(resultsCh) \in Nat
      BY <2>1, <2>3, Messages DEF BootInv, NoneLost
    <3>2. Len(resultsCh) = 0 /\ Over("google") = 1 /\ Over("tavily") = 1
      BY <3>1 DEF Over
    <3>3. search[s].at = "over" /\ Places = {}
      BY <3>2, Messages DEF Over, Searches
    <3>4. collector.has[s] = search[s].result
      BY <2>3, <3>3 DEF BootInv, NoneLost
    <3> QED
      BY <2>1, <2>3, <3>4
  <2> QED
    BY <2>1, <2>2, <2>3
<1> QED
  BY BootInvInit, BootInvStep, <1>1, PTL DEF BootSpec

-----------------------------------------------------------------------------
(* EventHub: no event is sent on a closed channel, and every stream gets    *)
(* its events in order.                                                     *)

HubTyped ==
    /\ place \in [Streams -> {"new", "open", "over", "closed"}]
    /\ sending \in [Publishers -> Nat]
    /\ todo \in [Publishers -> SUBSET Streams]
    /\ events \in Nat

\* Only the holder of the lock has an event in hand, and it offers it to streams
\* whose channels are open.
HubLocked ==
    /\ \A p \in Publishers : sending[p] # NoEvent => mu = {p}
    /\ \A p \in Publishers : \A s \in todo[p] :
         sending[p] # NoEvent /\ place[s] \in {"open", "over"}

HubInv == HubTyped /\ HubLocked

-----------------------------------------------------------------------------
LEMMA HubStep == HubInv /\ [HubNext]_hubVars => HubInv'
<1>. SUFFICES ASSUME HubInv, [HubNext]_hubVars PROVE HubInv'
    OBVIOUS
<1>. USE DEF HubInv, HubTyped, HubLocked
<1>1. ASSUME NEW p \in Publishers, BeginBroadcast(p) PROVE HubInv'
  <2>1. \A q \in Publishers : sending[q] = NoEvent /\ todo[q] = {}
      BY <1>1 DEF BeginBroadcast, Lockable, Free
  <2>2. HubTyped'
      BY <1>1 DEF BeginBroadcast, Registered, stream
  <2>. QED
      BY <1>1, <2>1, <2>2 DEF BeginBroadcast, Registered, stream, NoEvent
<1>2. ASSUME NEW p \in Publishers, NEW s \in Streams, Offer(p, s) \/ Skip(p, s) PROVE HubInv'
    BY <1>2 DEF Offer, Skip
<1>3. ASSUME NEW p \in Publishers, EndBroadcast(p) PROVE HubInv'
  <2>1. \A q \in Publishers \ {p} : sending[q] = NoEvent
      BY <1>3 DEF EndBroadcast
  <2>. QED  BY <1>3, <2>1 DEF EndBroadcast, stream, NoEvent
<1>4. ASSUME NEW s \in Streams, Register(s) \/ WriteEvent(s) \/ Disconnect(s) PROVE HubInv'
    BY <1>4 DEF Register, WriteEvent, Disconnect
<1>5. ASSUME NEW s \in Streams, Unregister(s) PROVE HubInv'
  <2>1. \A p \in Publishers : todo[p] = {}
      BY <1>5 DEF Unregister, Free
  <2>. QED  BY <1>5, <2>1 DEF Unregister, Close
<1>6. CASE UNCHANGED hubVars
    BY <1>6 DEF hubVars
<1>. QED
    BY <1>1, <1>2, <1>3, <1>4, <1>5, <1>6 DEF HubNext, Broadcast, handleSSE

\* No event is sent on a closed channel: a stream that ends closes its channel under
\* the lock that a broadcast holds from its first channel to its last.
THEOREM NeverSendsOnClosed == HubSpec => []NoSendOnClosed
<1>1. HubInit => HubInv
    BY DEF HubInit, HubInv, HubTyped, HubLocked, NoEvent
<1>2. HubInv => NoSendOnClosed
    BY DEF HubInv, HubLocked, NoSendOnClosed
<1>. QED  BY <1>1, <1>2, HubStep, PTL DEF HubSpec

-----------------------------------------------------------------------------
(* StreamsInOrder.                                                           *)

Got(s) == written[s] \o channel[s]
Coming(s) == {sending[p] : p \in {q \in Publishers : s \in todo[q]}}

SeqTyped ==
    /\ channel \in [Streams -> Seq(Nat)] /\ written \in [Streams -> Seq(Nat)]
    /\ missed \in [Streams -> SUBSET Nat] /\ since \in [Streams -> Nat]

\* The event in hand is the latest.
Latest == \A p \in Publishers : sending[p] # NoEvent => sending[p] = events

\* What a stream has got is sorted, and is older than what is coming.
Sorted(s) ==
    /\ \A i, j \in DOMAIN Got(s) : i < j => Got(s)[i] < Got(s)[j]
    /\ \A i \in DOMAIN Got(s) : Got(s)[i] <= events
    /\ \A p \in Publishers : s \in todo[p] => \A i \in DOMAIN Got(s) : Got(s)[i] < events

Accounted(s) ==
    /\ place[s] = "new" => Got(s) = << >> /\ missed[s] = {}
    /\ since[s] <= events
    /\ place[s] \in {"open", "over"} =>
         ToSet(Got(s)) \cup missed[s] \cup Coming(s) = since[s] + 1 .. events

OrderInv ==
    /\ HubInv /\ SeqTyped /\ Latest
    /\ \A s \in Streams : Sorted(s) /\ Accounted(s)

\* An event that moves from the channel to what was written stays where it was.
LEMMA Moved ==
    ASSUME NEW w \in Seq(Nat), NEW c \in Seq(Nat), c # << >>
    PROVE  Append(w, Head(c)) \o Tail(c) = w \o c
OBVIOUS

LEMMA AppendedLast ==
    ASSUME NEW w \in Seq(Nat), NEW c \in Seq(Nat), NEW e \in Nat
    PROVE  /\ w \o Append(c, e) = Append(w \o c, e)
           /\ w \o Append(c, e) \in Seq(Nat)
           /\ ToSet(w \o Append(c, e)) = ToSet(w \o c) \cup {e}
<1>1. w \o Append(c, e) = Append(w \o c, e) /\ w \o c \in Seq(Nat)
    OBVIOUS
<1>2. ASSUME NEW g \in Seq(Nat) PROVE ToSet(Append(g, e)) = ToSet(g) \cup {e}
  <2>1. /\ DOMAIN Append(g, e) = DOMAIN g \cup {Len(g) + 1}
        /\ Append(g, e)[Len(g) + 1] = e
        /\ \A i \in DOMAIN g : Append(g, e)[i] = g[i]
      OBVIOUS
  <2>. QED  BY <2>1 DEF ToSet
<1>3. w \o Append(c, e) \in Seq(Nat)
    OBVIOUS
<1>. QED  BY <1>1, <1>2, <1>3

LEMMA SeqTypedStep == HubInv /\ SeqTyped /\ [HubNext]_hubVars => SeqTyped'
<1>. SUFFICES ASSUME HubInv, SeqTyped, [HubNext]_hubVars PROVE SeqTyped'
    OBVIOUS
<1>. USE DEF HubInv, HubTyped, SeqTyped
<1>1. ASSUME NEW p \in Publishers, NEW s \in Streams, Offer(p, s) PROVE SeqTyped'
  <2>1. Append(channel[s], sending[p]) \in Seq(Nat)
      BY <1>1
  <2>. QED  BY <1>1, <2>1 DEF Offer
<1>2. ASSUME NEW p \in Publishers, NEW s \in Streams, Skip(p, s) PROVE SeqTyped'
    BY <1>2 DEF Skip
<1>3. ASSUME NEW p \in Publishers, BeginBroadcast(p) \/ EndBroadcast(p) PROVE SeqTyped'
    BY <1>3 DEF BeginBroadcast, EndBroadcast, stream
<1>4. ASSUME NEW s \in Streams, WriteEvent(s) PROVE SeqTyped'
  <2>1. Append(written[s], Head(channel[s])) \in Seq(Nat) /\ Tail(channel[s]) \in Seq(Nat)
      BY <1>4 DEF WriteEvent
  <2>. QED  BY <1>4, <2>1 DEF WriteEvent
<1>5. ASSUME NEW s \in Streams, Register(s) \/ Disconnect(s) \/ Unregister(s) PROVE SeqTyped'
  <2>1. << >> \in Seq(Nat)
      OBVIOUS
  <2>2. CASE Register(s) \/ Disconnect(s)
      BY <2>2 DEF Register, Disconnect
  <2>3. CASE Unregister(s)
      BY <2>1, <2>3 DEF Unregister, Close
  <2>. QED  BY <1>5, <2>2, <2>3
<1>6. CASE UNCHANGED hubVars
    BY <1>6 DEF hubVars
<1>. QED
    BY <1>1, <1>2, <1>3, <1>4, <1>5, <1>6 DEF HubNext, Broadcast, handleSSE

LEMMA LatestStep == HubInv /\ Latest /\ [HubNext]_hubVars => Latest'
<1>. USE DEF HubInv, HubTyped, HubLocked, Latest
<1>. SUFFICES ASSUME HubInv, Latest, [HubNext]_hubVars PROVE Latest'
    OBVIOUS
<1>1. ASSUME NEW p \in Publishers, BeginBroadcast(p) PROVE Latest'
  <2>1. \A q \in Publishers : sending[q] = NoEvent
      BY <1>1 DEF BeginBroadcast, Lockable, Free
  <2>. QED  BY <1>1, <2>1 DEF BeginBroadcast
<1>2. ASSUME NEW p \in Publishers, EndBroadcast(p) PROVE Latest'
    BY <1>2 DEF EndBroadcast
<1>3. CASE UNCHANGED <<sending, events>>
    BY <1>3
<1>. QED
    BY <1>1, <1>2, <1>3
    DEF HubNext, Broadcast, handleSSE, Offer, Skip, Register, WriteEvent, Disconnect, Unregister, Close, hubVars

\* A step that is not about s leaves what s has alone.
LEMMA Untouched ==
    ASSUME OrderInv, NEW s \in Streams,
           place'[s] = place[s], channel'[s] = channel[s], written'[s] = written[s],
           missed'[s] = missed[s], since'[s] = since[s], events' = events,
           \A p \in Publishers : s \in todo'[p] <=> s \in todo[p],
           \A p \in Publishers : s \in todo[p] => sending'[p] = sending[p]
    PROVE  Sorted(s)' /\ Accounted(s)'
<1>1. Got(s)' = Got(s) /\ Coming(s)' = Coming(s)
    BY DEF Got, Coming
<1>. QED  BY <1>1 DEF OrderInv, Sorted, Accounted

LEMMA BeginOrder ==
    ASSUME OrderInv, NEW p \in Publishers, BeginBroadcast(p), NEW s \in Streams
    PROVE  Sorted(s)' /\ Accounted(s)'
<1>. USE DEF OrderInv, HubInv, HubTyped, HubLocked
<1>1. /\ Got(s)' = Got(s) /\ place' = place /\ missed' = missed /\ since' = since
      /\ events' = events + 1 /\ sending'[p] = events + 1 /\ todo'[p] = Registered
    BY DEF BeginBroadcast, stream, Got
<1>2. \A q \in Publishers : todo[q] = {}
    BY DEF BeginBroadcast, Lockable, Free
<1>3. Got(s) \in Seq(Nat)
    BY DEF SeqTyped, Got
<1>4. Sorted(s)'
    BY <1>1, <1>3 DEF Sorted
<1>5. Coming(s) = {} /\ Coming(s)' = IF s \in Registered THEN {events + 1} ELSE {}
    BY <1>1, <1>2 DEF Coming, BeginBroadcast
<1>6. Accounted(s)'
  <2>1. CASE place[s] \in {"open", "over"}
    <3>1. ToSet(Got(s)) \cup missed[s] = since[s] + 1 .. events
        BY <1>5, <2>1 DEF Accounted
    <3>2. Coming(s)' = {events + 1}
        BY <1>5, <2>1 DEF Registered
    <3>. QED  BY <1>1, <2>1, <3>1, <3>2 DEF Accounted, SeqTyped
  <2>2. CASE place[s] \notin {"open", "over"}
      BY <1>1, <2>2 DEF Accounted, SeqTyped
  <2>. QED  BY <2>1, <2>2
<1>. QED  BY <1>4, <1>6

LEMMA OfferOrder ==
    ASSUME OrderInv, NEW p \in Publishers, NEW s \in Streams, Offer(p, s) \/ Skip(p, s)
    PROVE  Sorted(s)' /\ Accounted(s)'
<1>. USE DEF OrderInv, HubInv, HubTyped, HubLocked
<1>1. /\ s \in todo[p] /\ sending[p] = events /\ sending' = sending /\ mu = {p} /\ mu' = mu
      /\ place' = place /\ since' = since /\ events' = events
      /\ todo'[p] = todo[p] \ {s} /\ \A q \in Publishers \ {p} : todo'[q] = todo[q]
    BY DEF Offer, Skip, Latest
<1>2. \A q \in Publishers \ {p} : todo[q] = {}
    BY <1>1
<1>3. Coming(s) = {events} /\ Coming(s)' = {}
    BY <1>1, <1>2 DEF Coming
<1>4. Got(s) \in Seq(Nat) /\ place[s] \in {"open", "over"}
    BY <1>1 DEF SeqTyped, Got
<1>5. CASE Offer(p, s)
  <2>1. Got(s)' = Append(Got(s), events) /\ ToSet(Got(s))' = ToSet(Got(s)) \cup {events} /\ missed' = missed
      BY <1>1, <1>5, AppendedLast DEF Offer, Got, SeqTyped
  <2>2. Sorted(s)'
      BY <1>1, <1>2, <1>4, <2>1 DEF Sorted
  <2>3. Accounted(s)'
      BY <1>1, <1>3, <1>4, <2>1 DEF Accounted
  <2>. QED  BY <2>2, <2>3
<1>6. CASE Skip(p, s)
  <2>1. Got(s)' = Got(s) /\ missed'[s] = missed[s] \cup {events}
      BY <1>1, <1>6 DEF Skip, Got, SeqTyped
  <2>2. Sorted(s)'
      BY <1>1, <1>2, <2>1 DEF Sorted
  <2>3. Accounted(s)'
      BY <1>1, <1>3, <1>4, <2>1 DEF Accounted
  <2>. QED  BY <2>2, <2>3
<1>. QED  BY <1>5, <1>6

LEMMA StreamOrder ==
    ASSUME OrderInv, NEW s \in Streams, handleSSE(s)
    PROVE  Sorted(s)' /\ Accounted(s)'
<1>. USE DEF OrderInv, HubInv, HubTyped, HubLocked
<1>0. Got(s) \in Seq(Nat) /\ written[s] \in Seq(Nat) /\ channel[s] \in Seq(Nat)
    BY DEF SeqTyped, Got
<1>1. CASE Register(s)
  <2>1. /\ Got(s)' = Got(s) /\ missed' = missed /\ since'[s] = events /\ events' = events
        /\ todo' = todo /\ place[s] = "new" /\ place'[s] = "open"
      BY <1>1 DEF Register, Got, SeqTyped
  <2>2. Got(s) = << >> /\ missed[s] = {}
      BY <2>1 DEF Accounted
  <2>3. Coming(s)' = {}
      BY <1>1 DEF Register, Free, Coming
  <2>4. ToSet(Got(s)) = {} /\ events + 1 .. events = {}
      BY <2>2 DEF ToSet
  <2>5. Sorted(s)'
      BY <2>1 DEF Sorted
  <2>6. Accounted(s)'
    <3>1. ToSet(Got(s))' = {} /\ missed'[s] = {} /\ since'[s] + 1 .. events' = {}
        BY <2>1, <2>2, <2>4
    <3>. QED  BY <2>1, <2>3, <3>1 DEF Accounted
  <2>. QED  BY <2>5, <2>6
<1>2. CASE WriteEvent(s)
  <2>1. Got(s)' = Got(s)
      BY <1>0, <1>2, Moved DEF WriteEvent, Got, SeqTyped
  <2>2. Coming(s)' = Coming(s) /\ UNCHANGED <<place, missed, since, todo, events>>
      BY <1>2 DEF WriteEvent, Coming
  <2>. QED  BY <2>1, <2>2 DEF Sorted, Accounted
<1>3. CASE Disconnect(s)
  <2>1. Got(s)' = Got(s) /\ Coming(s)' = Coming(s) /\ UNCHANGED <<missed, since, todo, events>>
        /\ place[s] = "open" /\ place'[s] = "over"
      BY <1>3 DEF Disconnect, Got, Coming
  <2>. QED  BY <2>1 DEF Sorted, Accounted
<1>4. CASE Unregister(s)
  <2>1. /\ written' = written /\ channel'[s] = << >> /\ UNCHANGED <<since, todo, events>>
        /\ place'[s] = "closed"
      BY <1>4 DEF Unregister, Close, SeqTyped
  <2>2. Got(s)' = written[s]
      BY <1>0, <2>1 DEF Got
  <2>3. \A i \in DOMAIN written[s] : i \in DOMAIN Got(s) /\ Got(s)[i] = written[s][i]
    <3>1. \A w, c \in Seq(Nat) : \A i \in DOMAIN w : i \in DOMAIN (w \o c) /\ (w \o c)[i] = w[i]
        OBVIOUS
    <3>. QED  BY <1>0, <3>1 DEF Got
  <2>. QED  BY <2>1, <2>2, <2>3 DEF Sorted, Accounted
<1>. QED  BY <1>1, <1>2, <1>3, <1>4 DEF handleSSE

LEMMA OrderStep == OrderInv /\ [HubNext]_hubVars => OrderInv'
<1>. SUFFICES ASSUME OrderInv, [HubNext]_hubVars PROVE OrderInv'
    OBVIOUS
<1>0. HubInv' /\ SeqTyped' /\ Latest'
    BY HubStep, SeqTypedStep, LatestStep DEF OrderInv
<1>. SUFFICES ASSUME NEW r \in Streams PROVE Sorted(r)' /\ Accounted(r)'
    BY <1>0 DEF OrderInv
<1>1. ASSUME NEW p \in Publishers, BeginBroadcast(p) PROVE Sorted(r)' /\ Accounted(r)'
    BY <1>1, BeginOrder
<1>2. ASSUME NEW p \in Publishers, NEW s \in Streams, Offer(p, s) \/ Skip(p, s)
      PROVE  Sorted(r)' /\ Accounted(r)'
  <2>1. CASE r = s
      BY <1>2, <2>1, OfferOrder
  <2>2. CASE r # s
      BY <1>2, <2>2, Untouched DEF Offer, Skip, OrderInv, HubInv, HubTyped, SeqTyped
  <2>. QED  BY <2>1, <2>2
<1>3. ASSUME NEW p \in Publishers, EndBroadcast(p) PROVE Sorted(r)' /\ Accounted(r)'
    BY <1>3, Untouched DEF EndBroadcast, stream, OrderInv, HubInv, HubTyped
<1>4. ASSUME NEW s \in Streams, handleSSE(s) PROVE Sorted(r)' /\ Accounted(r)'
  <2>1. CASE r = s
      BY <1>4, <2>1, StreamOrder
  <2>2. CASE r # s
      BY <1>4, <2>2, Untouched
      DEF handleSSE, Register, WriteEvent, Disconnect, Unregister, Close, OrderInv, HubInv, HubTyped, SeqTyped
  <2>. QED  BY <2>1, <2>2
<1>5. CASE UNCHANGED hubVars
    BY <1>5, Untouched DEF hubVars
<1>. QED  BY <1>1, <1>2, <1>3, <1>4, <1>5 DEF HubNext, Broadcast

\* A stream gets the events since it was registered in the order of their broadcast,
\* and lacks only those it was too slow for and the one on its way.
THEOREM EventsInOrder == HubSpec => []StreamsInOrder
<1>1. HubInit => OrderInv
  <2>. SUFFICES ASSUME HubInit PROVE OrderInv
      OBVIOUS
  <2>1. HubInv /\ SeqTyped /\ Latest
      BY DEF HubInit, HubInv, HubTyped, HubLocked, NoEvent, SeqTyped, Latest
  <2>2. ASSUME NEW s \in Streams PROVE Sorted(s) /\ Accounted(s)
    <3>1. Got(s) = << >>
        BY DEF HubInit, Got
    <3>. QED  BY <3>1 DEF HubInit, Sorted, Accounted
  <2>. QED  BY <2>1, <2>2 DEF OrderInv
<1>2. OrderInv => StreamsInOrder
    BY DEF OrderInv, Sorted, Accounted, StreamsInOrder, Got, Coming
<1>. QED  BY <1>1, <1>2, OrderStep, PTL DEF HubSpec

-----------------------------------------------------------------------------
(* KeyPool: the keys are shared evenly and a request gives up late.         *)

LastKey == KeysCount - 1

\* What u counts when the next key is i: the keys before i once more than the last one.
Balanced(u, i) == \A k \in PoolKeys : u[k] = IF k < i THEN u[LastKey] + 1 ELSE u[LastKey]

\* The keys taken between a count u whose next key was i and now.
TakenSince(u, i) == (uses[LastKey] - u[LastKey]) * KeysCount + index - i

\* A request's attempts are among the keys taken since it began.
Counted(r) ==
    /\ attempt[r] > 0 =>
         \E i \in PoolKeys : Balanced(before[r], i) /\ attempt[r] <= TakenSince(before[r], i)
    /\ attempt[r] = 0 => \A k \in PoolKeys : before[r][k] = 0
    /\ doing[r] = "failed" => attempt[r] = MaxRetries * KeysCount

PoolTyped ==
    /\ KeysCount > 0
    /\ index \in PoolKeys
    /\ uses \in [PoolKeys -> Nat]
    /\ doing \in [Senders -> {"ready", "calling", "answered", "failed"}]
    /\ attempt \in [Senders -> Nat]
    /\ before \in [Senders -> [PoolKeys -> Nat]]

PoolInv ==
    /\ PoolTyped
    /\ Balanced(uses, index)
    /\ \A r \in Senders : Counted(r)

-----------------------------------------------------------------------------
LEMMA NextIndexIs ==
    ASSUME KeysCount \in Nat, PoolTyped
    PROVE  NextIndex = IF index = LastKey THEN 0 ELSE index + 1
<1>1. index \in Int /\ 0 <= index /\ index <= LastKey
    BY DEF PoolTyped, PoolKeys, LastKey
<1>2. CASE index = LastKey
  <2>1. index + 1 = KeysCount
      BY <1>1, <1>2 DEF LastKey
  <2>2. \A n \in Nat : n > 0 => n % n = 0
      OBVIOUS
  <2>. QED  BY <1>2, <2>1, <2>2 DEF NextIndex, PoolTyped
<1>3. CASE index # LastKey
  <2>1. index + 1 < KeysCount /\ index + 1 \in Nat
      BY <1>1, <1>3 DEF LastKey
  <2>2. \A m, n \in Nat : m < n => m % n = m
      OBVIOUS
  <2>. QED  BY <1>3, <2>1, <2>2 DEF NextIndex
<1>. QED  BY <1>2, <1>3

\* One more key is taken.
LEMMA TakesOne ==
    ASSUME KeysCount \in Nat, PoolInv, uses' = [uses EXCEPT ![index] = @ + 1], index' = NextIndex
    PROVE  /\ index' \in PoolKeys /\ uses' \in [PoolKeys -> Nat]
           /\ Balanced(uses', index')
           /\ \A u \in [PoolKeys -> Nat], i \in PoolKeys : TakenSince(u, i)' = TakenSince(u, i) + 1
<1>0. /\ LastKey \in PoolKeys /\ LastKey \in Nat /\ index \in PoolKeys /\ index \in Nat /\ uses \in [PoolKeys -> Nat]
      /\ \A k \in PoolKeys : k \in Nat /\ k <= LastKey
    BY DEF PoolInv, PoolTyped, PoolKeys, LastKey
<1>1. index' = IF index = LastKey THEN 0 ELSE index + 1
    BY NextIndexIs DEF PoolInv
<1>2. index' \in PoolKeys /\ uses' \in [PoolKeys -> Nat]
    BY <1>0, <1>1 DEF PoolKeys, LastKey
<1>3. \A k \in PoolKeys : uses'[k] = IF k = index THEN uses[k] + 1 ELSE uses[k]
    BY <1>0
<1>4. \A k \in PoolKeys : uses[k] = IF k < index THEN uses[LastKey] + 1 ELSE uses[LastKey]
    BY DEF PoolInv, Balanced
<1>5. Balanced(uses', index')
  <2>1. CASE index = LastKey
      BY <1>0, <1>1, <1>3, <1>4, <2>1 DEF Balanced
  <2>2. CASE index # LastKey
      BY <1>0, <1>1, <1>3, <1>4, <2>2 DEF Balanced
  <2>. QED  BY <2>1, <2>2
<1>6. ASSUME NEW u \in [PoolKeys -> Nat], NEW i \in PoolKeys
      PROVE  TakenSince(u, i)' = TakenSince(u, i) + 1
  <2>0. /\ u[LastKey] \in Int /\ uses[LastKey] \in Int /\ i \in Int
        /\ TakenSince(u, i)' = (uses'[LastKey] - u[LastKey]) * KeysCount + index' - i
      BY <1>0 DEF TakenSince, LastKey
  <2>1. CASE index = LastKey
    <3>1. uses'[LastKey] = uses[LastKey] + 1 /\ index' = 0 /\ index = KeysCount - 1
        BY <1>0, <1>1, <1>3, <2>1 DEF LastKey
    <3>2. (uses[LastKey] + 1 - u[LastKey]) * KeysCount = (uses[LastKey] - u[LastKey]) * KeysCount + KeysCount
        BY <2>0
    <3>. QED  BY <2>0, <3>1, <3>2 DEF TakenSince
  <2>2. CASE index # LastKey
    <3>1. uses'[LastKey] = uses[LastKey] /\ index' = index + 1
        BY <1>0, <1>1, <1>3, <2>2
    <3>. QED  BY <1>0, <2>0, <3>1 DEF TakenSince
  <2>. QED  BY <2>1, <2>2
<1>. QED  BY <1>2, <1>5, <1>6

LEMMA TakeStep ==
    ASSUME KeysCount \in Nat, PoolInv, NEW r \in Senders, GetRoundRobinKey(r)
    PROVE  PoolInv'
<1>1. /\ index' \in PoolKeys /\ uses' \in [PoolKeys -> Nat] /\ Balanced(uses', index')
      /\ \A u \in [PoolKeys -> Nat], i \in PoolKeys : TakenSince(u, i)' = TakenSince(u, i) + 1
    BY TakesOne DEF GetRoundRobinKey
<1>2. PoolTyped'
    BY <1>1 DEF GetRoundRobinKey, PoolInv, PoolTyped
<1>3. \A u, i : Balanced(u, i)' <=> Balanced(u', i')
    BY DEF Balanced
<1>4. ASSUME NEW q \in Senders PROVE Counted(q)'
  <2>0. before[q] \in [PoolKeys -> Nat] /\ attempt[q] \in Nat /\ index \in PoolKeys /\ uses \in [PoolKeys -> Nat]
      BY DEF PoolInv, PoolTyped
  <2>1. CASE q = r /\ attempt[r] = 0
    <3>1. attempt'[q] = 1 /\ before'[q] = uses /\ doing'[q] = "calling"
        BY <2>1 DEF GetRoundRobinKey, PoolInv, PoolTyped
    <3>2. TakenSince(uses, index) = 0
        BY <2>0 DEF TakenSince, PoolKeys, LastKey, PoolInv, PoolTyped
    <3>3. (uses'[LastKey] - uses[LastKey]) * KeysCount + index' - index = 1
        BY <1>1, <2>0, <3>2 DEF TakenSince
    <3>. QED  BY <2>0, <3>1, <3>3 DEF Counted, TakenSince, Balanced, PoolInv
  <2>2. CASE ~(q = r /\ attempt[r] = 0)
    <3>1. /\ before'[q] = before[q]
          /\ attempt'[q] = IF q = r THEN attempt[q] + 1 ELSE attempt[q]
          /\ doing'[q] = IF q = r THEN "calling" ELSE doing[q]
        BY <2>2 DEF GetRoundRobinKey, PoolInv, PoolTyped
    <3>2. CASE attempt[q] > 0
      <4>1. PICK i \in PoolKeys : Balanced(before[q], i) /\ attempt[q] <= TakenSince(before[q], i)
          BY <3>2 DEF PoolInv, Counted
      <4>2. TakenSince(before[q], i) \in Int
          BY <2>0 DEF TakenSince, PoolKeys, LastKey, PoolInv, PoolTyped
      <4>3. TakenSince(before[q], i)' = TakenSince(before[q], i) + 1
          BY <1>1, <2>0, <3>1 DEF TakenSince
      <4>4. attempt'[q] > 0 /\ attempt'[q] <= TakenSince(before[q], i)'
          BY <2>0, <3>1, <3>2, <4>1, <4>2, <4>3
      <4>5. Balanced(before[q], i)'
          BY <3>1, <4>1 DEF Balanced
      <4>6. doing'[q] = "failed" => attempt'[q] = MaxRetries * KeysCount
          BY <3>1 DEF PoolInv, Counted
      <4>. QED  BY <4>4, <4>5, <4>6 DEF Counted
    <3>3. CASE attempt[q] = 0
        BY <2>0, <2>2, <3>1, <3>3 DEF PoolInv, Counted
    <3>. QED  BY <2>0, <3>2, <3>3
  <2>. QED  BY <2>1, <2>2
<1>. QED  BY <1>1, <1>2, <1>4 DEF PoolInv, Balanced

LEMMA PoolStep == ASSUME KeysCount \in Nat, PoolInv, [PoolNext]_poolVars PROVE PoolInv'
<1>1. ASSUME NEW r \in Senders, GetRoundRobinKey(r) PROVE PoolInv'
    BY <1>1, TakeStep
<1>2. ASSUME NEW r \in Senders, Called(r) \/ GiveUp(r) PROVE PoolInv'
  <2>1. /\ UNCHANGED <<index, uses, attempt, before>>
        /\ \A q \in Senders \ {r} : doing'[q] = doing[q]
        /\ doing'[r] = "failed" => attempt[r] = MaxRetries * KeysCount
        /\ doing' \in [Senders -> {"ready", "calling", "answered", "failed"}]
      BY <1>2 DEF Called, GiveUp, AllAttempts, PoolInv, PoolTyped
  <2>2. \A q \in Senders : Counted(q)'
      BY <2>1 DEF PoolInv, Counted, Balanced, TakenSince
  <2>. QED  BY <2>1, <2>2 DEF PoolInv, PoolTyped, Balanced
<1>3. CASE UNCHANGED poolVars
    BY <1>3 DEF poolVars, PoolInv, PoolTyped, Counted, Balanced, TakenSince
<1>. QED  BY <1>1, <1>2, <1>3 DEF PoolNext, SendMessage

LEMMA PoolInitInv == ASSUME KeysCount \in Nat, MaxRetries \in Nat, PoolInit PROVE PoolInv
<1>1. 0 \in PoolKeys /\ LastKey \in PoolKeys
    BY DEF PoolInit, PoolKeys, LastKey
<1>. QED  BY <1>1 DEF PoolInit, PoolInv, PoolTyped, Balanced, Counted, PoolKeys

\* M rounds of K keys take each key M times.
LEMMA Rounds ==
    ASSUME NEW K \in Nat, K > 0, NEW M \in Nat, NEW d \in Int,
           NEW i \in 0 .. K - 1, NEW j \in 0 .. K - 1, M * K <= d * K + i - j
    PROVE  d > M \/ (d = M /\ j <= i)
<1>1. CASE d < M
  <2>1. PICK e \in Nat : M = d + 1 + e
    <3>1. M - d - 1 \in Nat
        BY <1>1
    <3>. QED  BY <3>1
  <2>2. M * K = d * K + K + e * K
      BY <2>1
  <2>3. e * K >= 0
      BY <2>1
  <2>4. d * K \in Int /\ e * K \in Int
      BY <2>1
  <2>. QED  BY <2>2, <2>3, <2>4
<1>2. CASE d = M
  <2>1. M * K \in Int
      OBVIOUS
  <2>. QED  BY <1>2, <2>1
<1>. QED  BY <1>1, <1>2

\* No key is used twice more than another, however requests interleave.
THEOREM LoadShared == ASSUME KeysCount \in Nat, MaxRetries \in Nat PROVE PoolSpec => []KeysShared
<1>1. PoolInv => KeysShared
  <2>1. ASSUME PoolInv PROVE \A k \in PoolKeys : uses[k] \in {uses[LastKey], uses[LastKey] + 1}
      BY <2>1 DEF PoolInv, Balanced
  <2>2. ASSUME PoolInv PROVE uses[LastKey] \in Nat
      BY <2>2 DEF PoolInv, PoolTyped, PoolKeys, LastKey
  <2>. QED  BY <2>1, <2>2 DEF KeysShared
<1>. QED  BY <1>1, PoolInitInv, PoolStep, PTL DEF PoolSpec

\* A request gives up only after every key has had MaxRetries turns since it began.
THEOREM GivesUpAfterAllKeys == ASSUME KeysCount \in Nat, MaxRetries \in Nat PROVE PoolSpec => []GivesUpLate
<1>1. ASSUME PoolInv, NEW r \in Senders, doing[r] = "failed", NEW k \in PoolKeys
      PROVE  uses[k] >= before[r][k] + MaxRetries
  <2>0. /\ attempt[r] = MaxRetries * KeysCount /\ KeysCount > 0 /\ LastKey \in PoolKeys /\ k \in Int
        /\ uses \in [PoolKeys -> Nat] /\ before[r] \in [PoolKeys -> Nat] /\ index \in 0 .. KeysCount - 1
        /\ uses[k] = IF k < index THEN uses[LastKey] + 1 ELSE uses[LastKey]
      BY <1>1 DEF PoolInv, PoolTyped, Counted, Balanced, PoolKeys, LastKey
  <2>1. CASE attempt[r] = 0
    <3>1. MaxRetries = 0
        BY <2>0, <2>1
    <3>. QED  BY <1>1, <2>0, <2>1, <3>1 DEF PoolInv, Counted
  <2>2. CASE attempt[r] # 0
    <3>1. PICK i \in PoolKeys : Balanced(before[r], i) /\ attempt[r] <= TakenSince(before[r], i)
        BY <1>1, <2>2 DEF PoolInv, PoolTyped, Counted
    <3>2. before[r][k] = IF k < i THEN before[r][LastKey] + 1 ELSE before[r][LastKey]
        BY <3>1 DEF Balanced
    <3>. DEFINE d == uses[LastKey] - before[r][LastKey]
    <3>3. d > MaxRetries \/ (d = MaxRetries /\ i <= index)
      <4>1. i \in 0 .. KeysCount - 1 /\ d \in Int
          BY <2>0 DEF PoolKeys
      <4>2. MaxRetries * KeysCount <= d * KeysCount + index - i
          BY <2>0, <3>1 DEF TakenSince
      <4>. HIDE DEF d
      <4>. QED  BY <2>0, <4>1, <4>2, Rounds
    <3>4. /\ uses[LastKey] \in Int /\ before[r][LastKey] \in Int
          /\ uses[LastKey] = before[r][LastKey] + d /\ d \in Int /\ index \in Int /\ i \in Int
        BY <2>0 DEF PoolKeys
    <3>. HIDE DEF d
    <3>. QED  BY <2>0, <3>2, <3>3, <3>4
  <2>. QED  BY <2>1, <2>2
<1>2. PoolInv => GivesUpLate
    BY <1>1 DEF GivesUpLate
<1>. QED  BY <1>2, PoolInitInv, PoolStep, PTL DEF PoolSpec

-----------------------------------------------------------------------------
(* Redis: no saved turn and no chat is lost but to what excuses it.         *)

\* What each place in a request knows of what the request has done.
Placed(r) ==
    /\ wrote[r] <= commands /\ unlisted[r] <= commands /\ work[r].readAt <= commands
    /\ step[r] = "none" => wrote[r] = 0 /\ unlisted[r] = 0
    /\ step[r] = "set" => wrote[r] = 0 /\ work[r].kind # "delete"
    /\ step[r] = "sadd" => wrote[r] > 0 /\ work[r].kind # "delete"
    /\ step[r] = "srem" => wrote[r] > 0 /\ work[r].kind = "delete" /\ unlisted[r] = 0
    /\ wrote[r] = 0 => unlisted[r] = 0

\* A turn that was saved before r read the chat is in what r read, or is excused.
ReadAll(r) ==
    step[r] = "set" /\ work[r].kind = "turn" /\ ~work[r].failed =>
        \A t \in Requests :
            work[t].kind = "turn" /\ work[t].chat = work[r].chat
                /\ wrote[t] > 0 /\ wrote[t] <= work[r].readAt
            => t \in work[r].turns \/ Excused(t)

\* Whoever creates a chat is alone with it.
Alone(r) ==
    step[r] = "set" /\ work[r].kind = "create" =>
        \A q \in Requests \ {r} : ~Named(q, work[r].chat)

\* A chat that has a key was saved since it was last deleted.
SavedSince(c) ==
    c \in stored => \A d \in Requests :
        work[d].kind = "delete" /\ work[d].chat = c /\ wrote[d] > 0 =>
            \E s \in Requests : work[s].kind # "delete" /\ work[s].chat = c /\ wrote[s] > wrote[d]

Histories ==
    /\ \A c \in Chats : expired[c] <= commands
    /\ \A r \in Requests : Placed(r)

-----------------------------------------------------------------------------
(* What a step is, as far as the proofs need to know.                       *)

Update(r, w) == work' = [work EXCEPT ![r] = w]

\* A request begins with the session w, to be saved later.
Opens(r, c, w) ==
    /\ step[r] = "none" /\ step' = [step EXCEPT ![r] = "set"]
    /\ w \in Work /\ w.chat = c /\ w.kind # "delete" /\ Update(r, w)
    /\ w.kind = "turn" /\ ~w.failed => w.turns = turns[c]
    /\ IF w.kind = "create" THEN \A q \in Requests : ~Named(q, c) ELSE ~Creating(c)
    /\ commands' \in {commands, Now} /\ w.readAt <= commands'
    /\ UNCHANGED <<stored, turns, listed, wrote, unlisted, expired>>

LEMMA Records ==
    ASSUME RedisTypeOK, NEW k \in Kinds, NEW c \in Chats, NEW f \in BOOLEAN
    PROVE  /\ Fresh(k, c) \in Work
           /\ Session(k, c, turns[c], f) \in Work
           /\ Session(k, c, {}, f) \in Work
BY DEF RedisTypeOK, Work, Fresh, Session, Now

LEMMA CreateOpens ==
    ASSUME RedisTypeOK, NEW r \in Requests, Create(r)
    PROVE  \E c \in Chats, w \in Work : Opens(r, c, w)
<1>1. PICK c \in Chats :
        (\A q \in Requests : ~Named(q, c)) /\ work' = [work EXCEPT ![r] = Fresh("create", c)]
    BY DEF Create
<1>2. Fresh("create", c) \in Work
    BY Records DEF Kinds
<1>3. Fresh("create", c).readAt <= commands
    BY DEF Fresh, RedisTypeOK
<1>. QED
    BY <1>1, <1>2, <1>3 DEF Create, Begins, Goto, Opens, Update, Fresh

LEMMA ReadOpens ==
    ASSUME RedisTypeOK, NEW r \in Requests, NEW c \in Chats, Read(r, c)
    PROVE  \E w \in Work : Opens(r, c, w)
<1>1. PICK k \in {"turn", "reset"} : work' = [work EXCEPT ![r] = Session(k, c, turns[c], FALSE)]
    BY DEF Read
<1>2. Session(k, c, turns[c], FALSE) \in Work
    BY Records DEF Kinds
<1>3. Session(k, c, turns[c], FALSE).readAt <= commands'
    BY DEF Session, Read, RedisTypeOK, Now
<1>4. /\ Session(k, c, turns[c], FALSE).chat = c
      /\ Session(k, c, turns[c], FALSE).kind \notin {"delete", "create"}
      /\ Session(k, c, turns[c], FALSE).turns = turns[c]
    BY DEF Session
<1>. QED
    BY <1>1, <1>2, <1>3, <1>4 DEF Read, Begins, Goto, Opens, Update

LEMMA ReadFailsOpens ==
    ASSUME RedisTypeOK, NEW r \in Requests, NEW c \in Chats, ReadFails(r, c)
    PROVE  \E w \in Work : Opens(r, c, w)
<1>2. Session("turn", c, {}, TRUE) \in Work
    BY Records DEF Kinds
<1>3. Session("turn", c, {}, TRUE).readAt <= commands'
    BY DEF Session, ReadFails, RedisTypeOK, Now
<1>4. /\ Session("turn", c, {}, TRUE).chat = c
      /\ Session("turn", c, {}, TRUE).kind = "turn"
      /\ Session("turn", c, {}, TRUE).failed
    BY DEF Session
<1>. QED
    BY <1>2, <1>3, <1>4 DEF ReadFails, Begins, Goto, Opens, Update

LEMMA StepCases ==
    ASSUME RedisTypeOK, RedisNext
    PROVE  \/ \E r \in Requests, c \in Chats, w \in Work : Opens(r, c, w)
           \/ \E r \in Requests : Set(r)
           \/ \E r \in Requests : SAdd(r)
           \/ \E r \in Requests, c \in Chats : Del(r, c)
           \/ \E r \in Requests : SRem(r)
           \/ \E r \in Requests : Break(r)
           \/ \E c \in Chats : Expire(c)
BY CreateOpens, ReadOpens, ReadFailsOpens DEF RedisNext, Request

-----------------------------------------------------------------------------
LEMMA TypeStep == RedisTypeOK /\ [RedisNext]_redisVars => RedisTypeOK'
<1>. SUFFICES ASSUME RedisTypeOK, [RedisNext]_redisVars PROVE RedisTypeOK'
    OBVIOUS
<1>. USE DEF Steps
<1>0. \A r \in Requests : work[r].chat \in Chats
    BY DEF RedisTypeOK, Work
<1>1. ASSUME NEW r \in Requests, NEW c \in Chats, NEW w \in Work, Opens(r, c, w) PROVE RedisTypeOK'
  <2>1. work' \in [Requests -> Work]
      BY <1>1 DEF RedisTypeOK, Opens, Update
  <2>2. step' \in [Requests -> Steps] /\ commands' \in Nat
      BY <1>1 DEF RedisTypeOK, Opens, Now
  <2>. QED  BY <1>1, <2>1, <2>2 DEF RedisTypeOK, Opens
<1>2. ASSUME NEW r \in Requests, Set(r) PROVE RedisTypeOK'
  <2>1. UpdatedHistory(r) \subseteq Requests
      BY DEF RedisTypeOK, Work, UpdatedHistory
  <2>. QED  BY <1>0, <1>2, <2>1 DEF RedisTypeOK, Set, Goto, Now, ListAlways
<1>3. ASSUME NEW r \in Requests, SAdd(r) \/ SRem(r) \/ Break(r) PROVE RedisTypeOK'
    BY <1>0, <1>3 DEF RedisTypeOK, SAdd, SRem, Break, Goto, Now
<1>4. ASSUME NEW r \in Requests, NEW c \in Chats, Del(r, c) PROVE RedisTypeOK'
  <2>1. Fresh("delete", c) \in Work
      BY Records DEF Kinds
  <2>2. work' \in [Requests -> Work]
      BY <1>4, <2>1 DEF RedisTypeOK, Del
  <2>. QED  BY <1>4, <2>2 DEF RedisTypeOK, Del, Goto, Now
<1>5. ASSUME NEW c \in Chats, Expire(c) PROVE RedisTypeOK'
    BY <1>5 DEF RedisTypeOK, Expire, Now
<1>6. CASE UNCHANGED redisVars
    BY <1>6 DEF RedisTypeOK, redisVars
<1>. QED  BY <1>1, <1>2, <1>3, <1>4, <1>5, <1>6, StepCases

LEMMA HistoriesStep == RedisTypeOK /\ Histories /\ [RedisNext]_redisVars => Histories'
<1>. SUFFICES ASSUME RedisTypeOK, Histories, [RedisNext]_redisVars PROVE Histories'
    OBVIOUS
<1>. USE DEF Histories, Placed
<1>0. /\ commands \in Nat /\ wrote \in [Requests -> Nat] /\ unlisted \in [Requests -> Nat]
      /\ expired \in [Chats -> Nat] /\ step \in [Requests -> Steps]
      /\ \A r \in Requests : work[r].readAt \in Nat
    BY DEF RedisTypeOK, Work
<1>1. ASSUME NEW r \in Requests, NEW c \in Chats, NEW w \in Work, Opens(r, c, w) PROVE Histories'
  <2>1. work'[r] = w /\ \A q \in Requests \ {r} : work'[q] = work[q]
      BY <1>1 DEF RedisTypeOK, Opens, Update
  <2>2. commands' \in Nat /\ commands <= commands'
      BY <1>0, <1>1 DEF Opens, Now
  <2>. QED  BY <1>0, <1>1, <2>1, <2>2 DEF Opens
<1>2. ASSUME NEW r \in Requests, Set(r) PROVE Histories'
    BY <1>0, <1>2 DEF Set, Goto, Now, ListAlways
<1>3. ASSUME NEW r \in Requests, SAdd(r) \/ SRem(r) \/ Break(r) PROVE Histories'
  <2>1. CASE SAdd(r) \/ Break(r)
      BY <1>0, <2>1 DEF SAdd, Break, Goto
  <2>2. CASE SRem(r)
    <3>1. unlisted'[r] = commands + 1 /\ wrote[r] > 0
        BY <1>0, <2>2 DEF SRem, Now
    <3>. QED  BY <1>0, <2>2, <3>1 DEF SRem, Goto, Now
  <2>. QED  BY <1>3, <2>1, <2>2
<1>4. ASSUME NEW r \in Requests, NEW c \in Chats, Del(r, c) PROVE Histories'
  <2>1. /\ work'[r].readAt = 0 /\ work'[r].kind = "delete"
        /\ \A q \in Requests \ {r} : work'[q] = work[q]
      BY <1>4 DEF RedisTypeOK, Del, Fresh
  <2>. QED  BY <1>0, <1>4, <2>1 DEF Del, Begins, Goto, Now
<1>5. ASSUME NEW c \in Chats, Expire(c) PROVE Histories'
    BY <1>0, <1>5 DEF Expire, Now
<1>6. CASE UNCHANGED redisVars
    BY <1>6 DEF redisVars
<1>. QED  BY <1>1, <1>2, <1>3, <1>4, <1>5, <1>6, StepCases

\* The past does not change: what was written stays written, by the same request.
LEMMA PastKept ==
    ASSUME RedisTypeOK, Histories, [RedisNext]_redisVars
    PROVE  /\ \A r \in Requests : wrote[r] > 0 => work'[r] = work[r] /\ wrote'[r] = wrote[r]
           /\ \A c \in Chats : expired'[c] >= expired[c]
<1>. USE DEF Histories, Placed
<1>0. /\ commands \in Nat /\ wrote \in [Requests -> Nat] /\ expired \in [Chats -> Nat]
    BY DEF RedisTypeOK
<1>1. ASSUME NEW r \in Requests, NEW c \in Chats, NEW w \in Work, Opens(r, c, w)
      PROVE  wrote' = wrote /\ expired' = expired /\ \A q \in Requests : wrote[q] > 0 => work'[q] = work[q]
    BY <1>0, <1>1 DEF RedisTypeOK, Opens, Update
<1>2. ASSUME NEW r \in Requests, NEW c \in Chats, Del(r, c)
      PROVE  expired' = expired /\ \A q \in Requests : wrote[q] > 0 => work'[q] = work[q] /\ wrote'[q] = wrote[q]
    BY <1>0, <1>2 DEF RedisTypeOK, Del, Begins
<1>3. ASSUME NEW r \in Requests, Set(r)
      PROVE  expired' = expired /\ work' = work /\ \A q \in Requests : wrote[q] > 0 => wrote'[q] = wrote[q]
    BY <1>0, <1>3 DEF Set
<1>4. ASSUME NEW r \in Requests, SAdd(r) \/ SRem(r) \/ Break(r)
      PROVE  expired' = expired /\ work' = work /\ wrote' = wrote
    BY <1>4 DEF SAdd, SRem, Break
<1>5. ASSUME NEW c \in Chats, Expire(c)
      PROVE  work' = work /\ wrote' = wrote /\ \A d \in Chats : expired'[d] >= expired[d]
    BY <1>0, <1>5 DEF Expire, Now
<1>6. CASE UNCHANGED redisVars
    BY <1>0, <1>6 DEF redisVars
<1>. QED  BY <1>0, <1>1, <1>2, <1>3, <1>4, <1>5, <1>6, StepCases

LEMMA ExcusedStays ==
    ASSUME RedisTypeOK, Histories, [RedisNext]_redisVars, NEW t \in Requests, wrote[t] > 0, Excused(t)
    PROVE  Excused(t)'
<1>0. /\ wrote \in [Requests -> Nat] /\ expired \in [Chats -> Nat] /\ expired' \in [Chats -> Nat]
      /\ work[t].chat \in Chats
    BY TypeStep DEF RedisTypeOK, Work
<1>1. work'[t] = work[t] /\ wrote'[t] = wrote[t]
    BY PastKept
<1>2. CASE expired[work[t].chat] > wrote[t]
  <2>1. expired'[work[t].chat] >= expired[work[t].chat]
      BY <1>0, PastKept
  <2>. QED  BY <1>0, <1>1, <1>2, <2>1 DEF Excused
<1>3. ASSUME NEW r \in Requests, OverwrittenBy(t, r) PROVE Excused(t)'
  <2>1. wrote[r] > 0
      BY <1>0, <1>3 DEF OverwrittenBy
  <2>2. work'[r] = work[r] /\ wrote'[r] = wrote[r]
      BY <2>1, PastKept
  <2>. QED  BY <1>1, <1>3, <2>2 DEF Excused, OverwrittenBy
<1>. QED  BY <1>2, <1>3 DEF Excused

-----------------------------------------------------------------------------
(* TurnsKept.                                                                *)

AloneInv == \A r \in Requests : Alone(r)
ReadInv == \A r \in Requests : ReadAll(r)

\* TurnsKept of one request.
Kept(t) == work[t].kind = "turn" /\ wrote[t] > 0 => t \in turns[work[t].chat] \/ Excused(t)

LEMMA AloneStep == RedisTypeOK /\ Histories /\ AloneInv /\ [RedisNext]_redisVars => AloneInv'
<1>. SUFFICES ASSUME RedisTypeOK, Histories, AloneInv, [RedisNext]_redisVars, NEW q \in Requests PROVE Alone(q)'
    BY DEF AloneInv
<1>0. step \in [Requests -> Steps] /\ work \in [Requests -> Work]
    BY DEF RedisTypeOK
<1>1. ASSUME NEW r \in Requests, NEW c \in Chats, NEW w \in Work, Opens(r, c, w) PROVE Alone(q)'
  <2>1. /\ work'[r] = w /\ \A p \in Requests \ {r} : work'[p] = work[p] /\ step'[p] = step[p]
        /\ w.chat = c
      BY <1>0, <1>1 DEF Opens, Update
  <2>2. CASE q = r
      BY <1>1, <2>1, <2>2 DEF Alone, Named, Opens
  <2>3. CASE q # r
    <3>1. SUFFICES ASSUME step[q] = "set", work[q].kind = "create", work[q].chat = c PROVE FALSE
        BY <2>1, <2>3, <3>1 DEF Alone, AloneInv, Named
    <3>. QED  BY <1>1, <3>1 DEF Opens, Creating, Named
  <2>. QED  BY <2>2, <2>3
<1>2. ASSUME NEW r \in Requests, NEW c \in Chats, Del(r, c) PROVE Alone(q)'
  <2>1. /\ work'[r].chat = c /\ work'[r].kind = "delete"
        /\ \A p \in Requests \ {r} : work'[p] = work[p] /\ step'[p] = step[p]
      BY <1>0, <1>2 DEF Del, Goto, Fresh
  <2>2. SUFFICES ASSUME q # r, step[q] = "set", work[q].kind = "create", work[q].chat = c PROVE FALSE
      BY <2>1, <2>2 DEF Alone, AloneInv, Named
  <2>. QED  BY <1>2, <2>2 DEF Del, Creating, Named
<1>3. ASSUME NEW r \in Requests, Set(r) \/ SAdd(r) \/ SRem(r) \/ Break(r) PROVE Alone(q)'
  <2>1. /\ work' = work /\ step[r] # "none" /\ step'[r] # "set"
        /\ \A p \in Requests \ {r} : step'[p] = step[p]
      BY <1>0, <1>3 DEF Set, SAdd, SRem, Break, Goto, ListAlways
  <2>. QED  BY <2>1 DEF Alone, AloneInv, Named
<1>4. CASE UNCHANGED <<step, work>>
    BY <1>4 DEF Alone, AloneInv, Named
<1>. QED  BY <1>1, <1>2, <1>3, <1>4, StepCases DEF Expire, redisVars

LEMMA ReadStep ==
    RedisTypeOK /\ Histories /\ ReadInv /\ TurnsKept /\ [RedisNext]_redisVars => ReadInv'
<1>. SUFFICES ASSUME RedisTypeOK, Histories, ReadInv, TurnsKept, [RedisNext]_redisVars,
                     NEW r \in Requests, NEW t \in Requests,
                     step'[r] = "set", work'[r].kind = "turn", ~work'[r].failed,
                     work'[t].kind = "turn", work'[t].chat = work'[r].chat,
                     wrote'[t] > 0, wrote'[t] <= work'[r].readAt
              PROVE  t \in work'[r].turns \/ Excused(t)'
    BY DEF ReadInv, ReadAll
<1>0. /\ step \in [Requests -> Steps] /\ work \in [Requests -> Work] /\ wrote \in [Requests -> Nat]
      /\ commands \in Nat
    BY DEF RedisTypeOK
\* Whoever writes now does so after every read.
<1>1. ASSUME step[r] = "set", work'[r] = work[r], wrote'[t] = wrote[t], work'[t] = work[t]
      PROVE  t \in work'[r].turns \/ Excused(t)'
    BY <1>1, ExcusedStays DEF ReadInv, ReadAll
<1>2. ASSUME NEW q \in Requests, NEW c \in Chats, NEW w \in Work, Opens(q, c, w)
      PROVE  t \in work'[r].turns \/ Excused(t)'
  <2>1. /\ work'[q] = w /\ \A p \in Requests \ {q} : work'[p] = work[p] /\ step'[p] = step[p]
        /\ w.chat = c /\ wrote' = wrote /\ turns' = turns /\ wrote[q] = 0
      BY <1>0, <1>2 DEF Opens, Update, Histories, Placed
  <2>2. t # q
      BY <2>1
  <2>3. CASE r = q
    <3>1. t \in turns[c] \/ Excused(t)
        BY <2>1, <2>2, <2>3 DEF TurnsKept
    <3>. QED  BY <1>2, <2>1, <2>3, <3>1, ExcusedStays DEF Opens
  <2>4. CASE r # q
      BY <1>1, <2>1, <2>2, <2>4
  <2>. QED  BY <2>3, <2>4
<1>3. ASSUME NEW q \in Requests, Set(q) PROVE t \in work'[r].turns \/ Excused(t)'
  <2>1. /\ work' = work /\ step'[q] = "sadd" /\ wrote'[q] = commands + 1
        /\ \A p \in Requests \ {q} : step'[p] = step[p] /\ wrote'[p] = wrote[p]
      BY <1>0, <1>3 DEF Set, Goto, Now, ListAlways
  <2>2. work[r].readAt <= commands /\ work[r].readAt \in Nat
      BY <1>0 DEF Histories, Placed, Work
  <2>3. t # q
      BY <1>0, <2>1, <2>2
  <2>. QED  BY <1>1, <2>1, <2>3
<1>4. ASSUME NEW q \in Requests, NEW c \in Chats, Del(q, c) PROVE t \in work'[r].turns \/ Excused(t)'
  <2>1. /\ work'[q].kind = "delete" /\ step'[q] = "srem"
        /\ \A p \in Requests \ {q} : step'[p] = step[p] /\ wrote'[p] = wrote[p] /\ work'[p] = work[p]
      BY <1>0, <1>4 DEF Del, Goto, Fresh
  <2>. QED  BY <1>1, <2>1
<1>5. ASSUME NEW q \in Requests, SAdd(q) \/ SRem(q) \/ Break(q) PROVE t \in work'[r].turns \/ Excused(t)'
  <2>1. /\ work' = work /\ wrote' = wrote /\ step'[q] # "set"
        /\ \A p \in Requests \ {q} : step'[p] = step[p]
      BY <1>0, <1>5 DEF SAdd, SRem, Break, Goto
  <2>. QED  BY <1>1, <2>1
<1>6. CASE UNCHANGED <<step, work, wrote>>
    BY <1>1, <1>6
<1>. QED  BY <1>2, <1>3, <1>4, <1>5, <1>6, StepCases DEF Expire, redisVars

LEMMA KeptStep ==
    RedisTypeOK /\ Histories /\ AloneInv /\ ReadInv /\ TurnsKept /\ [RedisNext]_redisVars => TurnsKept'
<1>. SUFFICES ASSUME RedisTypeOK, Histories, AloneInv, ReadInv, TurnsKept, [RedisNext]_redisVars,
                     NEW t \in Requests, work'[t].kind = "turn", wrote'[t] > 0
              PROVE  t \in turns'[work'[t].chat] \/ Excused(t)'
    BY DEF TurnsKept
<1>0. /\ step \in [Requests -> Steps] /\ work \in [Requests -> Work] /\ wrote \in [Requests -> Nat]
      /\ turns \in [Chats -> SUBSET Requests] /\ expired \in [Chats -> Nat] /\ commands \in Nat
      /\ \A q \in Requests : work[q].chat \in Chats /\ wrote[q] <= commands /\ work[q].readAt <= commands
    BY DEF RedisTypeOK, Work, Histories, Placed
\* Where the turn was saved before and its chat is not touched, nothing changes.
<1>1. ASSUME wrote'[t] = wrote[t], work'[t] = work[t], turns'[work[t].chat] = turns[work[t].chat]
      PROVE  t \in turns'[work'[t].chat] \/ Excused(t)'
    BY <1>1, ExcusedStays DEF TurnsKept
<1>2. ASSUME NEW q \in Requests, NEW c \in Chats, NEW w \in Work, Opens(q, c, w)
      PROVE  t \in turns'[work'[t].chat] \/ Excused(t)'
  <2>1. wrote' = wrote /\ turns' = turns /\ wrote[q] = 0
      BY <1>2 DEF Opens, Histories, Placed
  <2>2. work'[t] = work[t]
      BY <1>0, <1>2, <2>1 DEF Opens, Update
  <2>. QED  BY <1>1, <2>1, <2>2
<1>3. ASSUME NEW q \in Requests, Set(q)
      PROVE  t \in turns'[work'[t].chat] \/ Excused(t)'
  <2>. DEFINE c == work[q].chat
  <2>1. /\ work' = work /\ wrote'[q] = commands + 1 /\ turns'[c] = UpdatedHistory(q)
        /\ \A p \in Requests \ {q} : wrote'[p] = wrote[p]
        /\ \A d \in Chats \ {c} : turns'[d] = turns[d]
        /\ step[q] = "set" /\ work[q].kind # "delete"
      BY <1>0, <1>3 DEF Set, Now, Histories, Placed
  <2>2. CASE t = q
      BY <2>1, <2>2 DEF UpdatedHistory
  <2>3. CASE work[t].chat # c
      BY <1>0, <1>1, <2>1, <2>3
  <2>4. CASE t # q /\ work[t].chat = c
    <3>1. wrote'[t] = wrote[t] /\ wrote[t] > 0 /\ wrote'[q] > wrote'[t]
        BY <1>0, <2>1, <2>4
    <3>2. step[t] # "none"
        BY <3>1 DEF Histories, Placed
    <3>3. work[q].kind # "create"
        BY <2>1, <2>4, <3>2 DEF AloneInv, Alone, Named
    <3>4. CASE work[q].kind = "turn" => work[q].failed \/ work[q].readAt < wrote[t]
      <4>1. OverwrittenBy(t, q)'
          BY <2>1, <2>4, <3>1, <3>3, <3>4 DEF OverwrittenBy
      <4>. QED  BY <4>1 DEF Excused
    <3>5. CASE work[q].kind = "turn" /\ ~work[q].failed /\ wrote[t] <= work[q].readAt
      <4>1. t \in work[q].turns \/ Excused(t)
          BY <2>1, <2>4, <3>1, <3>5 DEF ReadInv, ReadAll
      <4>. QED  BY <2>1, <2>4, <3>1, <3>5, <4>1, ExcusedStays DEF UpdatedHistory
    <3>. QED  BY <1>0, <3>4, <3>5 DEF Work
  <2>. QED  BY <2>2, <2>3, <2>4
<1>4. ASSUME NEW q \in Requests, NEW c \in Chats, Del(q, c)
      PROVE  t \in turns'[work'[t].chat] \/ Excused(t)'
  <2>1. /\ work'[q].kind = "delete" /\ work'[q].chat = c /\ wrote'[q] = commands + 1
        /\ \A p \in Requests \ {q} : work'[p] = work[p] /\ wrote'[p] = wrote[p]
        /\ \A d \in Chats \ {c} : turns'[d] = turns[d]
      BY <1>0, <1>4 DEF Del, Fresh, Now
  <2>2. t # q
      BY <2>1
  <2>3. CASE work[t].chat # c
      BY <1>0, <1>1, <2>1, <2>2, <2>3
  <2>4. CASE work[t].chat = c
    <3>1. OverwrittenBy(t, q)'
        BY <1>0, <2>1, <2>2, <2>4 DEF OverwrittenBy
    <3>. QED  BY <3>1 DEF Excused
  <2>. QED  BY <2>3, <2>4
<1>5. ASSUME NEW c \in Chats, Expire(c)
      PROVE  t \in turns'[work'[t].chat] \/ Excused(t)'
  <2>1. /\ work' = work /\ wrote' = wrote /\ expired'[c] = commands + 1
        /\ \A d \in Chats \ {c} : turns'[d] = turns[d]
      BY <1>0, <1>5 DEF Expire, Now
  <2>2. CASE work[t].chat # c
      BY <1>0, <1>1, <2>1, <2>2
  <2>3. CASE work[t].chat = c
      BY <1>0, <2>1, <2>3 DEF Excused
  <2>. QED  BY <2>2, <2>3
<1>6. CASE UNCHANGED <<turns, work, wrote>>
    BY <1>1, <1>6
<1>. QED  BY <1>2, <1>3, <1>4, <1>5, <1>6, StepCases DEF SAdd, SRem, Break, redisVars

LEMMA InitSound ==
    ASSUME RedisInit
    PROVE  RedisTypeOK /\ Histories /\ AloneInv /\ ReadInv /\ TurnsKept
               /\ (\A c \in Chats : SavedSince(c)) /\ StoredIsListed
<1>1. PICK c0 \in Chats : work = [r \in Requests |-> Fresh("turn", c0)]
    BY DEF RedisInit
<1>2. work \in [Requests -> Work] /\ \A r \in Requests : work[r].readAt = 0
    BY <1>1 DEF Fresh, Work, Kinds
<1>3. RedisTypeOK
    BY <1>2 DEF RedisInit, RedisTypeOK, Steps
<1>4. Histories
    BY <1>2 DEF RedisInit, Histories, Placed
<1>. QED
    BY <1>3, <1>4 DEF RedisInit, AloneInv, Alone, ReadInv, ReadAll, TurnsKept, SavedSince, StoredIsListed

\* The store's state keeps its types, however requests interleave, fail or break.
THEOREM RedisTyped == RedisSpec => []RedisTypeOK
<1>1. RedisInit => RedisTypeOK
    BY InitSound
<1>. QED  BY <1>1, TypeStep, PTL DEF RedisSpec

\* A saved turn stays in its chat unless the chat expired, was reset or deleted, or a
\* request that did not see the turn saved over it.
THEOREM SavedTurnsKept == RedisSpec => []TurnsKept
<1>. DEFINE I == RedisTypeOK /\ Histories /\ AloneInv /\ ReadInv /\ TurnsKept
<1>1. RedisInit => I
    BY InitSound
<1>2. I /\ [RedisNext]_redisVars => I'
    BY TypeStep, HistoriesStep, AloneStep, ReadStep, KeptStep
<1>3. I => TurnsKept
    OBVIOUS
<1>. QED  BY <1>1, <1>2, <1>3, PTL DEF RedisSpec

-----------------------------------------------------------------------------
(* StoredIsListed.                                                           *)

SavedInv == \A c \in Chats : SavedSince(c)

\* A deletion that came before and after the latest save s.
AroundBy(c, s, d) ==
    /\ work[d].chat = c /\ work[d].kind = "delete"
    /\ wrote[d] < wrote[s] /\ wrote[s] < unlisted[d]

LEMMA SavedStep == RedisTypeOK /\ Histories /\ SavedInv /\ [RedisNext]_redisVars => SavedInv'
<1>. SUFFICES ASSUME RedisTypeOK, Histories, SavedInv, [RedisNext]_redisVars,
                     NEW c \in Chats, c \in stored', NEW d \in Requests,
                     work'[d].kind = "delete", work'[d].chat = c, wrote'[d] > 0
              PROVE  \E s \in Requests :
                        work'[s].kind # "delete" /\ work'[s].chat = c /\ wrote'[s] > wrote'[d]
    BY DEF SavedInv, SavedSince
<1>0. /\ step \in [Requests -> Steps] /\ work \in [Requests -> Work] /\ wrote \in [Requests -> Nat]
      /\ commands \in Nat /\ stored \subseteq Chats
      /\ \A q \in Requests : work[q].chat \in Chats /\ wrote[q] <= commands
    BY DEF RedisTypeOK, Work, Histories, Placed
\* Neither the deletion nor the chat is new.
<1>1. ASSUME c \in stored, work'[d] = work[d], wrote'[d] = wrote[d]
      PROVE  \E s \in Requests :
                work'[s].kind # "delete" /\ work'[s].chat = c /\ wrote'[s] > wrote'[d]
  <2>1. PICK s \in Requests : work[s].kind # "delete" /\ work[s].chat = c /\ wrote[s] > wrote[d]
      BY <1>1 DEF SavedInv, SavedSince
  <2>2. wrote[s] > 0
      BY <1>0, <2>1
  <2>3. work'[s] = work[s] /\ wrote'[s] = wrote[s]
      BY <2>2, PastKept
  <2>. QED  BY <1>1, <2>1, <2>3
<1>2. ASSUME NEW q \in Requests, NEW b \in Chats, NEW w \in Work, Opens(q, b, w)
      PROVE  stored' = stored /\ work'[d] = work[d] /\ wrote'[d] = wrote[d]
    BY <1>0, <1>2 DEF Opens, Update, Histories, Placed
<1>3. ASSUME NEW q \in Requests, Set(q)
      PROVE  \E s \in Requests :
                work'[s].kind # "delete" /\ work'[s].chat = c /\ wrote'[s] > wrote'[d]
  <2>1. /\ work' = work /\ wrote'[q] = commands + 1 /\ stored' = stored \cup {work[q].chat}
        /\ \A p \in Requests \ {q} : wrote'[p] = wrote[p]
        /\ work[q].kind # "delete"
      BY <1>0, <1>3 DEF Set, Now, Histories, Placed
  <2>2. d # q
      BY <2>1
  <2>3. CASE work[q].chat = c
      BY <1>0, <2>1, <2>2, <2>3
  <2>4. CASE work[q].chat # c
      BY <1>1, <2>1, <2>2, <2>4
  <2>. QED  BY <2>3, <2>4
<1>4. ASSUME NEW q \in Requests, NEW b \in Chats, Del(q, b)
      PROVE  c \in stored /\ work'[d] = work[d] /\ wrote'[d] = wrote[d]
  <2>1. /\ work'[q].chat = b /\ stored' = stored \ {b}
        /\ \A p \in Requests \ {q} : work'[p] = work[p] /\ wrote'[p] = wrote[p]
      BY <1>0, <1>4 DEF Del, Fresh
  <2>. QED  BY <2>1
<1>5. ASSUME NEW b \in Chats, Expire(b)
      PROVE  c \in stored /\ work'[d] = work[d] /\ wrote'[d] = wrote[d]
    BY <1>5 DEF Expire
<1>6. CASE UNCHANGED <<stored, work, wrote>>
    BY <1>1, <1>6
<1>. QED  BY <1>1, <1>2, <1>3, <1>4, <1>5, <1>6, StepCases DEF SAdd, SRem, Break, redisVars

LEMMA ListedStep ==
    RedisTypeOK /\ Histories /\ SavedInv /\ StoredIsListed /\ [RedisNext]_redisVars => StoredIsListed'
<1>. SUFFICES ASSUME RedisTypeOK, Histories, SavedInv, StoredIsListed, [RedisNext]_redisVars,
                     NEW c \in Chats, c \in stored', c \notin listed',
                     NEW s \in Requests, LastSave(c, s)'
              PROVE  step'[s] \in {"sadd", "broken"} \/ \E d \in Requests : AroundBy(c, s, d)'
    BY TypeStep DEF StoredIsListed, AroundBy, RedisTypeOK
<1>. DEFINE Goal == step'[s] \in {"sadd", "broken"} \/ \E d \in Requests : AroundBy(c, s, d)'
<1>0. /\ step \in [Requests -> Steps] /\ work \in [Requests -> Work] /\ wrote \in [Requests -> Nat]
      /\ unlisted \in [Requests -> Nat] /\ commands \in Nat
      /\ \A q \in Requests : /\ work[q].chat \in Chats /\ wrote[q] <= commands
                             /\ wrote[q] = 0 => unlisted[q] = 0
    BY DEF RedisTypeOK, Work, Histories, Placed
<1>s. /\ work'[s].chat = c /\ work'[s].kind # "delete" /\ wrote'[s] > 0
      /\ \A q \in Requests : work'[q].chat = c /\ work'[q].kind # "delete" => wrote'[q] <= wrote'[s]
    BY DEF LastSave
\* Deletions that are over stay so.
<1>d. ASSUME NEW d \in Requests, AroundBy(c, s, d), wrote'[s] = wrote[s], unlisted'[d] = unlisted[d]
      PROVE  AroundBy(c, s, d)'
  <2>1. wrote[d] > 0
      BY <1>0, <1>d DEF AroundBy
  <2>2. work'[d] = work[d] /\ wrote'[d] = wrote[d]
      BY <2>1, PastKept
  <2>. QED  BY <1>d, <2>2 DEF AroundBy
\* The chat was stored and not listed before, and s was its latest save.
<1>1. ASSUME c \in stored, c \notin listed, wrote'[s] = wrote[s], work'[s] = work[s],
             step'[s] = step[s], unlisted' = unlisted,
             \A q \in Requests : wrote[q] > 0 => work'[q] = work[q] /\ wrote'[q] = wrote[q]
      PROVE  Goal
  <2>1. LastSave(c, s)
      BY <1>0, <1>1, <1>s DEF LastSave
  <2>2. step[s] \in {"sadd", "broken"} \/ \E d \in Requests : AroundBy(c, s, d)
      BY <1>1, <2>1 DEF StoredIsListed, AroundBy
  <2>. QED  BY <1>1, <1>d, <2>2
<1>2. ASSUME NEW q \in Requests, NEW b \in Chats, NEW w \in Work, Opens(q, b, w) PROVE Goal
  <2>1. wrote' = wrote /\ unlisted' = unlisted /\ stored' = stored /\ listed' = listed /\ wrote[q] = 0
      BY <1>2 DEF Opens, Histories, Placed
  <2>2. s # q
      BY <1>0, <1>s, <2>1
  <2>3. step'[s] = step[s] /\ work'[s] = work[s]
      BY <1>0, <1>2, <2>2 DEF Opens, Update
  <2>. QED  BY <1>1, <2>1, <2>3, PastKept
<1>3. ASSUME NEW q \in Requests, Set(q) PROVE Goal
  <2>1. /\ work' = work /\ wrote'[q] = commands + 1 /\ step'[q] = "sadd" /\ wrote[q] = 0
        /\ stored' = stored \cup {work[q].chat} /\ listed' = listed /\ unlisted' = unlisted
        /\ \A p \in Requests \ {q} : wrote'[p] = wrote[p] /\ step'[p] = step[p]
        /\ work[q].kind # "delete"
      BY <1>0, <1>3 DEF Set, Now, Goto, ListAlways, Histories, Placed
  <2>2. CASE work[q].chat = c
    <3>1. s = q
        BY <1>0, <1>s, <2>1, <2>2
    <3>. QED  BY <2>1, <3>1
  <2>3. CASE work[q].chat # c
      BY <1>0, <1>1, <1>s, <2>1, <2>3
  <2>. QED  BY <2>2, <2>3
<1>4. ASSUME NEW q \in Requests, SAdd(q) PROVE Goal
  <2>1. /\ work' = work /\ wrote' = wrote /\ unlisted' = unlisted /\ stored' = stored
        /\ listed' = listed \cup {work[q].chat} /\ \A p \in Requests \ {q} : step'[p] = step[p]
      BY <1>0, <1>4 DEF SAdd, Goto
  <2>2. s # q
      BY <1>s, <2>1
  <2>. QED  BY <1>1, <2>1, <2>2
<1>5. ASSUME NEW q \in Requests, NEW b \in Chats, Del(q, b) PROVE Goal
  <2>1. /\ work'[q].kind = "delete" /\ wrote[q] = 0
        /\ unlisted' = unlisted /\ stored' = stored \ {b} /\ listed' = listed
        /\ \A p \in Requests \ {q} : work'[p] = work[p] /\ wrote'[p] = wrote[p] /\ step'[p] = step[p]
      BY <1>0, <1>5 DEF Del, Begins, Goto, Fresh, Histories, Placed
  <2>2. s # q
      BY <1>s, <2>1
  <2>. QED  BY <1>1, <2>1, <2>2, PastKept
<1>6. ASSUME NEW q \in Requests, SRem(q) PROVE Goal
  <2>1. /\ work' = work /\ wrote' = wrote /\ stored' = stored
        /\ listed' = listed \ {work[q].chat} /\ unlisted'[q] = commands + 1
        /\ \A p \in Requests \ {q} : step'[p] = step[p] /\ unlisted'[p] = unlisted[p]
        /\ work[q].kind = "delete" /\ wrote[q] > 0 /\ unlisted[q] = 0
      BY <1>0, <1>6 DEF SRem, Goto, Now, Histories, Placed
  <2>2. LastSave(c, s) /\ c \in stored /\ s # q
      BY <1>s, <2>1 DEF LastSave
  <2>3. CASE work[q].chat = c
    <3>1. PICK p \in Requests : work[p].kind # "delete" /\ work[p].chat = c /\ wrote[p] > wrote[q]
        BY <2>1, <2>2, <2>3 DEF SavedInv, SavedSince
    <3>2. wrote[p] <= wrote[s]
        BY <2>2, <3>1 DEF LastSave
    <3>3. wrote[q] < wrote[s] /\ wrote[s] < commands + 1
        BY <1>0, <3>1, <3>2
    <3>4. AroundBy(c, s, q)'
        BY <2>1, <2>3, <3>3 DEF AroundBy
    <3>. QED  BY <3>4
  <2>4. CASE work[q].chat # c
    <3>1. step[s] \in {"sadd", "broken"} \/ \E d \in Requests : AroundBy(c, s, d)
        BY <2>1, <2>2, <2>4 DEF StoredIsListed, AroundBy
    <3>2. ASSUME NEW d \in Requests, AroundBy(c, s, d) PROVE AroundBy(c, s, d)'
      <4>1. d # q
          BY <2>4, <3>2 DEF AroundBy
      <4>. QED  BY <1>d, <2>1, <3>2, <4>1
    <3>. QED  BY <2>1, <2>2, <3>1, <3>2
  <2>. QED  BY <2>3, <2>4
<1>7. ASSUME NEW q \in Requests, Break(q) PROVE Goal
  <2>1. /\ work' = work /\ wrote' = wrote /\ stored' = stored /\ listed' = listed
        /\ unlisted' = unlisted /\ step'[q] = "broken"
        /\ \A p \in Requests \ {q} : step'[p] = step[p]
      BY <1>0, <1>7 DEF Break, Goto
  <2>2. CASE s = q
      BY <2>1, <2>2
  <2>3. CASE s # q
      BY <1>1, <2>1, <2>3
  <2>. QED  BY <2>2, <2>3
<1>8. ASSUME NEW b \in Chats, Expire(b) PROVE Goal
  <2>1. UNCHANGED <<listed, step, work, wrote, unlisted>> /\ c \in stored
      BY <1>8 DEF Expire
  <2>. QED  BY <1>1, <2>1
<1>9. CASE UNCHANGED redisVars
    BY <1>1, <1>9 DEF redisVars
<1>. QED  BY <1>2, <1>3, <1>4, <1>5, <1>6, <1>7, <1>8, <1>9, StepCases

\* A chat that has a key is on the list, unless its latest save is under way, was cut
\* short or came between the two commands of a deletion.
THEOREM StoredChatsListed == RedisSpec => []StoredIsListed
<1>. DEFINE I == RedisTypeOK /\ Histories /\ SavedInv /\ StoredIsListed
<1>1. RedisInit => I
    BY InitSound DEF SavedInv
<1>2. I /\ [RedisNext]_redisVars => I'
    BY TypeStep, HistoriesStep, SavedStep, ListedStep
<1>3. I => StoredIsListed
    OBVIOUS
<1>. QED  BY <1>1, <1>2, <1>3, PTL DEF RedisSpec
=============================================================================
