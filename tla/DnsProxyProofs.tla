--------------------------- MODULE DnsProxyProofs ---------------------------
(***************************************************************************)
(* Theorems about DnsProxy, for any number of handlers, questions,         *)
(* transaction ids and sessions and for every TTL and deadline.            *)
(***************************************************************************)
EXTENDS DnsProxy, TLAPS

Query == [q : Questions, id : Ids]

(* A handler that is not idle has a query; what waits in its stream        *)
(* answers that query, and is no older than the transaction.               *)
HandlerInv ==
    /\ hPc \in [Callers -> {"idle", "lookup", "open", "opening", "write", "read"}]
    /\ query \in [Callers -> Query \cup {None}]
    /\ timer \in [Callers -> 0..(Deadline + 1)]
    /\ arrived \in [Callers -> Answer \cup {None}]
    /\ \A h \in Callers : hPc[h] # "idle" => query[h] \in Query
    /\ \A h \in Callers : arrived[h] # None =>
           /\ hPc[h] = "read"
           /\ arrived[h].q = query[h].q
           /\ arrived[h].id = query[h].id
           /\ arrived[h].age <= timer[h]

(* An entry answers its key; until it expires its answer is older than it  *)
(* was when it was stored by no more than its time in the cache.           *)
CacheInv ==
    /\ cache \in [Questions -> Entry \cup {None}]
    /\ \A q \in Questions : cache[q] # None =>
           /\ cache[q].ans.q = q
           /\ cache[q].stored <= TTL =>
                  cache[q].ans.age <= Deadline + 1 + cache[q].stored

(* The last reply is typed, matches its query and is fresh.                *)
ReplyInv ==
    /\ reply \in [to : Query, ans : Answer] \cup {None}
    /\ ReplyMatches
    /\ ReplyFresh

DInv == HandlerInv /\ CacheInv /\ ReplyInv

(* The empty cache and idle handlers.                                      *)
LEMMA DInitInv == DInit => DInv
  BY DnsAssumption DEF DInit, DInv, HandlerInv, CacheInv, ReplyInv, ReplyMatches, ReplyFresh

(* A handler's return leaves its own state consistent.                     *)
LEMMA FinishInv ==
  ASSUME HandlerInv, NEW h \in Callers, Finish(h)
  PROVE  HandlerInv'
  BY DnsAssumption DEF HandlerInv, Finish, Goto

(* So does a move to a state in which it waits for no answer, or to its    *)
(* first wait for one.                                                     *)
LEMMA GotoInv ==
  ASSUME HandlerInv, NEW h \in Callers, hPc[h] \notin {"idle", "read"},
         NEW pc \in {"lookup", "open", "opening", "write", "read"},
         Goto(h, pc), UNCHANGED <<query, timer, arrived>>
  PROVE  HandlerInv'
  BY DEF HandlerInv, Goto

(* A cached answer goes out under the query's own id, and not too late.    *)
LEMMA HitInv ==
  ASSUME DInv, NEW h \in Callers, query[h] \in Query, Found(query[h].q)
  PROVE  Hit(h) \in [q : {query[h].q}, id : {query[h].id}, age : 0..MaxAge]
  <1> DEFINE e == cache[query[h].q]
  <1>1. query[h].q \in Questions /\ query[h].id \in Ids
    BY DEF Query
  <1>2. e \in Entry /\ e.ans.q = query[h].q /\ e.stored <= TTL
        /\ e.ans.age <= Deadline + 1 + e.stored
    BY <1>1 DEF DInv, CacheInv, Found
  <1>3. e.ans \in Answer /\ e.stored \in Nat /\ e.ans.age \in Nat
    BY <1>2, DnsAssumption DEF Entry, Answer, MaxAge
  <1>4. e.ans.age \in 0..MaxAge
    BY <1>2, <1>3, DnsAssumption DEF MaxAge
  <1> QED
    BY <1>2, <1>3, <1>4 DEF Hit, Answer

(* A hit replies and ends the query; a miss goes on to the pool.           *)
LEMMA LookupInv ==
  ASSUME DInv, NEW h \in Callers, Lookup(h)
  PROVE  DInv'
  <1>1. query[h] \in Query /\ CacheInv' /\ hPc[h] = "lookup"
    BY DEF DInv, HandlerInv, CacheInv, Lookup
  <1>2. CASE Found(query[h].q)
    <2>1. Finish(h) /\ reply' = [to |-> query[h], ans |-> Hit(h)]
      BY <1>2 DEF Lookup
    <2>2. Hit(h) \in [q : {query[h].q}, id : {query[h].id}, age : 0..MaxAge]
      BY <1>1, <1>2, HitInv
    <2>3. ReplyInv'
      BY <1>1, <2>1, <2>2, DnsAssumption
      DEF ReplyInv, ReplyMatches, ReplyFresh, Answer, Query, MaxAge
    <2> QED
      BY <1>1, <2>1, <2>3, FinishInv DEF DInv
  <1>3. CASE ~Found(query[h].q)
    <2>1. HandlerInv'
      BY <1>1, <1>3, GotoInv DEF DInv, Lookup
    <2> QED
      BY <1>1, <1>3, <2>1 DEF DInv, Lookup, ReplyInv, ReplyMatches, ReplyFresh
  <1> QED
    BY <1>2, <1>3

(* An answer that came in time is stored and goes out.                     *)
LEMMA ReadAnswerInv ==
  ASSUME DInv, NEW h \in Callers, ReadAnswer(h)
  PROVE  DInv'
  <1>1. /\ query[h] \in Query /\ arrived[h] \in Answer
        /\ arrived[h].q = query[h].q /\ arrived[h].id = query[h].id
        /\ arrived[h].age <= timer[h] /\ timer[h] \in 0..(Deadline + 1)
    BY DEF DInv, HandlerInv, ReadAnswer
  <1>2. arrived[h].age \in Nat /\ arrived[h].age <= Deadline + 1
    BY <1>1, DnsAssumption DEF Answer, MaxAge
  <1>3. CacheInv'
    <2>1. query[h].q \in Questions /\ [ans |-> arrived[h], stored |-> 0] \in Entry
      BY <1>1, DnsAssumption DEF Query, Entry
    <2> QED
      BY <1>1, <1>2, <2>1, DnsAssumption DEF DInv, CacheInv, ReadAnswer
  <1>4. ReplyInv'
    BY <1>1, <1>2, DnsAssumption
    DEF ReplyInv, ReplyMatches, ReplyFresh, ReadAnswer, MaxAge
  <1> QED
    BY <1>3, <1>4, FinishInv DEF DInv, ReadAnswer

(* Ageing by a tick.                                                       *)
LEMMA OlderInv ==
  ASSUME NEW a \in Answer \cup {None}
  PROVE  /\ Older(a) \in Answer \cup {None}
         /\ a = None => Older(a) = None
         /\ a # None => /\ Older(a).q = a.q /\ Older(a).id = a.id
                        /\ Older(a) \in Answer
                        /\ Older(a).age <= a.age + 1
  BY DnsAssumption DEF Older, UpTo, Answer, MaxAge

(* Time ages answers, entries and transactions together.                   *)
LEMMA TickInv ==
  ASSUME DInv, Tick
  PROVE  DInv'
  <1>1. HandlerInv'
    <2>1. ASSUME NEW h \in Callers
          PROVE  /\ timer'[h] \in 0..(Deadline + 1)
                 /\ hPc[h] \in {"write", "read"} => timer'[h] = timer[h] + 1
      BY DnsAssumption DEF DInv, HandlerInv, Tick
    <2>2. timer' \in [Callers -> 0..(Deadline + 1)]
      BY <2>1 DEF Tick
    <2>3. arrived' \in [Callers -> Answer \cup {None}]
      BY OlderInv DEF DInv, HandlerInv, Tick
    <2>4. ASSUME NEW h \in Callers, arrived'[h] # None
          PROVE  /\ hPc'[h] = "read"
                 /\ arrived'[h].q = query'[h].q
                 /\ arrived'[h].id = query'[h].id
                 /\ arrived'[h].age <= timer'[h]
      <3>1. arrived'[h] = Older(arrived[h]) /\ arrived[h] \in Answer \cup {None}
        BY DEF DInv, HandlerInv, Tick
      <3>2. arrived[h] \in Answer /\ hPc[h] = "read" /\ arrived[h].age <= timer[h]
            /\ arrived[h].q = query[h].q /\ arrived[h].id = query[h].id
        BY <2>4, <3>1, OlderInv DEF DInv, HandlerInv
      <3>3. arrived'[h].age \in Nat /\ arrived[h].age \in Nat /\ timer[h] \in Nat
        BY <2>4, <3>1, <3>2, OlderInv, DnsAssumption DEF Answer, MaxAge, DInv, HandlerInv
      <3> QED
        BY <2>1, <2>4, <3>1, <3>2, <3>3, OlderInv DEF Tick
    <2> QED
      BY <2>2, <2>3, <2>4 DEF DInv, HandlerInv, Tick
  <1>2. CacheInv'
    <2>1. ASSUME NEW q \in Questions, cache[q] # None
          PROVE  /\ cache'[q] \in Entry
                 /\ cache'[q].ans.q = q
                 /\ cache'[q].stored <= TTL =>
                        cache'[q].ans.age <= Deadline + 1 + cache'[q].stored
      <3> DEFINE e == cache[q]
      <3>1. e \in Entry /\ e.ans.q = q
            /\ (e.stored <= TTL => e.ans.age <= Deadline + 1 + e.stored)
        BY <2>1 DEF DInv, CacheInv
      <3>2. e.ans \in Answer /\ e.stored \in 0..(TTL + 1) /\ e.ans.age \in Nat
        BY <3>1, DnsAssumption DEF Entry, Answer, MaxAge
      <3>3. cache'[q] = [ans |-> Older(e.ans), stored |-> UpTo(TTL + 1, e.stored)]
        BY <2>1 DEF Tick
      <3>4. UpTo(TTL + 1, e.stored) \in 0..(TTL + 1)
            /\ (UpTo(TTL + 1, e.stored) <= TTL => UpTo(TTL + 1, e.stored) = e.stored + 1)
        BY <3>2, DnsAssumption DEF UpTo
      <3>5. Older(e.ans) \in Answer /\ Older(e.ans).q = q
            /\ Older(e.ans).age <= e.ans.age + 1 /\ Older(e.ans).age \in Nat
        <4>1. e.ans # None => Older(e.ans) \in Answer
          BY <3>2, OlderInv
        <4> QED
          BY <3>1, <3>2, <4>1, OlderInv, DnsAssumption DEF Answer, MaxAge
      <3>6. cache'[q] \in Entry
        BY <3>3, <3>4, <3>5 DEF Entry
      <3> QED
        BY <3>1, <3>2, <3>3, <3>4, <3>5, <3>6, DnsAssumption
    <2>2. ASSUME NEW q \in Questions, cache[q] = None PROVE cache'[q] = None
      BY <2>2 DEF Tick
    <2>3. cache' \in [Questions -> Entry \cup {None}]
      <3>1. cache' = [q \in Questions |-> cache'[q]]
        BY DEF Tick
      <3> QED
        BY <3>1, <2>1, <2>2
    <2> QED
      BY <2>1, <2>2, <2>3 DEF CacheInv
  <1>3. ReplyInv'
    BY DEF Tick, ReplyInv, ReplyMatches, ReplyFresh
  <1> QED
    BY <1>1, <1>2, <1>3 DEF DInv

(* A handler's steps: each either moves it on, ends it, or is one of the   *)
(* two above.                                                              *)
LEMMA HandlerStepInv ==
  ASSUME DInv, NEW h \in Callers, HandlerStep(h)
  PROVE  DInv'
  <1>0. ASSUME UNCHANGED <<cache, reply>>, HandlerInv' PROVE DInv'
    BY <1>0 DEF DInv, CacheInv, ReplyInv, ReplyMatches, ReplyFresh
  <1>1. CASE Lookup(h)
    BY <1>1, LookupInv
  <1>2. CASE CallOpen(h)
    BY <1>0, <1>2, GotoInv DEF DInv, CallOpen
  <1>3. CASE OpenLoop(h)
    BY <1>0, <1>3 DEF DInv, HandlerInv, OpenLoop, dnsVars
  <1>4. CASE Opened(h)
    BY <1>0, <1>4, GotoInv, FinishInv DEF DInv, Opened
  <1>5. CASE WriteQuery(h)
    BY <1>0, <1>5, GotoInv, FinishInv DEF DInv, WriteQuery
  <1>6. CASE ReadFails(h)
    BY <1>0, <1>6, FinishInv DEF DInv, ReadFails
  <1>7. CASE ReadAnswer(h)
    BY <1>7, ReadAnswerInv
  <1> QED
    BY <1>1, <1>2, <1>3, <1>4, <1>5, <1>6, <1>7 DEF HandlerStep

(* Every step preserves the invariant, one action at a time.               *)
LEMMA DNextInv == DInv /\ [DNext]_allVars => DInv'
  <1> SUFFICES ASSUME DInv, [DNext]_allVars PROVE DInv'
    OBVIOUS
  <1>0. ASSUME UNCHANGED <<cache, reply>>, HandlerInv' PROVE DInv'
    BY <1>0 DEF DInv, CacheInv, ReplyInv, ReplyMatches, ReplyFresh
  <1>1. ASSUME NEW h \in Callers, NEW q \in Questions, NEW i \in Ids, Receive(h, q, i)
        PROVE  DInv'
    BY <1>0, <1>1 DEF DInv, HandlerInv, Receive, Goto, Query
  <1>2. ASSUME NEW h \in Callers, HandlerStep(h) PROVE DInv'
    BY <1>2, HandlerStepInv
  <1>3. ASSUME NEW h \in Callers, UpstreamAnswers(h) PROVE DInv'
    <2>1. query[h] \in Query /\ timer[h] \in 0..(Deadline + 1)
      BY <1>3 DEF DInv, HandlerInv, UpstreamAnswers
    <2>2. [q |-> query[h].q, id |-> query[h].id, age |-> 0] \in Answer
      BY <2>1, DnsAssumption DEF Query, Answer, MaxAge
    <2> QED
      BY <1>0, <1>3, <2>1, <2>2, DnsAssumption DEF DInv, HandlerInv, UpstreamAnswers
  <1>4. ASSUME NEW s \in Sessions, PoolStep(s) PROVE DInv'
    BY <1>0, <1>4 DEF DInv, HandlerInv, PoolStep, dnsVars
  <1>5. CASE Cleanup
    <2>1. HandlerInv' /\ ReplyInv'
      BY <1>5 DEF DInv, HandlerInv, ReplyInv, ReplyMatches, ReplyFresh, Cleanup
    <2>2. CacheInv'
      BY <1>5 DEF DInv, CacheInv, Cleanup
    <2> QED
      BY <2>1, <2>2 DEF DInv
  <1>6. CASE Tick
    BY <1>6, TickInv
  <1>7. CASE UNCHANGED allVars
    BY <1>0, <1>7 DEF DInv, HandlerInv, allVars, dnsVars
  <1> QED
    BY <1>1, <1>2, <1>3, <1>4, <1>5, <1>6, <1>7 DEF DNext

(* So it holds of every behaviour.                                         *)
LEMMA DInvariant == DSpec => []DInv
  BY DInitInv, DNextInv, PTL DEF DSpec

(* The proxy's variables keep their types.                                 *)
THEOREM DTypeCorrect == DSpec => []DTypeOK
  <1>1. DInv => DTypeOK
    BY DEF DInv, HandlerInv, CacheInv, ReplyInv, DTypeOK, Query
  <1> QED
    BY <1>1, DInvariant, PTL

(***************************************************************************)
(* handleQuery never answers a client with another question's answer or    *)
(* with another query's transaction id, whichever handler filled the cache.*)
(***************************************************************************)
THEOREM ReplyMatchesCorrect == DSpec => []ReplyMatches
  <1>1. DInv => ReplyMatches
    BY DEF DInv, ReplyInv
  <1> QED
    BY <1>1, DInvariant, PTL

(***************************************************************************)
(* No reply is older than the cache's TTL and one transaction together, in *)
(* whatever order handlers store their answers and without any Cleanup.    *)
(***************************************************************************)
THEOREM ReplyFreshCorrect == DSpec => []ReplyFresh
  <1>1. DInv => ReplyFresh
    BY DEF DInv, ReplyInv
  <1> QED
    BY <1>1, DInvariant, PTL
=============================================================================
