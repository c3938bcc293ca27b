------------------------------ MODULE DnsProxy ------------------------------
(***************************************************************************)
(* The client's DNS proxy (dns.go) on top of Client.OpenStream: a handler  *)
(* per query looks into the shared cache, or opens a stream through the    *)
(* pool, sends the query, waits for the answer under a deadline, stores it *)
(* and replies.                                                            *)
(*                                                                         *)
(* The callers of OpenStream are the handlers; one is used again when its  *)
(* query is done.  An answer is the question and the transaction id it     *)
(* carries and the time since the upstream server gave it.                 *)
(***************************************************************************)
EXTENDS ClientOpenStream

CONSTANTS
    Questions,  \* queries without their transaction id: the keys of the cache
    Ids,        \* transaction ids
    TTL,        \* how long an answer is cached (60s), in ticks
    Deadline,   \* of the transaction on the stream (5s), in ticks
    None        \* no entry, no answer

ASSUME DnsAssumption == TTL \in Nat /\ Deadline \in Nat

VARIABLES
    cache,   \* question -> answer and time since it was stored, or None
    hPc,     \* "idle", "lookup", "open", "opening", "write" or "read"
    query,   \* the question and the id a handler was given, or None
    timer,   \* time since it set the deadline
    arrived, \* the answer waiting in its stream
    reply    \* the last reply: the query it is for and the answer, or None

dnsVars == <<cache, hPc, query, timer, arrived, reply>>
allVars == <<vars, dnsVars>>

(* A handler whose deadline has passed notices within a tick.              *)
MaxAge == TTL + Deadline + 1
Answer == [q : Questions, id : Ids, age : 0..(MaxAge + 1)]
Entry  == [ans : Answer, stored : 0..(TTL + 1)]

DInit ==
    /\ Init
    /\ cache = [q \in Questions |-> None]
    /\ hPc = [h \in Callers |-> "idle"]
    /\ query = [h \in Callers |-> None]
    /\ timer = [h \in Callers |-> 0]
    /\ arrived = [h \in Callers |-> None]
    /\ reply = None

Goto(h, pc) == hPc' = [hPc EXCEPT ![h] = pc]

(* handleQuery returns; its local variables are gone.                      *)
Finish(h) ==
    /\ Goto(h, "idle")
    /\ query' = [query EXCEPT ![h] = None]
    /\ timer' = [timer EXCEPT ![h] = 0]
    /\ arrived' = [arrived EXCEPT ![h] = None]
-----------------------------------------------------------------------------
(* Start: a datagram arrives and gets a goroutine.                         *)
Receive(h, q, i) ==
    /\ hPc[h] = "idle"
    /\ Goto(h, "lookup")
    /\ query' = [query EXCEPT ![h] = [q |-> q, id |-> i]]
    /\ UNCHANGED <<vars, cache, timer, arrived, reply>>

(* Variant for the mutation checks: expired entries count until Cleanup.   *)
FoundUntilCleanup(q) == cache[q] # None

(* Cache.Get finds an entry that has not expired.                          *)
Found(q) == cache[q] # None /\ cache[q].stored <= TTL

(* Variant for the mutation checks: the cached answer as it was stored.    *)
HitAsStored(h) == cache[query[h].q].ans

(* The cached answer under the id of this query.                           *)
Hit(h) == [cache[query[h].q].ans EXCEPT !.id = query[h].id]

Lookup(h) ==
    /\ hPc[h] = "lookup"
    /\ IF Found(query[h].q)
         THEN Finish(h) /\ reply' = [to |-> query[h], ans |-> Hit(h)]
         ELSE Goto(h, "open") /\ UNCHANGED <<query, timer, arrived, reply>>
    /\ UNCHANGED <<vars, cache>>

(* handleQuery calls OpenStream ...                                        *)
CallOpen(h) ==
    /\ hPc[h] = "open"
    /\ Begin(h)
    /\ Goto(h, "opening")
    /\ UNCHANGED <<cache, query, timer, arrived, reply>>

OpenLoop(h) ==
    /\ Pick(h) \/ Try(h) \/ Exhausted(h)
    /\ UNCHANGED dnsVars

(* ... and gives up, or sets the deadline of the transaction.              *)
Opened(h) ==
    /\ hPc[h] = "opening"
    /\ cPc[h] = "idle"
    /\ IF result[h] = "ok"
         THEN Goto(h, "write") /\ UNCHANGED <<query, timer, arrived>>
         ELSE Finish(h)
    /\ UNCHANGED <<vars, cache, reply>>

(* The handler's stream fails: its session is gone or the deadline passed. *)
Broken(h) == cur[h] \in dead \/ timer[h] > Deadline

(* stream.Write; an error ends the query without a reply.                  *)
WriteQuery(h) ==
    /\ hPc[h] = "write"
    /\ \/ Broken(h) /\ Finish(h)
       \/ cur[h] \notin dead /\ Goto(h, "read") /\ UNCHANGED <<query, timer, arrived>>
    /\ UNCHANGED <<vars, cache, reply>>

(* The upstream server answers, or never does.                             *)
UpstreamAnswers(h) ==
    /\ hPc[h] = "read"
    /\ cur[h] \notin dead
    /\ arrived[h] = None
    /\ arrived' = [arrived EXCEPT ![h] =
           [q |-> query[h].q, id |-> query[h].id, age |-> 0]]
    /\ UNCHANGED <<vars, cache, hPc, query, timer, reply>>

(* Variant for the mutation checks: no deadline on the stream.             *)
ReadFailsIfDead(h) ==
    /\ hPc[h] = "read"
    /\ cur[h] \in dead
    /\ Finish(h)
    /\ UNCHANGED <<vars, cache, reply>>

(* stream.Read fails.                                                      *)
ReadFails(h) ==
    /\ hPc[h] = "read"
    /\ Broken(h)
    /\ Finish(h)
    /\ UNCHANGED <<vars, cache, reply>>

(* Variant for the mutation checks: the error of stream.Read is ignored.   *)
ReadAnswerUnchecked(h) ==
    /\ hPc[h] = "read"
    /\ arrived[h] # None \/ Broken(h)
    /\ cache' = [cache EXCEPT ![query[h].q] = [ans |-> arrived[h], stored |-> 0]]
    /\ reply' = [to |-> query[h], ans |-> arrived[h]]
    /\ Finish(h)
    /\ UNCHANGED vars

(* stream.Read returns the answer: it is stored and sent on.  An answer    *)
(* that is there wins or loses against a failure that is there too.        *)
ReadAnswer(h) ==
    /\ hPc[h] = "read"
    /\ arrived[h] # None
    /\ cache' = [cache EXCEPT ![query[h].q] = [ans |-> arrived[h], stored |-> 0]]
    /\ reply' = [to |-> query[h], ans |-> arrived[h]]
    /\ Finish(h)
    /\ UNCHANGED vars

(* The periodic Cleanup of the cache.                                      *)
Cleanup ==
    /\ cache' = [q \in Questions |-> IF Found(q) THEN cache[q] ELSE None]
    /\ UNCHANGED <<vars, hPc, query, timer, arrived, reply>>

UpTo(n, x) == IF x < n THEN x + 1 ELSE n
Older(a) == IF a = None THEN None ELSE [a EXCEPT !.age = UpTo(MaxAge + 1, @)]

(* Time passes, but no handler sleeps through its deadline; what is        *)
(* compared with a limit saturates past it.  The last reply is forgotten.  *)
Tick ==
    /\ \A h \in Callers : timer[h] <= Deadline
    /\ cache' = [q \in Questions |->
           IF cache[q] = None THEN None
           ELSE [ans |-> Older(cache[q].ans), stored |-> UpTo(TTL + 1, cache[q].stored)]]
    /\ timer' = [h \in Callers |->
           IF hPc[h] \in {"write", "read"} THEN timer[h] + 1 ELSE timer[h]]
    /\ arrived' = [h \in Callers |-> Older(arrived[h])]
    /\ reply' = None
    /\ UNCHANGED <<vars, hPc, query>>

(* The pool changes under the handlers.                                    *)
PoolStep(s) == (Join(s) \/ Leave(s) \/ Dies(s)) /\ UNCHANGED dnsVars
-----------------------------------------------------------------------------
HandlerStep(h) ==
    \/ Lookup(h) \/ CallOpen(h) \/ OpenLoop(h) \/ Opened(h)
    \/ WriteQuery(h) \/ ReadFails(h) \/ ReadAnswer(h)

DNext ==
    \/ \E h \in Callers :
         \/ \E q \in Questions, i \in Ids : Receive(h, q, i)
         \/ HandlerStep(h) \/ UpstreamAnswers(h)
    \/ \E s \in Sessions : PoolStep(s)
    \/ Cleanup \/ Tick

DSpec == DInit /\ [][DNext]_allVars

(* A handler waits for nothing but its stream, which has a deadline, and   *)
(* time passes.                                                            *)
DFairSpec == DSpec /\ WF_allVars(Tick) /\ \A h \in Callers : WF_allVars(HandlerStep(h))
-----------------------------------------------------------------------------
(* The proxy's variables have their types.                                 *)
DTypeOK ==
    /\ cache \in [Questions -> Entry \cup {None}]
    /\ hPc \in [Callers -> {"idle", "lookup", "open", "opening", "write", "read"}]
    /\ query \in [Callers -> [q : Questions, id : Ids] \cup {None}]
    /\ timer \in [Callers -> 0..(Deadline + 1)]
    /\ arrived \in [Callers -> Answer \cup {None}]
    /\ reply \in [to : [q : Questions, id : Ids], ans : Answer] \cup {None}

(***************************************************************************)
(* A client gets an answer to its own question under its own transaction   *)
(* id, also when the answer was fetched for another client's query.        *)
(***************************************************************************)
ReplyMatches ==
    reply # None => reply.ans.q = reply.to.q /\ reply.ans.id = reply.to.id

(***************************************************************************)
(* No reply is older than the cache's TTL and one transaction's deadline,  *)
(* with the tick in which it is noticed, together, although handlers of    *)
(* the same question store their answers in any order and the cache is     *)
(* cleaned at its own pace.                                                *)
(***************************************************************************)
ReplyFresh == reply # None => reply.ans.age <= MaxAge

(* Every query comes to an end, whatever the pool and the upstream server  *)
(* do: no handler waits for ever.                                          *)
QueryEnds == \A h \in Callers : hPc[h] # "idle" ~> hPc[h] = "idle"
=============================================================================
