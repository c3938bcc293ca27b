--------------------------- MODULE ServerSessions ---------------------------
(***************************************************************************)
(* The server's session registry (server.go): the maps `sessions` and      *)
(* `sessionCreated` guarded by the RWMutex `sessMu`, and the gauge         *)
(* GlobalStats.ActiveSessions that is kept beside them with atomics.       *)
(*                                                                         *)
(* Four kinds of goroutine meet here:                                      *)
(*   - one `upgrade` handler per client connection, which registers its    *)
(*     smux session (setSession), serves it, and unregisters it when       *)
(*     AcceptStream fails (clearSession).  A handler and its session share *)
(*     one identifier, a member of Sessions;                               *)
(*   - callers of `openStream`, which walk the map under the read lock:    *)
(*     the members of Openers.  Each calls it again and again, so that the *)
(*     second attempt of handleReverseTCP is one more call;                *)
(*   - `cleanupSessions`, which walks it under the write lock;             *)
(*   - the smux session's own goroutines and the peer, which change the    *)
(*     transport and the streams of a session without taking any lock.     *)
(***************************************************************************)
EXTENDS Integers, FiniteSets

CONSTANTS
    Keys,        \* remote addresses, the keys of the two maps
    Sessions,    \* smux sessions, each with the upgrade handler serving it
    Openers,     \* goroutines that call openStream
    NoSession,   \* the nil session
    MaxStreams,  \* 200 in openStream: a session with more streams is skipped
    ZombieAge,   \* 3 minutes in cleanupSessions, in clock ticks
    MaxForward   \* bound of the model: no more peer's streams once a session has these

ASSUME ConstantsAssumption ==
    /\ IsFiniteSet(Keys)
    /\ IsFiniteSet(Sessions)
    /\ IsFiniteSet(Openers)
    /\ NoSession \notin Sessions
    /\ MaxStreams \in Nat
    /\ ZombieAge \in Nat
    /\ MaxForward \in Nat

VARIABLES
    sessions,        \* key -> registered session, or NoSession
    sessionCreated,  \* key -> age of the entry in ticks, or -1 when absent
    activeSessions,  \* GlobalStats.ActiveSessions
    st,              \* transport of a session, see SessState
    key,             \* remote address of a session, once it has one
    rstreams,        \* streams opened by this server on a session
    fstreams,        \* streams opened by the peer on a session
    hPc,             \* where the upgrade handler is, see HandlerPc
    old,             \* the session setSession found under its key
    oPc,             \* where an openStream caller is, see OpenerPc
    oTodo,           \* keys its range loop has not reached yet
    oCur,            \* session it is calling OpenStream on
    cPc,             \* where cleanupSessions is
    cTodo,           \* keys its range loop has not reached yet
    cKey             \* key of the zombie it is about to close

connVars    == <<st, key, rstreams, fstreams>>
mapVars     == <<sessions, sessionCreated>>
handlerVars == <<hPc, old>>
openerVars  == <<oPc, oTodo, oCur>>
cleanVars   == <<cPc, cTodo, cKey>>
vars == <<sessions, sessionCreated, activeSessions, st, key, rstreams,
          fstreams, hPc, old, oPc, oTodo, oCur, cPc, cTodo, cKey>>

(***************************************************************************)
(* "silent": the peer is gone but the socket has not noticed, so writes    *)
(* still succeed.  "broken": the socket returned an error, AcceptStream    *)
(* and OpenStream fail, but IsClosed() is still false.  "closed": Close()  *)
(* has run.                                                                *)
(***************************************************************************)
SessState == {"none", "open", "silent", "broken", "closed"}

(***************************************************************************)
(* "created": smux.Server returned.  "mapped", "counted", "closing": in    *)
(* setSession after the unlock, after the +1, after the -1.  "serving": in *)
(* the AcceptStream loop.                                                  *)
(***************************************************************************)
HandlerPc == {"idle", "created", "mapped", "counted", "closing", "serving", "done"}
OpenerPc  == {"idle", "scan", "opening"}
CleanPc   == {"idle", "scan", "kill"}

Init ==
    /\ sessions = [k \in Keys |-> NoSession]
    /\ sessionCreated = [k \in Keys |-> -1]
    /\ activeSessions = 0
    /\ st = [s \in Sessions |-> "none"]
    /\ key \in [Sessions -> Keys]
    /\ rstreams = [s \in Sessions |-> 0]
    /\ fstreams = [s \in Sessions |-> 0]
    /\ hPc = [s \in Sessions |-> "idle"]
    /\ old = [s \in Sessions |-> NoSession]
    /\ oPc = [o \in Openers |-> "idle"]
    /\ oTodo = [o \in Openers |-> {}]
    /\ oCur = [o \in Openers |-> NoSession]
    /\ cPc = "idle"
    /\ cTodo = {}
    /\ cKey \in Keys
-----------------------------------------------------------------------------
(* Keys that hold an entry.                                                *)
Occupied == {k \in Keys : sessions[k] # NoSession}

(* sess.NumStreams(): both directions share the one stream table.          *)
NumStreams(s) == rstreams[s] + fstreams[s]

(* sess.Close(): every stream of the session goes with it.                 *)
CloseSession(s) ==
    /\ st' = [st EXCEPT ![s] = "closed"]
    /\ rstreams' = [rstreams EXCEPT ![s] = 0]
    /\ fstreams' = [fstreams EXCEPT ![s] = 0]
    /\ UNCHANGED key

(* Callers of openStream that hold sessMu.RLock().                         *)
Readers == {o \in Openers : oPc[o] \in {"scan", "opening"}}

(* sessMu.Lock() can be granted; sessMu.RLock() can be granted.            *)
CanLock  == Readers = {} /\ cPc = "idle"
CanRLock == cPc = "idle"

Unmap(k) ==
    /\ sessions' = [sessions EXCEPT ![k] = NoSession]
    /\ sessionCreated' = [sessionCreated EXCEPT ![k] = -1]
    /\ activeSessions' = activeSessions - 1
-----------------------------------------------------------------------------
(***************************************************************************)
(* upgrade: hijack, the 101 response, EncryptedConn, smux.Server.  Two     *)
(* connections may share a remote address: one may outlive the other's     *)
(* registration, and a client may use one port towards two addresses of    *)
(* this server.                                                            *)
(***************************************************************************)
Upgrade(s) ==
    /\ hPc[s] = "idle"
    /\ hPc' = [hPc EXCEPT ![s] = "created"]
    /\ st' = [st EXCEPT ![s] = "open"]
    /\ UNCHANGED <<mapVars, activeSessions, key, rstreams, fstreams, old,
                   openerVars, cleanVars>>

(* upgrade's early returns: the connection is closed, nothing registered.  *)
UpgradeFails(s) ==
    /\ hPc[s] = "idle"
    /\ hPc' = [hPc EXCEPT ![s] = "done"]
    /\ UNCHANGED <<mapVars, activeSessions, connVars, old, openerVars, cleanVars>>

(* setSession, the section under the write lock.                           *)
SetSession(s) ==
    /\ hPc[s] = "created"
    /\ CanLock
    /\ old' = [old EXCEPT ![s] = sessions[key[s]]]
    /\ sessions' = [sessions EXCEPT ![key[s]] = s]
    /\ sessionCreated' = [sessionCreated EXCEPT ![key[s]] = 0]
    /\ hPc' = [hPc EXCEPT ![s] = "mapped"]
    /\ UNCHANGED <<activeSessions, connVars, openerVars, cleanVars>>

(* Variant for the mutation checks: the replaced session stays counted.    *)
CountNewKeepsOld(s) ==
    /\ hPc[s] = "mapped"
    /\ activeSessions' = activeSessions + 1
    /\ hPc' = [hPc EXCEPT ![s] = IF old[s] = NoSession THEN "serving" ELSE "closing"]
    /\ UNCHANGED <<mapVars, connVars, old, openerVars, cleanVars>>

(* setSession after the unlock: the new session is counted ...             *)
CountNew(s) ==
    /\ hPc[s] = "mapped"
    /\ activeSessions' = activeSessions + 1
    /\ hPc' = [hPc EXCEPT ![s] = IF old[s] = NoSession THEN "serving" ELSE "counted"]
    /\ UNCHANGED <<mapVars, connVars, old, openerVars, cleanVars>>

(* ... the one it replaced is uncounted ...                                *)
UncountOld(s) ==
    /\ hPc[s] = "counted"
    /\ activeSessions' = activeSessions - 1
    /\ hPc' = [hPc EXCEPT ![s] = "closing"]
    /\ UNCHANGED <<mapVars, connVars, old, openerVars, cleanVars>>

(* ... and closed, and setSession returns.                                 *)
CloseOld(s) ==
    /\ hPc[s] = "closing"
    /\ CloseSession(old[s])
    /\ old' = [old EXCEPT ![s] = NoSession]
    /\ hPc' = [hPc EXCEPT ![s] = "serving"]
    /\ UNCHANGED <<mapVars, activeSessions, openerVars, cleanVars>>

(* Variant for the mutation checks: whoever holds the key is removed.      *)
ClearSessionAnyOwner(s) ==
    /\ hPc[s] = "serving"
    /\ st[s] \in {"broken", "closed"}
    /\ CanLock
    /\ hPc' = [hPc EXCEPT ![s] = "done"]
    /\ IF sessions[key[s]] # NoSession
         THEN Unmap(key[s])
         ELSE UNCHANGED <<mapVars, activeSessions>>
    /\ UNCHANGED <<connVars, old, openerVars, cleanVars>>

(***************************************************************************)
(* AcceptStream has failed, so upgrade calls clearSession and returns.  It *)
(* does not close the session: a broken one is closed by smux's keepalive. *)
(***************************************************************************)
ClearSession(s) ==
    /\ hPc[s] = "serving"
    /\ st[s] \in {"broken", "closed"}
    /\ CanLock
    /\ hPc' = [hPc EXCEPT ![s] = "done"]
    /\ IF sessions[key[s]] = s
         THEN Unmap(key[s])
         ELSE UNCHANGED <<mapVars, activeSessions>>
    /\ UNCHANGED <<connVars, old, openerVars, cleanVars>>
-----------------------------------------------------------------------------
(* openStream takes the read lock; `range` visits the entries of the map.  *)
OpenBegin(o) ==
    /\ oPc[o] = "idle"
    /\ CanRLock
    /\ oPc' = [oPc EXCEPT ![o] = "scan"]
    /\ oTodo' = [oTodo EXCEPT ![o] = Occupied]
    /\ UNCHANGED <<mapVars, activeSessions, connVars, handlerVars, oCur, cleanVars>>

(* Variant for the mutation checks: no load balancing.                     *)
SkippedIfClosed(s) == st[s] = "closed"

(* The loop's two `continue`s: the session is closed, or overloaded.       *)
Skipped(s) == st[s] = "closed" \/ NumStreams(s) > MaxStreams

OpenVisit(o, k) ==
    /\ oPc[o] = "scan"
    /\ k \in oTodo[o]
    /\ oTodo' = [oTodo EXCEPT ![o] = @ \ {k}]
    /\ IF Skipped(sessions[k])
         THEN UNCHANGED <<oPc, oCur>>
         ELSE /\ oPc' = [oPc EXCEPT ![o] = "opening"]
              /\ oCur' = [oCur EXCEPT ![o] = sessions[k]]
    /\ UNCHANGED <<mapVars, activeSessions, connVars, handlerVars, cleanVars>>

(* sess.OpenStream() succeeds, also on a silent session; RUnlock.          *)
OpenOk(o) ==
    /\ oPc[o] = "opening"
    /\ st[oCur[o]] \in {"open", "silent"}
    /\ rstreams' = [rstreams EXCEPT ![oCur[o]] = @ + 1]
    /\ oPc' = [oPc EXCEPT ![o] = "idle"]
    /\ oCur' = [oCur EXCEPT ![o] = NoSession]
    /\ oTodo' = [oTodo EXCEPT ![o] = {}]
    /\ UNCHANGED <<mapVars, activeSessions, st, key, fstreams, handlerVars, cleanVars>>

(***************************************************************************)
(* sess.OpenStream() fails: the session was closed or broken meanwhile, or *)
(* its 30s write timeout expired.  The session is closed as a zombie and   *)
(* the loop goes on.                                                       *)
(***************************************************************************)
OpenError(o) ==
    /\ oPc[o] = "opening"
    /\ CloseSession(oCur[o])
    /\ oPc' = [oPc EXCEPT ![o] = "scan"]
    /\ oCur' = [oCur EXCEPT ![o] = NoSession]
    /\ UNCHANGED <<mapVars, activeSessions, handlerVars, oTodo, cleanVars>>

(* Variant for the mutation checks: an error return that keeps the lock.   *)
OpenFailKeepsLock(o) ==
    /\ oPc[o] = "scan"
    /\ oTodo[o] = {}
    /\ UNCHANGED vars

(* No session is left: openStream returns an error and RUnlocks.           *)
OpenFail(o) ==
    /\ oPc[o] = "scan"
    /\ oTodo[o] = {}
    /\ oPc' = [oPc EXCEPT ![o] = "idle"]
    /\ UNCHANGED <<mapVars, activeSessions, connVars, handlerVars, oTodo, oCur, cleanVars>>
-----------------------------------------------------------------------------
(* Variant for the mutation checks: the cleanup only takes the read lock.  *)
CleanBeginShared ==
    /\ cPc = "idle"
    /\ cPc' = "scan"
    /\ cTodo' = Occupied
    /\ UNCHANGED <<mapVars, activeSessions, connVars, handlerVars, openerVars, cKey>>

(* cleanupSessions: the ticker fires and the write lock is granted.        *)
CleanBegin ==
    /\ CanLock
    /\ cPc' = "scan"
    /\ cTodo' = Occupied
    /\ UNCHANGED <<mapVars, activeSessions, connVars, handlerVars, openerVars, cKey>>

IsZombie(k) == NumStreams(sessions[k]) = 0 /\ sessionCreated[k] > ZombieAge

(* One entry of the loop: dead, zombie (closed in the next step), or kept. *)
CleanVisit(k) ==
    /\ cPc = "scan"
    /\ k \in cTodo
    /\ cTodo' = cTodo \ {k}
    /\ IF st[sessions[k]] = "closed"
         THEN Unmap(k) /\ UNCHANGED <<cPc, cKey>>
         ELSE /\ IF IsZombie(k)
                   THEN cPc' = "kill" /\ cKey' = k
                   ELSE UNCHANGED <<cPc, cKey>>
              /\ UNCHANGED <<mapVars, activeSessions>>
    /\ UNCHANGED <<connVars, handlerVars, openerVars>>

(* The zombie is closed and removed.                                       *)
CleanKill ==
    /\ cPc = "kill"
    /\ CloseSession(sessions[cKey])
    /\ Unmap(cKey)
    /\ cPc' = "scan"
    /\ UNCHANGED <<handlerVars, openerVars, cTodo, cKey>>

CleanEnd ==
    /\ cPc = "scan"
    /\ cTodo = {}
    /\ cPc' = "idle"
    /\ UNCHANGED <<mapVars, activeSessions, connVars, handlerVars, openerVars, cTodo, cKey>>
-----------------------------------------------------------------------------
(* The peer opens a stream; either side ends one.                          *)
PeerOpens(s) ==
    /\ st[s] = "open"
    /\ \A t \in Sessions : fstreams[t] < MaxForward
    /\ fstreams' = [fstreams EXCEPT ![s] = @ + 1]
    /\ UNCHANGED <<mapVars, activeSessions, st, key, rstreams, handlerVars,
                   openerVars, cleanVars>>

(* Variant for the mutation checks: a stream closed twice counts twice.    *)
StreamEndsTwice(s) ==
    /\ rstreams[s] > 0
    /\ rstreams' = [rstreams EXCEPT ![s] = @ - 2]
    /\ UNCHANGED <<mapVars, activeSessions, st, key, fstreams, handlerVars,
                   openerVars, cleanVars>>

StreamEnds(s) ==
    /\ \/ /\ rstreams[s] > 0
          /\ rstreams' = [rstreams EXCEPT ![s] = @ - 1]
          /\ UNCHANGED fstreams
       \/ /\ fstreams[s] > 0
          /\ fstreams' = [fstreams EXCEPT ![s] = @ - 1]
          /\ UNCHANGED rstreams
    /\ UNCHANGED <<mapVars, activeSessions, st, key, handlerVars, openerVars, cleanVars>>

(* The peer vanishes, or the socket reports an error.                      *)
TransportFails(s) ==
    /\ \/ st[s] = "open" /\ st' = [st EXCEPT ![s] = "silent"]
       \/ st[s] \in {"open", "silent"} /\ st' = [st EXCEPT ![s] = "broken"]
    /\ UNCHANGED <<mapVars, activeSessions, key, rstreams, fstreams, handlerVars,
                   openerVars, cleanVars>>

(* smux's keepalive: nothing was received for KeepAliveTimeout.            *)
KeepAliveCloses(s) ==
    /\ st[s] \in {"silent", "broken"}
    /\ CloseSession(s)
    /\ UNCHANGED <<mapVars, activeSessions, handlerVars, openerVars, cleanVars>>

(* The clock; ages saturate past the only threshold they are compared to.  *)
Tick ==
    /\ sessionCreated' = [k \in Keys |->
            IF sessionCreated[k] \in 0..ZombieAge
              THEN sessionCreated[k] + 1 ELSE sessionCreated[k]]
    /\ UNCHANGED <<sessions, activeSessions, connVars, handlerVars, openerVars, cleanVars>>
-----------------------------------------------------------------------------
HandlerStep(s) ==
    \/ SetSession(s) \/ CountNew(s) \/ UncountOld(s) \/ CloseOld(s) \/ ClearSession(s)

OpenerStep(o) ==
    \/ \E k \in Keys : OpenVisit(o, k)
    \/ OpenOk(o) \/ OpenError(o) \/ OpenFail(o)

CleanStep == (\E k \in Keys : CleanVisit(k)) \/ CleanKill \/ CleanEnd

Step ==
    \/ \E s \in Sessions :
         \/ Upgrade(s) \/ UpgradeFails(s) \/ HandlerStep(s)
         \/ PeerOpens(s) \/ StreamEnds(s) \/ TransportFails(s) \/ KeepAliveCloses(s)
    \/ \E o \in Openers : OpenBegin(o) \/ OpenerStep(o)
    \/ CleanBegin \/ CleanStep

Next == Step \/ Tick

(* Handlers that wait for sessMu.Lock().                                   *)
WaitsForLock(s) ==
    \/ hPc[s] = "created"
    \/ hPc[s] = "serving" /\ st[s] \in {"broken", "closed"}

(***************************************************************************)
(* A goroutine that is not blocked goes on and OpenStream returns within   *)
(* its timeout.  Go's RWMutex admits no new reader while a writer waits,   *)
(* so overlapping openStream calls cannot keep a handler out for ever.     *)
(***************************************************************************)
Fairness ==
    /\ \A s \in Sessions : SF_vars(HandlerStep(s)) /\ WF_vars(KeepAliveCloses(s))
    /\ \A o \in Openers : WF_vars(OpenerStep(o))
    /\ WF_vars(CleanStep)
    /\ \A s \in Sessions :
          <>[]WaitsForLock(s) => <>[][\A o \in Openers : ~OpenBegin(o)]_vars

Spec     == Init /\ [][Next]_vars
FairSpec == Spec /\ Fairness
-----------------------------------------------------------------------------
(* Every variable of the registry has its type.                            *)
TypeOK ==
    /\ sessions \in [Keys -> Sessions \cup {NoSession}]
    /\ sessionCreated \in [Keys -> -1..(ZombieAge + 1)]
    /\ activeSessions \in Int
    /\ st \in [Sessions -> SessState]
    /\ key \in [Sessions -> Keys]
    /\ rstreams \in [Sessions -> Nat]
    /\ fstreams \in [Sessions -> 0..MaxForward]
    /\ hPc \in [Sessions -> HandlerPc]
    /\ old \in [Sessions -> Sessions \cup {NoSession}]
    /\ oPc \in [Openers -> OpenerPc]
    /\ oTodo \in [Openers -> SUBSET Keys]
    /\ oCur \in [Openers -> Sessions \cup {NoSession}]
    /\ cPc \in CleanPc
    /\ cTodo \subseteq Keys
    /\ cKey \in Keys

(* Handlers between setSession's unlock and the +1, when no entry was      *)
(* replaced; handlers between the +1 and the -1, when one was.             *)
Uncounted     == {s \in Sessions : hPc[s] = "mapped" /\ old[s] = NoSession}
CountedTwice  == {s \in Sessions : hPc[s] = "counted"}

(***************************************************************************)
(* ActiveSessions, which setSession changes outside the lock while         *)
(* clearSession and cleanupSessions change it inside, differs from the     *)
(* size of the map only by the setSession calls that are halfway: no       *)
(* interleaving of replacement, cleanup and clearing leaves it wrong for   *)
(* good.                                                                   *)
(***************************************************************************)
GaugeMatchesMap ==
    activeSessions = Cardinality(Occupied) - Cardinality(Uncounted)
                                           + Cardinality(CountedTwice)

(***************************************************************************)
(* A session that can still carry traffic and whose handler has registered *)
(* it is in the map under its own key, or a setSession that replaced it is *)
(* about to close it: clearing or cleaning another session never makes it  *)
(* unreachable while it lives.                                             *)
(***************************************************************************)
NoOrphan ==
    \A s \in Sessions :
        st[s] \in {"open", "silent"} /\ hPc[s] \notin {"idle", "created"} =>
            \/ sessions[key[s]] = s
            \/ \E t \in Sessions : /\ old[t] = s
                                   /\ hPc[t] \in {"mapped", "counted", "closing"}

(* Callers of openStream that passed the load check of s and have not      *)
(* opened their stream yet.                                                *)
Opening(s) == {o \in Openers : oPc[o] = "opening" /\ oCur[o] = s}

(***************************************************************************)
(* openStream tests NumStreams() and opens the stream in two steps, under  *)
(* a lock that other callers share, so the limit can be overrun; but never *)
(* by more than one stream per concurrent caller.                          *)
(***************************************************************************)
LoadBound ==
    \A s \in Sessions :
        rstreams[s] + Cardinality(Opening(s)) <= MaxStreams + Cardinality(Openers)

(***************************************************************************)
(* Between the zombie check and the Close() that follows it, the write     *)
(* lock keeps openStream from putting a reverse stream on the session:     *)
(* cleanup never cuts a connection the server has just accepted.           *)
(***************************************************************************)
ZombieCarriesNoReverse ==
    cPc = "kill" => rstreams[sessions[cKey]] = 0 /\ Opening(sessions[cKey]) = {}

(***************************************************************************)
(* A session whose transport died is eventually closed and out of the map, *)
(* although upgrade never calls Close(): no stream of it stays open, and   *)
(* openStream stops finding it.                                            *)
(***************************************************************************)
DeadSessionLeaves ==
    \A s \in Sessions :
        st[s] \in {"silent", "broken"} ~>
            st[s] = "closed" /\ hPc[s] = "done" /\ \A k \in Keys : sessions[k] # s
=============================================================================
