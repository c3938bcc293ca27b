----------------------------- MODULE ClientPool -----------------------------
(***************************************************************************)
(* The client's session pool (client.go): the workers that keep one smux   *)
(* session each, the standby manager that dials sessions ahead of need,    *)
(* the health check that cleans and recycles the pool, and the shutdown of *)
(* all of them when the context is cancelled.                              *)
(*                                                                         *)
(* The pool is modelled as a set: nothing here depends on its order (the   *)
(* round robin of OpenStream does).  Which path a worker dials and the     *)
(* frame size it uses are left out.                                        *)
(***************************************************************************)
EXTENDS Naturals, FiniteSets

CONSTANTS
    Workers,    \* pool workers
    Sessions,   \* identities of smux sessions
    NoSession,  \* no session
    MaxAge      \* sessionMaxAge (20 minutes), in clock ticks

ASSUME PoolAssumption ==
    /\ IsFiniteSet(Workers) /\ Workers # {} /\ IsFiniteSet(Sessions)
    /\ NoSession \notin Sessions
    /\ MaxAge \in Nat

VARIABLES
    ctxDone,    \* the context given to Start is cancelled
    crashed,    \* a goroutine panicked: the process is gone
    st,         \* state of a session, see SessState
    age,        \* ticks since addSession, up to MaxAge + 1
    pool,       \* c.sessions
    watched,    \* live sessions with a goroutine that closes them on ctx.Done()
    standbyCh,  \* the content of the channel of capacity 1, or NoSession
    wPc,        \* where a worker is, see WorkerPc
    wSess,      \* the session a worker holds
    mPc,        \* where standbyManager is
    mSess,      \* the session it has dialled and not handed over
    hPc,        \* where sessionHealthCheck is
    victim      \* the session it has chosen to recycle

sessVars    == <<st, watched>>
poolVars    == <<pool, age>>
workerVars  == <<wPc, wSess>>
managerVars == <<mPc, mSess>>
healthVars  == <<hPc, victim>>
vars == <<ctxDone, crashed, st, age, pool, watched, standbyCh, wPc, wSess,
          mPc, mSess, hPc, victim>>

(* "broken": the socket failed, AcceptStream returns an error, but nobody  *)
(* has called Close() yet.                                                 *)
SessState == {"none", "open", "broken", "closed"}

(***************************************************************************)
(* "top", "select", "dial", "tls", "handshake", "failed": poolWorker's     *)
(* loop, with the parts of connectAndServe that can wait for the peer.     *)
(* "promote", "loop", "accept": it uses a standby session.  "serve": it is *)
(* in connectAndServe's AcceptStream loop.  "closeDone", "closeTop",       *)
(* "closeFailed": it has removed its session from the pool and is about to *)
(* close it.                                                               *)
(***************************************************************************)
WorkerPc == {"top", "select", "promote", "loop", "accept", "dial", "tls",
             "handshake", "serve", "failed", "done",
             "closeDone", "closeTop", "closeFailed"}
ManagerPc == {"wait", "top", "dial", "handshake", "offer", "done"}
HealthPc  == {"idle", "recycle", "done"}

Init ==
    /\ ctxDone = FALSE /\ crashed = FALSE
    /\ st = [s \in Sessions |-> "none"]
    /\ age = [s \in Sessions |-> 0]
    /\ pool = {} /\ watched = {}
    /\ standbyCh = NoSession
    /\ wPc = [w \in Workers |-> "top"]
    /\ wSess = [w \in Workers |-> NoSession]
    /\ mPc = "wait" /\ mSess = NoSession
    /\ hPc = "idle" /\ victim = NoSession
-----------------------------------------------------------------------------
(***************************************************************************)
(* sess.Close().  The goroutine that waits for ctx.Done() stays, but       *)
(* closing a closed session does nothing, so it is dropped from watched.   *)
(***************************************************************************)
CloseSession(s) ==
    /\ st' = [st EXCEPT ![s] = "closed"]
    /\ watched' = watched \ {s}

AddSession(s) ==
    /\ pool' = pool \cup {s}
    /\ age' = [age EXCEPT ![s] = 0]

RemoveSession(s) ==
    /\ pool' = pool \ {s}
    /\ UNCHANGED age

(* The process is still there, and stays.                                  *)
Running == ~crashed /\ UNCHANGED crashed

Goto(w, pc) == wPc' = [wPc EXCEPT ![w] = pc]
-----------------------------------------------------------------------------
(* poolWorker: `if ctx.Err() != nil { return }`.                           *)
WorkerTop(w) ==
    /\ Running
    /\ wPc[w] = "top"
    /\ Goto(w, IF ctxDone THEN "done" ELSE "select")
    /\ UNCHANGED <<ctxDone, sessVars, poolVars, standbyCh, wSess,
                   managerVars, healthVars>>

(* The select of poolWorker: cancelled, or no standby (default).           *)
SelectOther(w) ==
    /\ Running
    /\ wPc[w] = "select"
    /\ \/ ctxDone /\ Goto(w, "done")
       \/ ~ctxDone /\ standbyCh = NoSession /\ Goto(w, "dial")
    /\ UNCHANGED <<ctxDone, sessVars, poolVars, standbyCh, wSess,
                   managerVars, healthVars>>

(* The select of poolWorker: a standby, used unless it is closed.          *)
TakeStandby(w) ==
    /\ Running
    /\ wPc[w] = "select"
    /\ standbyCh # NoSession
    /\ standbyCh' = NoSession
    /\ IF st[standbyCh] = "closed"
         THEN Goto(w, "dial") /\ UNCHANGED wSess
         ELSE Goto(w, "promote") /\ wSess' = [wSess EXCEPT ![w] = standbyCh]
    /\ UNCHANGED <<ctxDone, sessVars, poolVars, managerVars, healthVars>>

(* Variant for the mutation checks: pools what the channel holds by now.   *)
PromoteChannel(w) ==
    /\ Running
    /\ wPc[w] = "promote"
    /\ AddSession(standbyCh)
    /\ Goto(w, "loop")
    /\ UNCHANGED <<ctxDone, sessVars, standbyCh, wSess, managerVars, healthVars>>

(* The standby joins the pool; no goroutine watches the context for it.    *)
Promote(w) ==
    /\ Running
    /\ wPc[w] = "promote"
    /\ AddSession(wSess[w])
    /\ Goto(w, "loop")
    /\ UNCHANGED <<ctxDone, sessVars, standbyCh, wSess, managerVars, healthVars>>

(* The standby's accept loop tests the context before AcceptStream ...     *)
LoopCheck(w) ==
    /\ Running
    /\ wPc[w] = "loop"
    /\ IF ctxDone
         THEN RemoveSession(wSess[w]) /\ Goto(w, "closeDone")
         ELSE Goto(w, "accept") /\ UNCHANGED poolVars
    /\ UNCHANGED <<ctxDone, sessVars, standbyCh, wSess, managerVars, healthVars>>

(* ... and again when AcceptStream has returned a stream.                  *)
StreamArrives(w) ==
    /\ Running
    /\ wPc[w] = "accept"
    /\ st[wSess[w]] = "open"
    /\ Goto(w, "loop")
    /\ UNCHANGED <<ctxDone, sessVars, poolVars, standbyCh, wSess,
                   managerVars, healthVars>>

(* AcceptStream on the standby fails: `reused`, so the worker starts over. *)
AcceptFails(w) ==
    /\ Running
    /\ wPc[w] = "accept"
    /\ st[wSess[w]] \in {"broken", "closed"}
    /\ RemoveSession(wSess[w])
    /\ Goto(w, "closeTop")
    /\ UNCHANGED <<ctxDone, sessVars, standbyCh, wSess, managerVars, healthVars>>

(* connectAndServe dials: the TCP connection, which has a timeout ...      *)
Dial(w) ==
    /\ Running
    /\ wPc[w] = "dial"
    /\ \/ Goto(w, "failed")
       \/ Goto(w, "tls")
    /\ UNCHANGED <<ctxDone, sessVars, poolVars, standbyCh, wSess,
                   managerVars, healthVars>>

(* ... then, for some transports, the TLS handshake, which has none; it    *)
(* gives up if the context ended meanwhile.                                *)
DialTLS(w) ==
    /\ Running
    /\ wPc[w] = "tls"
    /\ \/ Goto(w, "failed")
       \/ Goto(w, IF ctxDone THEN "done" ELSE "handshake")
    /\ UNCHANGED <<ctxDone, sessVars, poolVars, standbyCh, wSess,
                   managerVars, healthVars>>

(* Variant for the mutation checks: nobody closes it when the context ends.*)
ConnectedUnwatched(w, s) ==
    /\ Running
    /\ wPc[w] = "handshake"
    /\ st[s] = "none"
    /\ st' = [st EXCEPT ![s] = "open"]
    /\ AddSession(s)
    /\ wSess' = [wSess EXCEPT ![w] = s]
    /\ Goto(w, "serve")
    /\ UNCHANGED <<ctxDone, watched, standbyCh, managerVars, healthVars>>

(* Handshake, encryption and smux.Client succeed: the session is pooled    *)
(* and a goroutine will close it when the context ends.                    *)
Connected(w, s) ==
    /\ Running
    /\ wPc[w] = "handshake"
    /\ st[s] = "none"
    /\ st' = [st EXCEPT ![s] = "open"]
    /\ AddSession(s)
    /\ watched' = watched \cup {s}
    /\ wSess' = [wSess EXCEPT ![w] = s]
    /\ Goto(w, "serve")
    /\ UNCHANGED <<ctxDone, standbyCh, managerVars, healthVars>>

(***************************************************************************)
(* What follows the handshake fails: an error.  The handshake itself       *)
(* fails: ClientHandshake returned a nil conn, and conn.Close() panics.    *)
(***************************************************************************)
ConnectFails(w) ==
    /\ ~crashed
    /\ wPc[w] = "handshake"
    /\ \/ Goto(w, "failed") /\ UNCHANGED crashed
       \/ crashed' = TRUE /\ UNCHANGED wPc
    /\ UNCHANGED <<ctxDone, sessVars, poolVars, standbyCh, wSess, managerVars, healthVars>>

(* AcceptStream fails on a session the worker dialled itself.              *)
ServeFails(w) ==
    /\ Running
    /\ wPc[w] = "serve"
    /\ st[wSess[w]] \in {"broken", "closed"}
    /\ RemoveSession(wSess[w])
    /\ Goto(w, "closeFailed")
    /\ UNCHANGED <<ctxDone, sessVars, standbyCh, wSess, managerVars, healthVars>>

(* The Close that follows each of the three calls of removeSession; the    *)
(* worker lets go of the session.                                          *)
CloseRemoved(w) ==
    /\ Running
    /\ \/ wPc[w] = "closeDone" /\ Goto(w, "done")
       \/ wPc[w] = "closeTop" /\ Goto(w, "top")
       \/ wPc[w] = "closeFailed" /\ Goto(w, "failed")
    /\ CloseSession(wSess[w])
    /\ wSess' = [wSess EXCEPT ![w] = NoSession]
    /\ UNCHANGED <<ctxDone, poolVars, standbyCh, managerVars, healthVars>>

(* After an error: stop if the context ended, otherwise back off, retry.   *)
Retry(w) ==
    /\ Running
    /\ wPc[w] = "failed"
    /\ Goto(w, IF ctxDone THEN "done" ELSE "top")
    /\ UNCHANGED <<ctxDone, sessVars, poolVars, standbyCh, wSess,
                   managerVars, healthVars>>
-----------------------------------------------------------------------------
(* standbyManager waits: before its first session, after an error, and     *)
(* between two sessions.                                                   *)
ManagerWait ==
    /\ Running
    /\ mPc = "wait"
    /\ \/ ctxDone /\ mPc' = "done"
       \/ mPc' = "top"
    /\ UNCHANGED <<ctxDone, sessVars, poolVars, standbyCh, workerVars,
                   mSess, healthVars>>

ManagerTop ==
    /\ Running
    /\ mPc = "top"
    /\ mPc' = IF ctxDone THEN "done" ELSE "dial"
    /\ UNCHANGED <<ctxDone, sessVars, poolVars, standbyCh, workerVars,
                   mSess, healthVars>>

(* dialSession connects; "handshake" stands for the TLS and the mimicry    *)
(* handshake.  It does not look at the context.                            *)
ManagerDial ==
    /\ Running
    /\ mPc = "dial"
    /\ mPc' \in {"wait", "handshake"}
    /\ UNCHANGED <<ctxDone, sessVars, poolVars, standbyCh, workerVars,
                   mSess, healthVars>>

(* dialSession returns a session.                                          *)
ManagerConnected(s) ==
    /\ Running
    /\ mPc = "handshake"
    /\ st[s] = "none"
    /\ st' = [st EXCEPT ![s] = "open"]
    /\ mSess' = s
    /\ mPc' = "offer"
    /\ UNCHANGED <<ctxDone, watched, poolVars, standbyCh, workerVars, healthVars>>

(* dialSession returns an error, or the mimicry handshake fails and it     *)
(* panics as above.                                                        *)
ManagerFails ==
    /\ ~crashed
    /\ mPc = "handshake"
    /\ \/ mPc' = "wait" /\ UNCHANGED crashed
       \/ crashed' = TRUE /\ UNCHANGED mPc
    /\ UNCHANGED <<ctxDone, sessVars, poolVars, standbyCh, workerVars, mSess, healthVars>>

(* Variant for the mutation checks: the same session is offered again.     *)
OfferAgain ==
    /\ Running
    /\ mPc = "offer"
    /\ standbyCh = NoSession
    /\ standbyCh' = mSess
    /\ UNCHANGED <<ctxDone, sessVars, poolVars, workerVars, managerVars, healthVars>>

(* The send on standbyCh: it waits for room, not for a receiver.           *)
Offer ==
    /\ Running
    /\ mPc = "offer"
    /\ standbyCh = NoSession
    /\ standbyCh' = mSess
    /\ mSess' = NoSession
    /\ mPc' = "wait"
    /\ UNCHANGED <<ctxDone, sessVars, poolVars, workerVars, healthVars>>

(* Variant for the mutation checks: the session is not closed.             *)
OfferCancelledOpen ==
    /\ Running
    /\ mPc = "offer"
    /\ ctxDone
    /\ mSess' = NoSession
    /\ mPc' = "done"
    /\ UNCHANGED <<ctxDone, sessVars, poolVars, standbyCh, workerVars, healthVars>>

(* The other case of that select: cancelled.                               *)
OfferCancelled ==
    /\ Running
    /\ mPc = "offer"
    /\ ctxDone
    /\ CloseSession(mSess)
    /\ mSess' = NoSession
    /\ mPc' = "done"
    /\ UNCHANGED <<ctxDone, poolVars, standbyCh, workerVars, healthVars>>
-----------------------------------------------------------------------------
HealthStop ==
    /\ Running
    /\ hPc = "idle"
    /\ ctxDone
    /\ hPc' = "done"
    /\ UNCHANGED <<ctxDone, sessVars, poolVars, standbyCh, workerVars,
                   managerVars, victim>>

(* Variant for the mutation checks: broken sessions are removed as well.   *)
CleanBroken ==
    /\ Running
    /\ hPc = "idle"
    /\ pool' = {s \in pool : st[s] = "open"}
    /\ UNCHANGED <<ctxDone, sessVars, age, standbyCh, workerVars, managerVars, healthVars>>

(* sessionHealthCheck, every 3 seconds: closed sessions leave the pool.    *)
Clean ==
    /\ Running
    /\ hPc = "idle"
    /\ pool' = {s \in pool : st[s] # "closed"}
    /\ UNCHANGED <<ctxDone, sessVars, age, standbyCh, workerVars,
                   managerVars, healthVars>>

Expired == {s \in pool : st[s] # "closed" /\ age[s] > MaxAge}

(* sessionHealthCheck, every minute, under the read lock: the oldest       *)
(* session past its age is chosen (ages saturate, so any expired one may   *)
(* be the oldest) ...                                                      *)
RecyclePick ==
    /\ Running
    /\ hPc = "idle"
    /\ victim' \in Expired
    /\ hPc' = "recycle"
    /\ UNCHANGED <<ctxDone, sessVars, poolVars, standbyCh, workerVars, managerVars>>

(* ... and closed after the lock is released.                              *)
RecycleClose ==
    /\ Running
    /\ hPc = "recycle"
    /\ CloseSession(victim)
    /\ victim' = NoSession
    /\ hPc' = "idle"
    /\ UNCHANGED <<ctxDone, poolVars, standbyCh, workerVars, managerVars>>
-----------------------------------------------------------------------------
Cancel ==
    /\ Running
    /\ ~ctxDone
    /\ ctxDone' = TRUE
    /\ UNCHANGED <<sessVars, poolVars, standbyCh, workerVars, managerVars, healthVars>>

(* connectAndServe's goroutine: <-ctx.Done(); sess.Close().                *)
WatcherCloses(s) ==
    /\ Running
    /\ ctxDone
    /\ s \in watched
    /\ CloseSession(s)
    /\ UNCHANGED <<ctxDone, poolVars, standbyCh, workerVars, managerVars, healthVars>>

(* The transport fails; smux's keepalive closes a session.                 *)
TransportFails(s) ==
    /\ Running
    /\ st[s] = "open"
    /\ st' = [st EXCEPT ![s] = "broken"]
    /\ UNCHANGED <<ctxDone, watched, poolVars, standbyCh, workerVars,
                   managerVars, healthVars>>

KeepAliveCloses(s) ==
    /\ Running
    /\ st[s] \in {"open", "broken"}
    /\ CloseSession(s)
    /\ UNCHANGED <<ctxDone, poolVars, standbyCh, workerVars, managerVars, healthVars>>

(* A closed session nobody refers to is gone; its identity is used again.  *)
Collect(s) ==
    /\ Running
    /\ st[s] = "closed"
    /\ s \notin pool \cup {standbyCh, mSess, victim} \cup {wSess[w] : w \in Workers}
    /\ st' = [st EXCEPT ![s] = "none"]
    /\ UNCHANGED <<ctxDone, watched, poolVars, standbyCh, workerVars,
                   managerVars, healthVars>>

Tick ==
    /\ Running
    /\ age' = [s \in Sessions |-> IF s \in pool /\ age[s] <= MaxAge THEN age[s] + 1 ELSE age[s]]
    /\ UNCHANGED <<ctxDone, sessVars, pool, standbyCh, workerVars,
                   managerVars, healthVars>>
-----------------------------------------------------------------------------
(* The steps a worker and the manager take without waiting for the peer.   *)
WorkerStep(w) ==
    \/ WorkerTop(w) \/ SelectOther(w) \/ TakeStandby(w) \/ Promote(w)
    \/ LoopCheck(w) \/ AcceptFails(w) \/ Dial(w) \/ ServeFails(w)
    \/ CloseRemoved(w) \/ Retry(w)

ManagerStep == ManagerWait \/ ManagerTop \/ ManagerDial \/ Offer \/ OfferCancelled

Next ==
    \/ \E w \in Workers :
         \/ WorkerStep(w) \/ StreamArrives(w) \/ DialTLS(w) \/ ConnectFails(w)
         \/ \E s \in Sessions : Connected(w, s)
    \/ ManagerStep \/ ManagerFails
    \/ \E s \in Sessions :
         \/ ManagerConnected(s) \/ WatcherCloses(s)
         \/ TransportFails(s) \/ KeepAliveCloses(s) \/ Collect(s)
    \/ HealthStop \/ Clean \/ RecyclePick \/ RecycleClose
    \/ Cancel \/ Tick

(***************************************************************************)
(* The TCP connect has a timeout and nothing else in WorkerStep or         *)
(* ManagerStep waits for the network.  The two handshakes and AcceptStream *)
(* may wait for ever: no fairness.  Go's select picks among its ready      *)
(* cases at random, so the health check does see ctx.Done().               *)
(***************************************************************************)
Fairness ==
    /\ \A w \in Workers : WF_vars(WorkerStep(w))
    /\ WF_vars(ManagerStep)
    /\ WF_vars(RecycleClose)
    /\ SF_vars(HealthStop)
    /\ \A s \in Sessions : WF_vars(WatcherCloses(s))

Spec     == Init /\ [][Next]_vars
FairSpec == Spec /\ Fairness
-----------------------------------------------------------------------------
(* Every variable of the pool has its type.                                *)
TypeOK ==
    /\ ctxDone \in BOOLEAN /\ crashed \in BOOLEAN
    /\ st \in [Sessions -> SessState]
    /\ age \in [Sessions -> 0..(MaxAge + 1)]
    /\ pool \subseteq Sessions
    /\ watched \subseteq Sessions
    /\ standbyCh \in Sessions \cup {NoSession}
    /\ wPc \in [Workers -> WorkerPc]
    /\ wSess \in [Workers -> Sessions \cup {NoSession}]
    /\ mPc \in ManagerPc
    /\ mSess \in Sessions \cup {NoSession}
    /\ hPc \in HealthPc
    /\ victim \in Sessions \cup {NoSession}

(***************************************************************************)
(* A session has one holder: never two workers, and never a worker while   *)
(* it is still on offer or in the channel.  Two holders would both accept  *)
(* its streams and close it under each other.                              *)
(***************************************************************************)
OneHolder ==
    /\ \A v, w \in Workers : v # w => wSess[v] = NoSession \/ wSess[v] # wSess[w]
    /\ \A w \in Workers : wSess[w] = NoSession \/ wSess[w] \notin {standbyCh, mSess}
    /\ standbyCh = NoSession \/ standbyCh # mSess

Alive(s) == st[s] \in {"open", "broken"}

(* A worker or the manager has the session, or it lies in the channel and  *)
(* there is still a worker that may take it.                               *)
HasHolder(s) ==
    \/ s = mSess \/ \E w \in Workers : wSess[w] = s
    \/ s = standbyCh /\ \E w \in Workers : wPc[w] # "done"

(***************************************************************************)
(* No session is lost alive: one that is not closed has a holder.  Every   *)
(* error path and every cancellation closes what it drops.  The one        *)
(* exception is the standby in the channel after the context has ended:    *)
(* the channel is buffered, so the manager's send does not wait for a      *)
(* worker, and once the workers have returned nobody takes the session or  *)
(* closes it.                                                              *)
(***************************************************************************)
NoLeak ==
    \A s \in Sessions : Alive(s) => HasHolder(s) \/ (ctxDone /\ s = standbyCh)

Serving(w) == wPc[w] \in {"loop", "accept", "serve"}

(***************************************************************************)
(* The pool OpenStream chooses from is what the workers serve: an entry    *)
(* always has a worker that will remove it, and a session that is served   *)
(* and not closed is never missing, whatever the health check removes.     *)
(***************************************************************************)
PoolIsServed ==
    /\ \A s \in pool : \E w \in Workers : Serving(w) /\ wSess[w] = s
    /\ \A w \in Workers : Serving(w) /\ st[wSess[w]] # "closed" => wSess[w] \in pool

(***************************************************************************)
(* After the context ends the workers, the standby manager and the health  *)
(* check have returned, so that Start can, or sit in one of the places     *)
(* that do not watch the context: the TLS and the mimicry handshake, which *)
(* have no deadline, and AcceptStream on a promoted standby.               *)
(***************************************************************************)
ShutdownReachesAll ==
    ctxDone ~> \/ crashed
               \/ /\ \A w \in Workers : wPc[w] \in {"done", "tls", "handshake", "accept"}
                  /\ mPc \in {"done", "handshake"}
                  /\ hPc = "done"

(* "Pool workers cycle through paths on failure": a failed handshake is    *)
(* one of the failures connectAndServe has an error for.                   *)
FailureIsSurvived == ~crashed
=============================================================================
