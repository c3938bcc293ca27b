----------------------------- MODULE ReverseUDP -----------------------------
(***************************************************************************)
(* startReverseUDP: one goroutine reads datagrams and writes each to the   *)
(* stream of the peer it came from, a goroutine per stream sends replies   *)
(* back, and a ticker removes the peers that were silent for too long.     *)
(*                                                                         *)
(* The listener opens a stream while it holds mu, and writes to it after   *)
(* it has released mu; the cleanup closes streams under mu.  Times are     *)
(* ages, kept up to the largest value they are compared with.              *)
(***************************************************************************)
EXTENDS Naturals

CONSTANTS
    Keys,     \* remote addresses
    Streams,  \* identities of smux streams, used again after they are gone
    None,
    Timeout,  \* 120 s: a peer is stale when it is older than this
    MaxLag    \* how long the cleanup may wait for mu after its tick

ASSUME UdpAssumption ==
    /\ None \notin Streams \union Keys
    /\ Timeout \in Nat /\ MaxLag \in Nat

VARIABLES
    ctxDone,  \* the context was cancelled
    mu,       \* who holds the mutex: "free" or "listener" (the cleanup needs one step)
    lpc,      \* where the listener is
    key,      \* the sender of its datagram
    cur,      \* the stream it has in hand
    cpc,      \* where the cleanup is
    peers,    \* the map: a peer's stream, or None
    lastSeen, \* time since the peer's lastSeen (0 for an unknown one)
    lag,      \* time since the tick the cleanup works on
    st,       \* a stream: "free", "open", "dead" (no longer carried), "closed"
    stalled,  \* streams whose window is full: Write blocks
    reader,   \* the goroutine reading the stream: "none", "run" or "done"
    sending,  \* keys that may still send
    waited    \* history: time the listener has been writing

vars == <<ctxDone, mu, lpc, key, cur, cpc, peers, lastSeen, lag, st, stalled,
          reader, sending, waited>>

MaxAge == Timeout + MaxLag + 1

Init ==
    /\ ctxDone = FALSE
    /\ mu = "free"
    /\ lpc = "read" /\ key = None /\ cur = None
    /\ cpc = "idle" /\ lag = 0
    /\ peers = [k \in Keys |-> None]
    /\ lastSeen = [k \in Keys |-> 0]
    /\ st = [s \in Streams |-> "free"]
    /\ stalled = {}
    /\ reader = [s \in Streams |-> "none"]
    /\ sending = Keys
    /\ waited = 0
-----------------------------------------------------------------------------
(* The listener's loop.                                                    *)

Receive(k) ==
    /\ lpc = "read" /\ k \in sending
    /\ lpc' = "lock" /\ key' = k
    /\ UNCHANGED <<ctxDone, mu, cur, cpc, peers, lastSeen, lag, st, stalled, reader, sending, waited>>

ListenerStops ==
    /\ lpc = "read" /\ ctxDone
    /\ lpc' = "stopped"
    /\ UNCHANGED <<ctxDone, mu, key, cur, cpc, peers, lastSeen, lag, st, stalled, reader, sending, waited>>

Lock ==
    /\ lpc = "lock" /\ mu = "free"
    /\ mu' = "listener"
    /\ cur' = peers[key]
    /\ lpc' = IF peers[key] = None THEN "open" ELSE "seen"
    /\ UNCHANGED <<ctxDone, key, cpc, peers, lastSeen, lag, st, stalled, reader, sending, waited>>

OpenStream(s) ==
    /\ lpc = "open" /\ st[s] = "free"
    /\ st' = [st EXCEPT ![s] = "open"]
    /\ cur' = s
    /\ lpc' = "send"
    /\ UNCHANGED <<ctxDone, mu, key, cpc, peers, lastSeen, lag, stalled, reader, sending, waited>>

(* openStream fails: the datagram is dropped.                              *)
OpenFails ==
    /\ lpc = "open"
    /\ mu' = "free" /\ lpc' = "read" /\ key' = None
    /\ UNCHANGED <<ctxDone, cur, cpc, peers, lastSeen, lag, st, stalled, reader, sending, waited>>

(* sendTarget succeeds: the peer is entered and its reader started.        *)
AddPeer ==
    /\ lpc = "send"
    /\ peers' = [peers EXCEPT ![key] = cur]
    /\ lastSeen' = [lastSeen EXCEPT ![key] = 0]
    /\ reader' = [reader EXCEPT ![cur] = "run"]
    /\ lpc' = "seen"
    /\ UNCHANGED <<ctxDone, mu, key, cur, cpc, lag, st, stalled, sending, waited>>

(* Variant for the mutation checks: the stream is not closed.              *)
SendFailsOpen ==
    /\ lpc = "send"
    /\ mu' = "free" /\ lpc' = "read" /\ key' = None /\ cur' = None
    /\ UNCHANGED <<ctxDone, cpc, peers, lastSeen, lag, st, stalled, reader, sending, waited>>

SendFails ==
    /\ lpc = "send"
    /\ st' = [st EXCEPT ![cur] = "closed"]
    /\ mu' = "free" /\ lpc' = "read" /\ key' = None /\ cur' = None
    /\ UNCHANGED <<ctxDone, cpc, peers, lastSeen, lag, stalled, reader, sending, waited>>

(* Variants for the mutation checks: only a new peer is marked; mu is kept *)
(* until the datagram is written.                                          *)
SeenOnce ==
    /\ lpc = "seen"
    /\ mu' = "free" /\ waited' = 0
    /\ lpc' = "write"
    /\ UNCHANGED <<ctxDone, key, cur, cpc, peers, lastSeen, lag, st, stalled, reader, sending>>

SeenLocked ==
    /\ lpc = "seen"
    /\ lastSeen' = [lastSeen EXCEPT ![key] = 0]
    /\ waited' = 0
    /\ lpc' = "write"
    /\ UNCHANGED <<ctxDone, mu, key, cur, cpc, peers, lag, st, stalled, reader, sending>>

(* lastSeen is set and mu released.                                        *)
Seen ==
    /\ lpc = "seen"
    /\ lastSeen' = [lastSeen EXCEPT ![key] = 0]
    /\ mu' = "free" /\ waited' = 0
    /\ lpc' = "write"
    /\ UNCHANGED <<ctxDone, key, cur, cpc, peers, lag, st, stalled, reader, sending>>

(* Write returns; its result is not looked at.                             *)
Write ==
    /\ lpc = "write"
    /\ cur \notin stalled \/ st[cur] # "open"
    /\ lpc' = "read" /\ key' = None /\ cur' = None /\ waited' = 0
    /\ UNCHANGED <<ctxDone, mu, cpc, peers, lastSeen, lag, st, stalled, reader, sending>>

Listener ==
    \/ ListenerStops \/ Lock \/ (\E s \in Streams : OpenStream(s)) \/ OpenFails
    \/ AddPeer \/ SendFails \/ Seen \/ Write
-----------------------------------------------------------------------------
(* The ticker delivers the time; then the cleanup waits for mu.            *)
CleanTick ==
    /\ cpc = "idle"
    /\ cpc' = "lock" /\ lag' = 0
    /\ UNCHANGED <<ctxDone, mu, lpc, key, cur, peers, lastSeen, st, stalled, reader, sending, waited>>

CleanStops ==
    /\ cpc = "idle" /\ ctxDone
    /\ cpc' = "stopped"
    /\ UNCHANGED <<ctxDone, mu, lpc, key, cur, peers, lastSeen, lag, st, stalled, reader, sending, waited>>

(* now - lastSeen > 120, where now is the time of the tick.                *)
Stale(k) == peers[k] # None /\ lastSeen[k] > Timeout + lag

(* Variants for the mutation checks: the streams stay open; the last peer  *)
(* is kept.                                                                *)
CleanForgets ==
    /\ cpc = "lock" /\ mu = "free"
    /\ peers' = [k \in Keys |-> IF Stale(k) THEN None ELSE peers[k]]
    /\ lastSeen' = [k \in Keys |-> IF Stale(k) THEN 0 ELSE lastSeen[k]]
    /\ cpc' = "idle" /\ lag' = 0
    /\ UNCHANGED <<ctxDone, mu, lpc, key, cur, st, stalled, reader, sending, waited>>

CleanKeepsDead ==
    /\ cpc = "lock" /\ mu = "free"
    /\ LET gone == {k \in Keys : Stale(k) /\ st[peers[k]] = "open"} IN
         /\ peers' = [k \in Keys |-> IF k \in gone THEN None ELSE peers[k]]
         /\ st' = [s \in Streams |-> IF \E k \in gone : peers[k] = s THEN "closed" ELSE st[s]]
    /\ lastSeen' = [k \in Keys |-> IF Stale(k) THEN 0 ELSE lastSeen[k]]
    /\ cpc' = "idle" /\ lag' = 0
    /\ UNCHANGED <<ctxDone, mu, lpc, key, cur, stalled, reader, sending, waited>>

(* The sweep, under mu: stale peers' streams are closed and the peers      *)
(* deleted.                                                                *)
Clean ==
    /\ cpc = "lock" /\ mu = "free"
    /\ peers' = [k \in Keys |-> IF Stale(k) THEN None ELSE peers[k]]
    /\ st' = [s \in Streams |-> IF \E k \in Keys : Stale(k) /\ peers[k] = s THEN "closed" ELSE st[s]]
    /\ lastSeen' = [k \in Keys |-> IF Stale(k) THEN 0 ELSE lastSeen[k]]
    /\ cpc' = "idle" /\ lag' = 0
    /\ UNCHANGED <<ctxDone, mu, lpc, key, cur, stalled, reader, sending, waited>>

(* A reply is sent back, which changes nothing here; Read fails.           *)
ReaderEnds(s) ==
    /\ reader[s] = "run" /\ st[s] # "open"
    /\ reader' = [reader EXCEPT ![s] = "done"]
    /\ UNCHANGED <<ctxDone, mu, lpc, key, cur, cpc, peers, lastSeen, lag, st, stalled, sending, waited>>
-----------------------------------------------------------------------------
(* The environment: streams die with their session or at the client, their *)
(* windows fill and empty, senders stop, the program is told to stop.      *)
StreamDies(s) ==
    /\ st[s] = "open"
    /\ st' = [st EXCEPT ![s] = "dead"]
    /\ UNCHANGED <<ctxDone, mu, lpc, key, cur, cpc, peers, lastSeen, lag, stalled, reader, sending, waited>>

WindowChanges(s) ==
    /\ st[s] = "open"
    /\ stalled' = IF s \in stalled THEN stalled \ {s} ELSE stalled \union {s}
    /\ UNCHANGED <<ctxDone, mu, lpc, key, cur, cpc, peers, lastSeen, lag, st, reader, sending, waited>>

SenderQuits(k) ==
    /\ k \in sending
    /\ sending' = sending \ {k}
    /\ UNCHANGED <<ctxDone, mu, lpc, key, cur, cpc, peers, lastSeen, lag, st, stalled, reader, waited>>

Cancel ==
    /\ ~ctxDone /\ ctxDone' = TRUE
    /\ UNCHANGED <<mu, lpc, key, cur, cpc, peers, lastSeen, lag, st, stalled, reader, sending, waited>>

(* A closed stream nobody refers to is collected.                          *)
Collect(s) ==
    /\ st[s] = "closed" /\ reader[s] # "run" /\ cur # s
    /\ st' = [st EXCEPT ![s] = "free"]
    /\ reader' = [reader EXCEPT ![s] = "none"]
    /\ stalled' = stalled \ {s}
    /\ UNCHANGED <<ctxDone, mu, lpc, key, cur, cpc, peers, lastSeen, lag, sending, waited>>

Older(t, max) == IF t < max THEN t + 1 ELSE t

Tick ==
    /\ cpc = "lock" => lag < MaxLag
    /\ lag' = IF cpc = "lock" THEN lag + 1 ELSE lag
    /\ lastSeen' = [k \in Keys |-> IF peers[k] = None THEN 0 ELSE Older(lastSeen[k], MaxAge)]
    /\ waited' = IF lpc = "write" THEN Older(waited, MaxAge) ELSE waited
    /\ UNCHANGED <<ctxDone, mu, lpc, key, cur, cpc, peers, st, stalled, reader, sending>>

Next ==
    \/ \E k \in Keys : Receive(k) \/ SenderQuits(k)
    \/ Listener
    \/ CleanTick \/ CleanStops \/ Clean
    \/ \E s \in Streams : ReaderEnds(s) \/ StreamDies(s) \/ WindowChanges(s) \/ Collect(s)
    \/ Cancel \/ Tick

Spec == Init /\ [][Next]_vars

(* Goroutines that can go on do, a goroutine waiting for mu gets it (Go's  *)
(* mutex starves none), the ticker ticks and time passes.  Nothing is      *)
(* assumed of the network: a full window may stay full.                    *)
FairSpec ==
    /\ Spec
    /\ WF_vars(Listener) /\ SF_vars(Lock)
    /\ WF_vars(CleanTick) /\ SF_vars(Clean)
    /\ WF_vars(Tick)
    /\ \A s \in Streams : WF_vars(ReaderEnds(s)) /\ WF_vars(Collect(s))
-----------------------------------------------------------------------------
ListenerPc == {"read", "lock", "open", "send", "seen", "write", "stopped"}

(* Every variable has its type, and the listener holds mu exactly in the   *)
(* section between its Lock and its Unlock.                                *)
UdpTypeOK ==
    /\ ctxDone \in BOOLEAN
    /\ mu \in {"free", "listener"}
    /\ lpc \in ListenerPc /\ cpc \in {"idle", "lock", "stopped"}
    /\ key \in Keys \union {None} /\ cur \in Streams \union {None}
    /\ peers \in [Keys -> Streams \union {None}]
    /\ lastSeen \in [Keys -> Nat] /\ lag \in Nat /\ waited \in Nat
    /\ st \in [Streams -> {"free", "open", "dead", "closed"}]
    /\ stalled \in SUBSET Streams
    /\ reader \in [Streams -> {"none", "run", "done"}]
    /\ sending \in SUBSET Keys
    /\ (mu = "listener") <=> (lpc \in {"open", "send", "seen"})

(***************************************************************************)
(* Every stream that is not closed belongs to one peer of the map, or is   *)
(* the one the listener is about to enter; no two peers share one, and a   *)
(* peer's stream is never one that was closed and given away.              *)
(***************************************************************************)
StreamsOwned ==
    /\ \A s \in Streams : st[s] \in {"open", "dead"} =>
         (\E k \in Keys : peers[k] = s) \/ (lpc = "send" /\ cur = s)
    /\ \A k, l \in Keys : peers[k] = peers[l] /\ peers[k] # None => k = l
    /\ \A k \in Keys : peers[k] # None => st[peers[k]] \in {"open", "dead"}

(***************************************************************************)
(* The listener writes after it released mu: unless it waited longer than  *)
(* the timeout, the stream in its hand is still its peer's and was not     *)
(* closed by the cleanup, however late the cleanup gets to work on a tick. *)
(***************************************************************************)
FreshWrite ==
    lpc = "write" /\ waited <= Timeout => peers[key] = cur /\ st[cur] # "closed"

(***************************************************************************)
(* One goroutine serves all peers, and its Write has no deadline.  A peer  *)
(* whose window stays full does not stop it for ever: meanwhile the peer   *)
(* grows stale, the cleanup closes its stream and Write returns.           *)
(***************************************************************************)
ListenerReturns ==
    lpc \in {"lock", "open", "send", "seen", "write"} ~> lpc = "read" \/ ctxDone

(***************************************************************************)
(* A sender that fell silent is forgotten and its stream closed, dead or   *)
(* alive; the goroutine that read the stream ends.                         *)
(***************************************************************************)
SilentPeerLeaves ==
    /\ \A k \in Keys : k \notin sending ~> peers[k] = None \/ ctxDone
    /\ \A s \in Streams : st[s] = "closed" ~> reader[s] # "run"
=============================================================================
