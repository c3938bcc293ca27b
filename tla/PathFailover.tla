---------------------------- MODULE PathFailover ----------------------------
(***************************************************************************)
(* How the client's workers choose a path and a frame size (client.go):    *)
(* the latency prober, bestPath, the failure count of poolWorker, and the  *)
(* frame level all workers adjust with compare-and-swap.                   *)
(*                                                                         *)
(* What happens to a session while it lives is in ClientPool; here a       *)
(* session is how long it lasted.                                          *)
(***************************************************************************)
EXTENDS Integers

CONSTANTS
    NPaths,    \* len(c.paths)
    Workers,   \* pool workers
    MaxFails,  \* maxFailsBeforeSwitch
    MaxLevel,  \* 4, the last index of frameSizes
    Rtts       \* round-trip times a probe may store (999s for a failure)

ASSUME FailoverAssumption ==
    /\ NPaths \in Nat \ {0} /\ MaxFails \in Nat \ {0} /\ MaxLevel \in Nat
    /\ Rtts \subseteq Nat \ {0}

Paths == 0..(NPaths - 1)

VARIABLES
    pathLatency,  \* RTT per path, 0 when not measured yet
    probe,        \* the path the prober measures next
    frameLevel,   \* shared index into frameSizes
    wPc,          \* "run", then in adjustFrameLevel "load" and "cas", then
                  \* "decide"; "first" and "scan" in bestPath
    pathIdx,      \* a worker's path
    failCount,    \* its consecutive short sessions
    last,         \* how its last session ended, see Outcome
    old,          \* the level it loaded, 0 outside adjustFrameLevel
    scan,         \* the variables of bestPath: next index, best, bestRTT
    seen          \* history: the latencies its scan has loaded, 0 before

vars == <<pathLatency, probe, frameLevel, wPc, pathIdx, failCount, last, old, scan, seen>>

(***************************************************************************)
(* connectAndServe always returns an error: "short" after less than 30     *)
(* seconds, "long" after more than 2 minutes, "other" in between, and when *)
(* the worker served a promoted standby instead.                           *)
(***************************************************************************)
Outcome == {"none", "short", "other", "long"}
-----------------------------------------------------------------------------
Start  == [at |-> 0, best |-> 0, rtt |-> 0]
Unseen == [p \in Paths |-> 0]

Init ==
    /\ pathLatency = [p \in Paths |-> 0]
    /\ probe = 0
    /\ frameLevel \in {0, MaxLevel}
    /\ wPc = [w \in Workers |-> "first"]
    /\ pathIdx = [w \in Workers |-> 0]
    /\ failCount = [w \in Workers |-> 0]
    /\ last = [w \in Workers |-> "none"]
    /\ old = [w \in Workers |-> 0]
    /\ scan = [w \in Workers |-> Start]
    /\ seen = [w \in Workers |-> Unseen]

(* latencyProber: one path after the other.                                *)
Probe ==
    /\ \E rtt \in Rtts : pathLatency' = [pathLatency EXCEPT ![probe] = rtt]
    /\ probe' = (probe + 1) % NPaths
    /\ UNCHANGED <<frameLevel, wPc, pathIdx, failCount, last, old, scan, seen>>

(* A session ends.  Long and short ones adjust the frame level first.      *)
SessionEnds(w, o) ==
    /\ wPc[w] = "run"
    /\ last' = [last EXCEPT ![w] = o]
    /\ wPc' = [wPc EXCEPT ![w] = IF o \in {"short", "long"} THEN "load" ELSE "run"]
    /\ failCount' = [failCount EXCEPT ![w] =
           IF o # "short" THEN 0 ELSE IF @ < MaxFails THEN @ + 1 ELSE @]
    /\ UNCHANGED <<pathLatency, probe, frameLevel, pathIdx, old, scan, seen>>

(* adjustFrameLevel: the clamped new level.                                *)
Adjusted(w) ==
    LET new == IF last[w] = "long" THEN old[w] + 1 ELSE old[w] - 1
    IN  IF new < 0 THEN 0 ELSE IF new > MaxLevel THEN MaxLevel ELSE new

Load(w) ==
    /\ wPc[w] = "load"
    /\ old' = [old EXCEPT ![w] = frameLevel]
    /\ wPc' = [wPc EXCEPT ![w] = "cas"]
    /\ UNCHANGED <<pathLatency, probe, frameLevel, pathIdx, failCount, last, scan, seen>>

(* Variant for the mutation checks: a plain store.                         *)
StoreLevel(w) ==
    /\ wPc[w] = "cas"
    /\ frameLevel' = Adjusted(w)
    /\ wPc' = [wPc EXCEPT ![w] = "decide"]
    /\ old' = [old EXCEPT ![w] = 0]
    /\ UNCHANGED <<pathLatency, probe, pathIdx, failCount, last, scan, seen>>

(* Nothing to do, swapped, or lost the race and tries again.               *)
Swap(w) ==
    /\ wPc[w] = "cas"
    /\ IF Adjusted(w) = old[w] \/ frameLevel = old[w]
         THEN /\ frameLevel' = IF Adjusted(w) = old[w] THEN frameLevel ELSE Adjusted(w)
              /\ wPc' = [wPc EXCEPT ![w] = "decide"]
         ELSE wPc' = [wPc EXCEPT ![w] = "load"] /\ UNCHANGED frameLevel
    /\ old' = [old EXCEPT ![w] = 0]
    /\ UNCHANGED <<pathLatency, probe, pathIdx, failCount, last, scan, seen>>

(* poolWorker looks for another path after MaxFails short sessions.        *)
Decide(w) ==
    /\ wPc[w] = "decide"
    /\ wPc' = [wPc EXCEPT ![w] = IF failCount[w] >= MaxFails /\ NPaths > 1 THEN "scan" ELSE "run"]
    /\ UNCHANGED <<pathLatency, probe, frameLevel, pathIdx, failCount, last, old, scan, seen>>

(***************************************************************************)
(* bestPath, one load at a time, while the prober stores: the RTT of path  *)
(* 0 is taken as it is, that of a later path if it is measured and lower   *)
(* than the one kept, which may be out of date.                            *)
(***************************************************************************)
Scanning(w) == wPc[w] \in {"first", "scan"} /\ scan[w].at < NPaths

Lower(s, rtt) == s.at = 0 \/ (rtt > 0 /\ (s.rtt = 0 \/ rtt < s.rtt))

Round(s, rtt) ==
    IF Lower(s, rtt) THEN [at |-> s.at + 1, best |-> s.at, rtt |-> rtt]
                     ELSE [s EXCEPT !.at = s.at + 1]

(* Variant for the mutation checks: compares with what the best path is    *)
(* measured at by now.                                                     *)
LoadRttAfresh(w) ==
    /\ Scanning(w)
    /\ LET s   == scan[w]
           rtt == pathLatency[s.at]
       IN  /\ scan' = [scan EXCEPT ![w] = Round([s EXCEPT !.rtt = pathLatency[s.best]], rtt)]
           /\ seen' = [seen EXCEPT ![w][s.at] = rtt]
    /\ UNCHANGED <<pathLatency, probe, frameLevel, wPc, pathIdx, failCount, last, old>>

LoadRtt(w) ==
    /\ Scanning(w)
    /\ LET s   == scan[w]
           rtt == pathLatency[s.at]
       IN  /\ scan' = [scan EXCEPT ![w] = Round(s, rtt)]
           /\ seen' = [seen EXCEPT ![w][s.at] = rtt]
    /\ UNCHANGED <<pathLatency, probe, frameLevel, wPc, pathIdx, failCount, last, old>>

(* Variant for the mutation checks: the best path, even if it just failed. *)
NextPathBest(w) == scan[w].best

(* A new worker takes the best path; one whose path failed takes another.  *)
NextPath(w) ==
    IF wPc[w] = "scan" /\ scan[w].best = pathIdx[w]
      THEN (pathIdx[w] + 1) % NPaths ELSE scan[w].best

(* bestPath returned.                                                      *)
Switch(w) ==
    /\ wPc[w] \in {"first", "scan"} /\ scan[w].at = NPaths
    /\ pathIdx' = [pathIdx EXCEPT ![w] = NextPath(w)]
    /\ failCount' = [failCount EXCEPT ![w] = 0]
    /\ wPc' = [wPc EXCEPT ![w] = "run"]
    /\ scan' = [scan EXCEPT ![w] = Start]
    /\ seen' = [seen EXCEPT ![w] = Unseen]
    /\ UNCHANGED <<pathLatency, probe, frameLevel, last, old>>

WorkerStep(w) ==
    \/ \E o \in Outcome \ {"none"} : SessionEnds(w, o)
    \/ Load(w) \/ Swap(w) \/ Decide(w)
    \/ LoadRtt(w) \/ Switch(w)

Next == Probe \/ \E w \in Workers : WorkerStep(w)

(* The compare-and-swap that ends adjustFrameLevel.                        *)
SwapDone(w) == Swap(w) /\ wPc'[w] = "decide"

(***************************************************************************)
(* A worker whose sessions keep ending keeps trying.  A lost swap is       *)
(* retried at once, while the others change the level only when a session  *)
(* of theirs ends, so a worker does not lose for ever.                     *)
(***************************************************************************)
Spec     == Init /\ [][Next]_vars
FairSpec == Spec /\ \A w \in Workers : WF_vars(WorkerStep(w)) /\ SF_vars(SwapDone(w))
-----------------------------------------------------------------------------
(***************************************************************************)
(* bestPath against its description, "the path with lowest measured RTT",  *)
(* whatever the prober stores during the scan: among the latencies the     *)
(* scan met no measured one is better, the choice is measured whenever one *)
(* of them was, and of equal paths the first is taken.                     *)
(***************************************************************************)
BestIsLowest ==
    \A w \in Workers : scan[w].at = NPaths =>
        LET best     == scan[w].best
            Measured == {p \in Paths : seen[w][p] > 0}
        IN  IF Measured = {} THEN best = 0
            ELSE /\ best \in Measured
                 /\ \A p \in Measured :
                       \/ seen[w][best] < seen[w][p]
                       \/ seen[w][best] = seen[w][p] /\ best <= p

(***************************************************************************)
(* Workers that race in adjustFrameLevel do not undo each other's changes: *)
(* the level only ever moves to a neighbour.                               *)
(***************************************************************************)
LevelMovesByOne ==
    [][frameLevel' \in {frameLevel - 1, frameLevel, frameLevel + 1}]_vars

(***************************************************************************)
(* "Pool workers cycle through paths on failure (Multi-IP Failover)": as   *)
(* long as its sessions fail early a worker does not stay on any path,     *)
(* even one that the prober keeps measuring as the best, and however the   *)
(* prober and the other workers interfere.                                 *)
(***************************************************************************)
BlockedPathIsLeft ==
    \A w \in Workers :
        <>[](last[w] = "short") /\ NPaths > 1 => \A p \in Paths : []<>(pathIdx[w] # p)
=============================================================================
