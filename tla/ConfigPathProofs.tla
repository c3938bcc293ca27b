-------------------------- MODULE ConfigPathProofs --------------------------
(***************************************************************************)
(* Two components that meet in the client's list of paths: PathFailover,   *)
(* which chooses among them, and ConfigLoad, which fills them in.          *)
(*                                                                         *)
(* PathFailover, for any number of workers, paths and levels: the shared   *)
(* frame level stays in range and moves by one at a time, bestPath returns *)
(* the fastest path its scan met, and a worker that switches leaves its    *)
(* path.                                                                   *)
(*                                                                         *)
(* ConfigLoad, for every file: what LoadConfig accepts can be run with.    *)
(*                                                                         *)
(* The loop of mapDaggerToLegacy is a recursive function.  Its induction   *)
(* is by a least counterexample (NatMin), which needs sets only.           *)
(***************************************************************************)
EXTENDS PathFailover, ConfigLoad, WellFoundedInduction, SequenceTheorems, TLAPS

(* The shared frame level and every level a worker has loaded are indices  *)
(* of frameSizes, so no lookup can panic.                                  *)
LevelInv ==
    /\ frameLevel \in 0..MaxLevel
    /\ old \in [Workers -> 0..MaxLevel]

(* The clamp of adjustFrameLevel keeps the level in range and next to the  *)
(* one it was computed from.                                               *)
LEMMA AdjustedNear ==
    ASSUME LevelInv, NEW w \in Workers
    PROVE  /\ Adjusted(w) \in 0..MaxLevel
           /\ Adjusted(w) \in {old[w] - 1, old[w], old[w] + 1}
  <1>1. old[w] \in 0..MaxLevel
    BY DEF LevelInv
  <1> QED
    BY <1>1, FailoverAssumption DEF Adjusted

LEMMA LevelInitial == Init => LevelInv
  BY FailoverAssumption DEF Init, LevelInv

(* Only Swap writes the level and only Load writes a worker's copy of it.  *)
LEMMA LevelStep == LevelInv /\ [Next]_vars => LevelInv'
  <1> SUFFICES ASSUME LevelInv, [Next]_vars PROVE LevelInv'
    OBVIOUS
  <1>1. CASE Probe
    BY <1>1 DEF Probe, LevelInv
  <1>2. ASSUME NEW w \in Workers, NEW o \in Outcome, SessionEnds(w, o) PROVE LevelInv'
    BY <1>2 DEF SessionEnds, LevelInv
  <1>3. ASSUME NEW w \in Workers, Load(w) PROVE LevelInv'
    BY <1>3 DEF Load, LevelInv
  <1>4. ASSUME NEW w \in Workers, Swap(w) PROVE LevelInv'
    <2>1. frameLevel' \in {frameLevel, Adjusted(w)} /\ old' = [old EXCEPT ![w] = 0]
      BY <1>4 DEF Swap
    <2> QED
      BY <2>1, AdjustedNear, FailoverAssumption DEF LevelInv
  <1>5. ASSUME NEW w \in Workers, Decide(w) \/ LoadRtt(w) \/ Switch(w) PROVE LevelInv'
    BY <1>5 DEF Decide, LoadRtt, Switch, LevelInv
  <1>6. CASE UNCHANGED vars
    BY <1>6 DEF vars, LevelInv
  <1> QED
    BY <1>1, <1>2, <1>3, <1>4, <1>5, <1>6 DEF Next, WorkerStep

(***************************************************************************)
(* Every level a worker reads is an index of frameSizes: the lookups in    *)
(* connectAndServe, dialSession and adjustFrameLevel cannot panic.         *)
(***************************************************************************)
THEOREM LevelInRange == Spec => []LevelInv
  BY LevelInitial, LevelStep, PTL DEF Spec

(***************************************************************************)
(* The compare-and-swap of adjustFrameLevel: whatever the workers do       *)
(* between a worker's load and its swap, the level moves by one at a time. *)
(***************************************************************************)
THEOREM LevelMovesByOneCorrect == Spec => LevelMovesByOne
  <1> DEFINE Near == frameLevel' \in {frameLevel - 1, frameLevel, frameLevel + 1}
  <1>1. LevelInv /\ [Next]_vars => [Near]_vars
    <2> SUFFICES ASSUME LevelInv, Next PROVE Near
      OBVIOUS
    <2>1. frameLevel \in Int
      BY FailoverAssumption DEF LevelInv
    <2>2. ASSUME NEW w \in Workers, Swap(w) PROVE Near
      <3>1. CASE Adjusted(w) = old[w] \/ frameLevel # old[w]
        BY <2>1, <2>2, <3>1 DEF Swap
      <3>2. CASE Adjusted(w) # old[w] /\ frameLevel = old[w]
        <4>1. frameLevel' = Adjusted(w)
          BY <2>2, <3>2 DEF Swap
        <4> QED
          BY <4>1, <3>2, AdjustedNear
      <3> QED
        BY <3>1, <3>2
    <2>3. CASE frameLevel' = frameLevel
      BY <2>1, <2>3
    <2> QED
      BY <2>2, <2>3 DEF Next, WorkerStep, Probe, SessionEnds, Load, Decide, LoadRtt, Switch
  <1> QED
    BY <1>1, LevelInRange, PTL DEF Spec, LevelMovesByOne
-----------------------------------------------------------------------------
(***************************************************************************)
(* The invariant of bestPath's loop, l being the latencies loaded so far:  *)
(* best is the first of the fastest measured paths below at, and rtt is    *)
(* what was loaded for it, whatever is stored by now.                      *)
(***************************************************************************)
Fastest(s, l) ==
    /\ s.rtt = l[s.best]
    /\ s.rtt = 0 => s.best = 0
    /\ s.best < s.at \/ (s.at = 0 /\ s.best = 0)
    /\ \A p \in Paths : p >= s.at => l[p] = 0
    /\ \A p \in Paths : p < s.at /\ l[p] > 0 =>
          /\ s.rtt > 0
          /\ s.rtt < l[p] \/ (s.rtt = l[p] /\ s.best <= p)

ScanState == [at : 0..NPaths, best : Paths, rtt : Nat]

ScanInv ==
    /\ pathLatency \in [Paths -> Nat] /\ probe \in Paths
    /\ pathIdx \in [Workers -> Paths]
    /\ scan \in [Workers -> ScanState] /\ seen \in [Workers -> [Paths -> Nat]]
    /\ \A w \in Workers : Fastest(scan[w], seen[w])

(* Before the first load nothing is known.                                 *)
LEMMA StartIsFastest ==
  /\ Start \in ScanState /\ Unseen \in [Paths -> Nat] /\ 0 \in Paths
  /\ Fastest(Start, Unseen)
  BY FailoverAssumption DEF Start, Unseen, ScanState, Fastest, Paths

(* One round of the loop, with any latency.                                *)
LEMMA RoundKeepsFastest ==
  ASSUME NEW s \in ScanState, NEW l \in [Paths -> Nat], Fastest(s, l), s.at < NPaths,
         NEW rtt \in Nat
  PROVE  /\ Round(s, rtt) \in ScanState
         /\ [l EXCEPT ![s.at] = rtt] \in [Paths -> Nat]
         /\ Fastest(Round(s, rtt), [l EXCEPT ![s.at] = rtt])
  <1> DEFINE a == s.at
             t == Round(s, rtt)
             m == [l EXCEPT ![s.at] = rtt]
  <1>1. /\ a \in Nat /\ a \in Paths /\ s.best \in Paths /\ s.rtt \in Nat /\ a + 1 \in 0..NPaths
        /\ Paths \subseteq Nat
    BY FailoverAssumption DEF ScanState, Paths
  <1>b. a \in Nat /\ s.best \in Nat
    BY <1>1
  <1>2. /\ m \in [Paths -> Nat] /\ m[a] = rtt
        /\ \A p \in Paths : p # a => m[p] = l[p]
    BY <1>1
  <1>3. /\ \A p \in Paths : p >= a + 1 => p # a /\ p >= a
        /\ \A p \in Paths : p < a + 1 => p = a \/ (p # a /\ p < a)
    BY <1>1
  <1>4. CASE Lower(s, rtt)
    <2>1. t = [at |-> a + 1, best |-> a, rtt |-> rtt]
      BY <1>4 DEF Round
    <2>2. t \in ScanState /\ t.at = a + 1 /\ t.best = a /\ t.rtt = rtt
      BY <1>1, <2>1 DEF ScanState
    <2>3. a = 0 \/ (rtt > 0 /\ (s.rtt = 0 \/ rtt < s.rtt))
      BY <1>4 DEF Lower
    <2> HIDE DEF a
    <2>4. rtt = 0 => a = 0
      BY <2>3
    <2>5. \A p \in Paths : p >= a + 1 => m[p] = 0
      BY <1>2, <1>3 DEF Fastest, a
    <2>6. ASSUME NEW p \in Paths, p < a + 1, m[p] > 0
          PROVE  rtt > 0 /\ (rtt < m[p] \/ (rtt = m[p] /\ a <= p))
      <3>1. CASE p = a
        BY <1>1, <1>2, <2>6, <3>1
      <3>2. CASE p # a /\ p < a
        <4>1. m[p] = l[p] /\ l[p] \in Nat /\ p \in Nat
          BY <1>1, <1>2, <3>2
        <4>2. s.rtt > 0 /\ s.rtt <= l[p]
          BY <1>1, <2>6, <3>2, <4>1 DEF Fastest, a
        <4>3. rtt > 0 /\ rtt < s.rtt
          BY <1>1, <2>3, <3>2, <4>1, <4>2
        <4> QED BY <1>1, <4>1, <4>2, <4>3
      <3> QED BY <1>3, <2>6, <3>1, <3>2
    <2>7. a < a + 1
      BY <1>1
    <2>8. Fastest(t, m)
      BY <1>2, <2>2, <2>4, <2>5, <2>6, <2>7 DEF Fastest
    <2> QED BY <1>2, <2>2, <2>8
  <1>5. CASE ~Lower(s, rtt)
    <2>1. t = [s EXCEPT !.at = a + 1]
      BY <1>5 DEF Round
    <2>2. t \in ScanState /\ t.at = a + 1 /\ t.best = s.best /\ t.rtt = s.rtt
      BY <1>1, <2>1 DEF ScanState
    <2>3. a > 0 /\ (rtt > 0 => s.rtt > 0 /\ s.rtt <= rtt)
      BY <1>1, <1>5 DEF Lower
    <2> HIDE DEF a
    <2>4. s.best < a
      BY <1>1, <2>3 DEF Fastest, a
    <2> HIDE DEF m
    <2>5. m[s.best] = s.rtt /\ (s.rtt = 0 => s.best = 0) /\ s.best < a + 1
      <3>1. s.best \in Nat /\ s.best # a /\ s.best < a + 1
        BY <1>b, <2>4
      <3>2. m[s.best] = l[s.best]
        BY <1>1, <1>2, <3>1
      <3> QED BY <3>1, <3>2 DEF Fastest
    <2>6. \A p \in Paths : p >= a + 1 => m[p] = 0
      BY <1>2, <1>3 DEF Fastest, a
    <2>7. ASSUME NEW p \in Paths, p < a + 1, m[p] > 0
          PROVE  s.rtt > 0 /\ (s.rtt < m[p] \/ (s.rtt = m[p] /\ s.best <= p))
      <3>1. CASE p = a
        <4>1. rtt > 0 /\ m[p] = rtt
          BY <1>2, <2>7, <3>1
        <4>2. s.best <= p
          BY <1>b, <2>4, <3>1
        <4> QED BY <1>1, <2>3, <4>1, <4>2
      <3>2. CASE p # a /\ p < a
        BY <1>2, <2>7, <3>2 DEF Fastest, a
      <3> QED BY <1>3, <2>7, <3>1, <3>2
    <2>8. Fastest(t, m)
      BY <2>2, <2>5, <2>6, <2>7 DEF Fastest
    <2> QED BY <1>2, <2>2, <2>8 DEF m
  <1> QED BY <1>4, <1>5

(* poolWorker's choice is a path, another one whenever there is one.       *)
LEMMA NextPathMoves ==
  ASSUME ScanInv, NEW w \in Workers
  PROVE  /\ NextPath(w) \in Paths
         /\ wPc[w] = "scan" /\ NPaths > 1 => NextPath(w) # pathIdx[w]
  <1> DEFINE p == pathIdx[w]
  <1>0. p \in Paths /\ scan[w].best \in Paths
    BY DEF ScanInv, ScanState
  <1> HIDE DEF p
  <1>1. (p + 1) % NPaths \in Paths
    BY <1>0, FailoverAssumption DEF Paths
  <1>2. NPaths > 1 => (p + 1) % NPaths # p
    <2>1. CASE p + 1 < NPaths
      <3>1. (p + 1) % NPaths = p + 1
        BY <1>0, <2>1, FailoverAssumption DEF Paths
      <3> QED
        BY <1>0, <3>1 DEF Paths
    <2>2. CASE p + 1 = NPaths
      <3>1. (p + 1) % NPaths = 0
        BY <1>0, <2>2, FailoverAssumption DEF Paths
      <3> QED
        BY <1>0, <2>2, <3>1 DEF Paths
    <2> QED
      BY <1>0, <2>1, <2>2, FailoverAssumption DEF Paths
  <1> QED
    BY <1>0, <1>1, <1>2 DEF NextPath, p

LEMMA ScanInitial == Init => ScanInv
  BY StartIsFastest, FailoverAssumption DEF Init, ScanInv, Paths

LEMMA ScanStep == ScanInv /\ [Next]_vars => ScanInv'
  <1> SUFFICES ASSUME ScanInv, [Next]_vars PROVE ScanInv'
    OBVIOUS
  <1>1. CASE Probe
    <2>1. PICK rtt \in Rtts : pathLatency' = [pathLatency EXCEPT ![probe] = rtt]
      BY <1>1 DEF Probe
    <2>2. rtt \in Nat
      BY FailoverAssumption
    <2>3. (probe + 1) % NPaths \in Paths
      BY FailoverAssumption DEF ScanInv, Paths
    <2> QED
      BY <1>1, <2>1, <2>2, <2>3 DEF ScanInv, Probe
  <1>2. ASSUME NEW w \in Workers, LoadRtt(w) PROVE ScanInv'
    <2> DEFINE s == scan[w]
               rtt == pathLatency[s.at]
               t == Round(s, rtt)
               m == [seen[w] EXCEPT ![s.at] = rtt]
    <2>1. s \in ScanState /\ seen[w] \in [Paths -> Nat] /\ Fastest(s, seen[w])
      BY DEF ScanInv
    <2>2. s.at < NPaths /\ s.at \in Nat
      BY <1>2, <2>1, FailoverAssumption DEF LoadRtt, Scanning, ScanState
    <2>3. rtt \in Nat
      BY <2>2, FailoverAssumption DEF ScanInv, Paths
    <2>4. t \in ScanState /\ m \in [Paths -> Nat] /\ Fastest(t, m)
      <3> HIDE DEF s, rtt
      <3> QED BY <2>1, <2>2, <2>3, RoundKeepsFastest
    <2>5. /\ scan' = [scan EXCEPT ![w] = t] /\ seen' = [seen EXCEPT ![w] = m]
          /\ UNCHANGED <<pathLatency, probe, pathIdx>>
      BY <1>2 DEF LoadRtt
    <2> HIDE DEF t, m
    <2>6. /\ scan' \in [Workers -> ScanState] /\ seen' \in [Workers -> [Paths -> Nat]]
          /\ scan'[w] = t /\ seen'[w] = m
          /\ \A v \in Workers : v # w => scan'[v] = scan[v] /\ seen'[v] = seen[v]
      BY <2>4, <2>5 DEF ScanInv
    <2>7. \A v \in Workers : Fastest(scan'[v], seen'[v])
      BY <2>4, <2>6 DEF ScanInv
    <2> QED BY <2>5, <2>6, <2>7 DEF ScanInv
  <1>3. ASSUME NEW w \in Workers, Switch(w) PROVE ScanInv'
    <2>1. /\ scan' = [scan EXCEPT ![w] = Start] /\ seen' = [seen EXCEPT ![w] = Unseen]
          /\ UNCHANGED <<pathLatency, probe>> /\ pathIdx' = [pathIdx EXCEPT ![w] = NextPath(w)]
      BY <1>3 DEF Switch
    <2>2. pathIdx' \in [Workers -> Paths]
      <3>1. NextPath(w) \in Paths
        BY NextPathMoves
      <3> QED BY <2>1, <3>1 DEF ScanInv
    <2>3. /\ scan' \in [Workers -> ScanState] /\ seen' \in [Workers -> [Paths -> Nat]]
          /\ scan'[w] = Start /\ seen'[w] = Unseen
          /\ \A v \in Workers : v # w => scan'[v] = scan[v] /\ seen'[v] = seen[v]
      BY <2>1, StartIsFastest DEF ScanInv
    <2>4. \A v \in Workers : Fastest(scan'[v], seen'[v])
      BY <2>3, StartIsFastest DEF ScanInv
    <2> QED BY <2>1, <2>2, <2>3, <2>4 DEF ScanInv
  <1>4. CASE UNCHANGED <<pathLatency, probe, pathIdx, scan, seen>>
    BY <1>4 DEF ScanInv
  <1> QED
    BY <1>1, <1>2, <1>3, <1>4 DEF Next, WorkerStep, SessionEnds, Load, Swap, Decide, vars

LEMMA ScanInvCorrect == Spec => []ScanInv
  BY ScanInitial, ScanStep, PTL DEF Spec

(***************************************************************************)
(* Whatever the prober stores between its loads, bestPath returns the      *)
(* first of the paths with the lowest latency it loaded, or path 0 when    *)
(* none was measured, for any number of paths and workers.                 *)
(***************************************************************************)
THEOREM BestIsLowestCorrect == Spec => []BestIsLowest
  <1>1. ScanInv => BestIsLowest
    <2> SUFFICES ASSUME ScanInv, NEW w \in Workers, scan[w].at = NPaths
                 PROVE  LET best     == scan[w].best
                            Measured == {p \in Paths : seen[w][p] > 0}
                        IN  IF Measured = {} THEN best = 0
                            ELSE /\ best \in Measured
                                 /\ \A p \in Measured :
                                       \/ seen[w][best] < seen[w][p]
                                       \/ seen[w][best] = seen[w][p] /\ best <= p
      BY DEF BestIsLowest
    <2> DEFINE s == scan[w]  l == seen[w]  Measured == {p \in Paths : l[p] > 0}
    <2>1. s \in ScanState /\ l \in [Paths -> Nat] /\ Fastest(s, l)
      BY DEF ScanInv
    <2>2. s.best \in Paths /\ s.rtt \in Nat /\ s.rtt = l[s.best] /\ (s.rtt = 0 => s.best = 0)
      BY <2>1 DEF ScanState, Fastest
    <2>3. \A p \in Paths : p < s.at
      BY FailoverAssumption DEF Paths
    <2>4. \A p \in Measured : /\ l[s.best] > 0
                              /\ l[s.best] < l[p] \/ (l[s.best] = l[p] /\ s.best <= p)
      BY <2>1, <2>2, <2>3 DEF Fastest
    <2> HIDE DEF s, l
    <2>5. CASE Measured = {}
      <3>1. s.best = 0
        BY <2>1, <2>2, <2>5
      <3> QED BY <2>5, <3>1 DEF s, l
    <2>6. CASE Measured # {}
      <3>1. s.best \in Measured
        BY <2>2, <2>4, <2>6
      <3> QED BY <2>4, <2>6, <3>1 DEF s, l
    <2> QED BY <2>5, <2>6
  <1> QED
    BY <1>1, ScanInvCorrect, PTL
-----------------------------------------------------------------------------
(***************************************************************************)
(* A worker that has failed too often comes off its path when bestPath     *)
(* returns, onto an existing one, whatever the prober has measured: the    *)
(* safety half of BlockedPathIsLeft.                                       *)
(***************************************************************************)
THEOREM SwitchLeavesPath ==
    Spec => [][\A w \in Workers :
                 Switch(w) /\ wPc[w] = "scan" /\ NPaths > 1
                   => pathIdx'[w] \in Paths \ {pathIdx[w]}]_vars
  <1> DEFINE Leaves == \A w \in Workers :
                 Switch(w) /\ wPc[w] = "scan" /\ NPaths > 1
                   => pathIdx'[w] \in Paths \ {pathIdx[w]}
  <1>1. ScanInv => Leaves
    <2> SUFFICES ASSUME ScanInv, NEW w \in Workers, Switch(w), wPc[w] = "scan", NPaths > 1
                 PROVE  pathIdx'[w] \in Paths \ {pathIdx[w]}
      OBVIOUS
    <2>1. pathIdx \in [Workers -> Paths]
      BY DEF ScanInv
    <2>2. pathIdx'[w] = NextPath(w)
      BY <2>1 DEF Switch
    <2> QED
      BY <2>2, NextPathMoves
  <1>2. ScanInv /\ [Next]_vars => [Leaves]_vars
    BY <1>1
  <1> QED
    BY <1>2, ScanInvCorrect, PTL DEF Spec
-----------------------------------------------------------------------------
(* A set of numbers that is not empty has a least one.                     *)
LEMMA NatMin ==
  ASSUME NEW T \in SUBSET Nat, T # {}
  PROVE  \E x \in T : \A y \in T : x <= y
  <1> DEFINE R == OpToRel(<, Nat)
  <1>1. PICK x \in T : \A y \in T : ~ (<<y, x>> \in R)
    <2>1. IsWellFoundedOn(R, Nat)
      BY NatLessThanWellFounded
    <2> HIDE DEF R
    <2> QED
      BY <2>1, WFMin
  <1>2. ASSUME NEW y \in T PROVE x <= y
    <2>1. y < x => <<y, x>> \in R
      BY DEF OpToRel
    <2> HIDE DEF R
    <2> QED
      BY <1>1, <2>1
  <1> QED
    BY <1>2

(***************************************************************************)
(* ConfigLoad.  First mapDaggerToLegacy: every map of the right type gets  *)
(* its listener.                                                           *)
(***************************************************************************)

(* What a round of the loop over the maps appends. *)
Taken(l, i, maps, types) == IF maps[i] \in types THEN Append(l, i) ELSE l

ListRounds(g, n, maps, types) ==
    /\ g \in [0..n -> Seq(Nat)]
    /\ \A i \in 0..n : g[i] = IF i = 0 THEN <<>> ELSE Taken(g[i - 1], i, maps, types)

LEMMA ListRoundsExist ==
  ASSUME NEW maps \in Seq(MapTypes), NEW types
  PROVE  \A n \in 0..Len(maps) : \E g : ListRounds(g, n, maps, types)
  <1> DEFINE T == {n \in 0..Len(maps) : ~ \E g : ListRounds(g, n, maps, types)}
  <1> SUFFICES ASSUME T # {} PROVE FALSE
    OBVIOUS
  <1>0. T \in SUBSET Nat /\ Len(maps) \in Nat
    BY LenProperties
  <1>1. PICK n \in T : \A m \in T : n <= m
    BY <1>0, NatMin
  <1>2. n \in 0..Len(maps) /\ n \in Nat /\ ~ \E g : ListRounds(g, n, maps, types)
    BY <1>0
  <1>e. <<>> \in Seq(Nat)
    OBVIOUS
  <1>3. CASE n = 0
    <2> DEFINE g == [i \in 0..0 |-> <<>>]
    <2>0. g \in [0..0 -> Seq(Nat)]
      BY <1>e, Zenon
    <2>1. ListRounds(g, 0, maps, types)
      BY <2>0 DEF ListRounds
    <2> QED
      BY <1>2, <1>3, <2>1
  <1>4. CASE n > 0
    <2>1. n - 1 \in 0..Len(maps) /\ n - 1 \in Nat /\ ~ (n <= n - 1)
      BY <1>0, <1>2, <1>4
    <2>2. PICK h : ListRounds(h, n - 1, maps, types)
      BY <1>1, <2>1
    <2> DEFINE last1 == Taken(h[n - 1], n, maps, types)
               g == [i \in 0..n |-> IF i = n THEN last1 ELSE h[i]]
    <2>3. /\ h \in [0..(n - 1) -> Seq(Nat)]
          /\ \A i \in 0..(n - 1) : h[i] = IF i = 0 THEN <<>> ELSE Taken(h[i - 1], i, maps, types)
      BY <2>2 DEF ListRounds
    <2>4. \A i \in 0..n : i # n => i \in 0..(n - 1)
      BY <1>2
    <2>5. h[n - 1] \in Seq(Nat)
      BY <1>2, <1>4, <2>3
    <2>6. last1 \in Seq(Nat)
      BY <1>2, <2>5 DEF Taken
    <2> HIDE DEF last1
    <2>7. /\ g \in [0..n -> Seq(Nat)] /\ g[n] = last1
          /\ \A i \in 0..n : i # n => g[i] = h[i]
      BY <1>2, <2>3, <2>4, <2>6
    <2>8. n - 1 \in 0..n /\ n - 1 # n
      BY <1>2, <1>4
    <2> HIDE DEF g
    <2>9. ASSUME NEW i \in 0..n PROVE g[i] = IF i = 0 THEN <<>> ELSE Taken(g[i - 1], i, maps, types)
      <3>1. CASE i = n
        BY <1>4, <2>7, <2>8, <3>1 DEF last1
      <3>2. CASE i # n /\ i # 0
        <4>1. i - 1 \in 0..n /\ i - 1 # n
          BY <1>2, <3>2
        <4> QED
          BY <2>3, <2>4, <2>7, <3>2, <4>1
      <3>3. CASE i # n /\ i = 0
        BY <2>3, <2>4, <2>7, <3>3
      <3> QED
        BY <3>1, <3>2, <3>3
    <2>10. ListRounds(g, n, maps, types)
      BY <2>7, <2>9 DEF ListRounds
    <2> QED
      BY <1>2, <2>10
  <1> QED
    BY <1>2, <1>3, <1>4

(* The list has every map whose type is one of the given ones.             *)
LEMMA ListedHas ==
  ASSUME NEW maps \in Seq(MapTypes), NEW types
  PROVE  \A i \in 1..Len(maps) : maps[i] \in types =>
            \E j \in 1..Len(Listed(maps, types)) : Listed(maps, types)[j] = i
  <1> DEFINE N == Len(maps)
             Good(g) == g = [i \in 0..N |-> IF i = 0 THEN <<>>
                                 ELSE IF maps[i] \in types THEN Append(g[i - 1], i) ELSE g[i - 1]]
             up == CHOOSE g : Good(g)
  <1>0. N \in Nat
    BY LenProperties
  <1>1. PICK g : ListRounds(g, N, maps, types)
    <2>1. N \in 0..N
      BY <1>0
    <2> QED
      BY <2>1, ListRoundsExist
  <1>2. Good(g)
    BY <1>1 DEF ListRounds, Taken
  <1>3. Good(up)
    BY <1>2, Zenon
  <1>4. Listed(maps, types) = up[N]
    BY DEF Listed
  <1> HIDE DEF up
  <1>5. /\ up[0] = <<>>
        /\ \A i \in 1..N : up[i] = Taken(up[i - 1], i, maps, types)
    <2>1. up = [i \in 0..N |-> IF i = 0 THEN <<>> ELSE Taken(up[i - 1], i, maps, types)]
      BY <1>3, Zenon DEF Taken
    <2>2. \A i \in 0..N : up[i] = IF i = 0 THEN <<>> ELSE Taken(up[i - 1], i, maps, types)
      BY <2>1, Zenon
    <2>3. 0 \in 0..N /\ \A i \in 1..N : i \in 0..N /\ i # 0
      BY <1>0
    <2> QED
      BY <2>2, <2>3, Zenon
  <1> HIDE DEF Good
  <1> DEFINE Has(n) == /\ up[n] \in Seq(Nat)
                       /\ \A i \in 1..n : maps[i] \in types => \E j \in 1..Len(up[n]) : up[n][j] = i
             T == {n \in 0..N : ~ Has(n)}
  <1>6. T = {}
    <2> SUFFICES ASSUME T # {} PROVE FALSE
      OBVIOUS
    <2>1. T \in SUBSET Nat
      BY <1>0
    <2>2. PICK n \in T : \A m \in T : n <= m
      BY <2>1, NatMin
    <2>3. n \in 0..N /\ n \in Nat /\ ~ Has(n)
      BY <2>1
    <2>4. n # 0
      <3>1. Has(0)
        BY <1>5
      <3> QED
        BY <2>3, <3>1
    <2>5. n - 1 \in 0..N /\ ~ (n <= n - 1) /\ n \in 1..N
      BY <1>0, <2>3, <2>4
    <2>6. Has(n - 1)
      BY <2>2, <2>5
    <2> DEFINE l == up[n - 1]
    <2>7. l \in Seq(Nat) /\ \A i \in 1..(n - 1) : maps[i] \in types => \E j \in 1..Len(l) : l[j] = i
      BY <2>6
    <2>8. up[n] = Taken(l, n, maps, types)
      BY <1>5, <2>5
    <2>9. \A i \in 1..n : i # n => i \in 1..(n - 1)
      BY <2>3
    <2> HIDE DEF l
    <2>10. CASE maps[n] \in types
      <3>1. up[n] = Append(l, n)
        BY <2>8, <2>10 DEF Taken
      <3>2. /\ Append(l, n) \in Seq(Nat) /\ Len(Append(l, n)) = Len(l) + 1 /\ Len(l) \in Nat
            /\ Append(l, n)[Len(l) + 1] = n
            /\ \A j \in 1..Len(l) : Append(l, n)[j] = l[j]
        BY <2>3, <2>7, LenProperties
      <3>3. ASSUME NEW i \in 1..n, maps[i] \in types
            PROVE  \E j \in 1..Len(up[n]) : up[n][j] = i
        <4>1. CASE i = n
          <5>1. Len(l) + 1 \in 1..Len(up[n]) /\ up[n][Len(l) + 1] = i
            BY <3>1, <3>2, <4>1
          <5> QED
            BY <5>1
        <4>2. CASE i # n
          <5>1. PICK j \in 1..Len(l) : l[j] = i
            BY <2>7, <2>9, <3>3, <4>2
          <5>2. j \in 1..Len(up[n]) /\ up[n][j] = i
            BY <3>1, <3>2, <5>1
          <5> QED
            BY <5>2
        <4> QED
          BY <4>1, <4>2
      <3> QED
        BY <2>3, <3>1, <3>2, <3>3
    <2>11. CASE maps[n] \notin types
      <3>1. up[n] = l
        BY <2>8, <2>11 DEF Taken
      <3> QED
        BY <2>3, <2>7, <2>9, <2>11, <3>1
    <2> QED
      BY <2>10, <2>11
  <1>7. Has(N)
    BY <1>0, <1>6
  <1> QED
    BY <1>4, <1>7
-----------------------------------------------------------------------------
(***************************************************************************)
(* What each step of LoadConfig does, field by field, as a relation of the *)
(* configurations before and after it.                                     *)
(***************************************************************************)

(* The settings, by name.                                                  *)
Settings ==
    {"mode", "transport", "profile", "listen", "url", "paths", "keep", "recv", "stream", "frame",
     "ver", "obf", "delay", "maxPad", "obfs", "obfsDelay", "obfsPad", "comp", "frag", "fragMin",
     "fragMax", "maps", "tcp", "udp"}

IsConfig(c) == DOMAIN c = Settings

LEMMA FileSettings ==
  ASSUME NEW f \in File
  PROVE  /\ IsConfig(f) /\ f.profile \in Profiles
         /\ f.keep \in Int /\ f.recv \in Int /\ f.stream \in Int /\ f.frame \in Int /\ f.ver \in Int
         /\ f.obfsDelay \in Int /\ f.fragMin \in Int /\ f.fragMax \in Int
         /\ f.paths \in Seq(Path) /\ f.maps \in Seq(MapTypes)
  BY DEF File, IsConfig, Settings

(* What no step of LoadConfig touches.                                     *)
Keeps(c, d) ==
    /\ IsConfig(d)
    /\ d.mode = c.mode /\ d.transport = c.transport /\ d.url = c.url /\ d.maps = c.maps

(* The listening address is all that Names may set.                        *)
NamesKeeps(c, d) ==
    /\ Keeps(c, d)
    /\ d.profile = c.profile /\ d.paths = c.paths /\ d.keep = c.keep
    /\ d.recv = c.recv /\ d.stream = c.stream /\ d.frame = c.frame
    /\ d.obf = c.obf /\ d.obfs = c.obfs /\ d.obfsDelay = c.obfsDelay /\ d.comp = c.comp
    /\ d.frag = c.frag /\ d.fragMin = c.fragMin /\ d.fragMax = c.fragMax
    /\ d.tcp = c.tcp /\ d.udp = c.udp

LEMMA NamesEffect ==
  ASSUME NEW c, IsConfig(c), NEW d, d = Names(c)
  PROVE  NamesKeeps(c, d)
  BY DEF Names, IsConfig, Settings, Keeps, NamesKeeps

(* What the defaults leave alone, and what they set.                       *)
BaseKeeps(c, d) ==
    /\ Keeps(c, d) /\ d.paths = c.paths
    /\ d.obf = c.obf /\ d.obfs = c.obfs /\ d.obfsDelay = c.obfsDelay /\ d.comp = c.comp
    /\ d.tcp = c.tcp /\ d.udp = c.udp

BaseSets(c, d) ==
    /\ d.keep = Default(c.keep, 10) /\ d.recv = Default(c.recv, 8 * MB)
    /\ d.stream = Default(c.stream, 8 * MB) /\ d.frame = Default(c.frame, 32768)
    /\ d.fragMin = Default(c.fragMin, 64) /\ d.fragMax = Default(c.fragMax, 191)

BaseProfile(c, d) == d.profile = (IF c.profile = "" THEN "balanced" ELSE c.profile)

BaseFrag(c, d) == d.frag = (c.frag \/ IsTLS(c.transport))

LEMMA BaseEffect ==
  ASSUME NEW c, IsConfig(c), NEW d, d = applyBaseDefaults(c)
  PROVE  BaseKeeps(c, d) /\ BaseSets(c, d) /\ BaseProfile(c, d) /\ BaseFrag(c, d)
  <1>0. IsConfig(d)
    <2> DEFINE v1 == IF c.profile = "" THEN "balanced" ELSE c.profile
               v2 == Default(c.keep, 10)
               v3 == Default(c.recv, 8 * MB)
               v4 == Default(c.stream, 8 * MB)
               v5 == Default(c.frame, 32768)
               v6 == Default(c.ver, 2)
               v7 == Default(c.maxPad, 32)
               v8 == Default(c.fragMin, 64)
               v9 == Default(c.fragMax, 191)
               v10 == c.frag \/ IsTLS(c.transport)
               e == [c EXCEPT
                      !.profile = v1, !.keep = v2, !.recv = v3, !.stream = v4, !.frame = v5,
                      !.ver = v6, !.maxPad = v7, !.fragMin = v8, !.fragMax = v9, !.frag = v10]
    <2>1. d = e
      BY DEF applyBaseDefaults
    <2> HIDE DEF v1, v2, v3, v4, v5, v6, v7, v8, v9, v10
    <2>2. DOMAIN e = DOMAIN c
      OBVIOUS
    <2> HIDE DEF e
    <2> QED
      BY <2>1, <2>2 DEF IsConfig
  <1>1. /\ d.mode = c.mode /\ d.transport = c.transport /\ d.url = c.url /\ d.maps = c.maps
        /\ d.paths = c.paths
    BY DEF applyBaseDefaults, IsConfig, Settings
  <1>2. /\ d.obf = c.obf /\ d.obfs = c.obfs /\ d.obfsDelay = c.obfsDelay /\ d.comp = c.comp
        /\ d.tcp = c.tcp /\ d.udp = c.udp
    BY DEF applyBaseDefaults, IsConfig, Settings
  <1>3. BaseSets(c, d)
    BY DEF applyBaseDefaults, IsConfig, Settings, BaseSets
  <1>4. BaseProfile(c, d)
    BY DEF applyBaseDefaults, IsConfig, Settings, BaseProfile
  <1>5. BaseKeeps(c, d)
    BY <1>0, <1>1, <1>2 DEF Keeps, BaseKeeps
  <1>6. BaseFrag(c, d)
    BY DEF applyBaseDefaults, IsConfig, Settings, BaseFrag
  <1> QED
    BY <1>3, <1>4, <1>5, <1>6

(* What no profile touches.                                                *)
ProfileKeeps(c, d) ==
    /\ Keeps(c, d) /\ d.profile = c.profile /\ d.obfs = c.obfs /\ d.obfsDelay = c.obfsDelay
    /\ d.fragMin = c.fragMin /\ d.fragMax = c.fragMax /\ d.tcp = c.tcp /\ d.udp = c.udp

(* What each profile sets.                                                 *)
AggressiveSets(c, d) ==
    /\ d.frag = TRUE /\ d.obf = TRUE /\ d.comp = "snappy" /\ d.delay = 0
    /\ d.keep = Capped(c.keep, 5) /\ d.frame = AtLeast(c.frame, 32768)
    /\ d.recv = AtLeast(c.recv, 8 * MB) /\ d.stream = AtLeast(c.stream, 8 * MB)
    /\ d.paths = AggressivePaths(c.paths)

LEMMA AggressiveEffect ==
  ASSUME NEW c, IsConfig(c), NEW d, d = Aggressive(c)
  PROVE  ProfileKeeps(c, d) /\ AggressiveSets(c, d)
  <1>0. IsConfig(d)
    <2> DEFINE v1 == Capped(c.keep, 5)
               v2 == AtLeast(c.frame, 32768)
               v3 == AtLeast(c.recv, 8 * MB)
               v4 == AtLeast(c.stream, 8 * MB)
               v5 == IF c.maxPad > 64 THEN 64 ELSE c.maxPad
               v6 == AggressivePaths(c.paths)
               e == [c EXCEPT
                      !.frag = TRUE, !.obf = TRUE, !.comp = "snappy", !.keep = v1, !.frame = v2,
                      !.recv = v3, !.stream = v4, !.delay = 0, !.maxPad = v5, !.paths = v6]
    <2>1. d = e
      BY DEF Aggressive
    <2> HIDE DEF v1, v2, v3, v4, v5, v6
    <2>2. DOMAIN e = DOMAIN c
      OBVIOUS
    <2> HIDE DEF e
    <2> QED
      BY <2>1, <2>2 DEF IsConfig
  <1>1. /\ d.mode = c.mode /\ d.transport = c.transport /\ d.url = c.url /\ d.maps = c.maps
        /\ d.profile = c.profile /\ d.obfs = c.obfs /\ d.obfsDelay = c.obfsDelay
        /\ d.fragMin = c.fragMin /\ d.fragMax = c.fragMax /\ d.tcp = c.tcp /\ d.udp = c.udp
    BY DEF Aggressive, IsConfig, Settings
  <1>2. /\ d.frag = TRUE /\ d.obf = TRUE /\ d.comp = "snappy" /\ d.delay = 0
        /\ d.keep = Capped(c.keep, 5) /\ d.frame = AtLeast(c.frame, 32768)
        /\ d.recv = AtLeast(c.recv, 8 * MB) /\ d.stream = AtLeast(c.stream, 8 * MB)
    BY DEF Aggressive, IsConfig, Settings
  <1>3. d.paths = AggressivePaths(c.paths)
    BY DEF Aggressive, IsConfig, Settings
  <1> QED
    <2>1. ProfileKeeps(c, d)
      BY <1>0, <1>1 DEF Keeps, ProfileKeeps
    <2> QED
      BY <1>2, <1>3, <2>1 DEF AggressiveSets

StableSets(c, d) ==
    /\ d.frag = c.frag /\ d.obf = c.obf /\ d.comp = c.comp /\ d.delay = 0
    /\ d.keep = Capped(c.keep, 15) /\ d.frame = Default(c.frame, 32768)
    /\ d.recv = Capped(c.recv, 2 * MB) /\ d.stream = Capped(c.stream, MB)
    /\ d.paths = DefaultPaths(c.paths, 2, 3)

LEMMA StableEffect ==
  ASSUME NEW c, IsConfig(c), NEW d, d = Stable(c)
  PROVE  ProfileKeeps(c, d) /\ StableSets(c, d)
  <1>0. IsConfig(d)
    BY DEF Stable, IsConfig
  <1>1. /\ d.mode = c.mode /\ d.transport = c.transport /\ d.url = c.url /\ d.maps = c.maps
        /\ d.profile = c.profile /\ d.obfs = c.obfs /\ d.obfsDelay = c.obfsDelay
        /\ d.fragMin = c.fragMin /\ d.fragMax = c.fragMax /\ d.tcp = c.tcp /\ d.udp = c.udp
    BY DEF Stable, IsConfig, Settings
  <1>2. /\ d.frag = c.frag /\ d.obf = c.obf /\ d.comp = c.comp /\ d.delay = 0
        /\ d.keep = Capped(c.keep, 15) /\ d.frame = Default(c.frame, 32768)
        /\ d.recv = Capped(c.recv, 2 * MB) /\ d.stream = Capped(c.stream, MB)
    BY DEF Stable, IsConfig, Settings
  <1>3. d.paths = DefaultPaths(c.paths, 2, 3)
    BY DEF Stable, IsConfig, Settings
  <1> QED
    <2>1. ProfileKeeps(c, d)
      BY <1>0, <1>1 DEF Keeps, ProfileKeeps
    <2> QED
      BY <1>2, <1>3, <2>1 DEF StableSets

LatencySets(c, d) ==
    /\ d.frag = c.frag /\ d.obf = c.obf /\ d.comp = c.comp /\ d.delay = 0
    /\ d.keep = Capped(c.keep, 5) /\ d.frame = AtLeast(c.frame, 32768)
    /\ d.recv = c.recv /\ d.stream = c.stream
    /\ d.paths = DefaultPaths(c.paths, 3, 2)

LEMMA LatencyEffect ==
  ASSUME NEW c, IsConfig(c), NEW d, d = Latency(c)
  PROVE  ProfileKeeps(c, d) /\ LatencySets(c, d)
  <1>0. IsConfig(d)
    BY DEF Latency, IsConfig
  <1>1. /\ d.mode = c.mode /\ d.transport = c.transport /\ d.url = c.url /\ d.maps = c.maps
        /\ d.profile = c.profile /\ d.obfs = c.obfs /\ d.obfsDelay = c.obfsDelay
        /\ d.fragMin = c.fragMin /\ d.fragMax = c.fragMax /\ d.tcp = c.tcp /\ d.udp = c.udp
    BY DEF Latency, IsConfig, Settings
  <1>2. /\ d.frag = c.frag /\ d.obf = c.obf /\ d.comp = c.comp /\ d.delay = 0
        /\ d.keep = Capped(c.keep, 5) /\ d.frame = AtLeast(c.frame, 32768)
        /\ d.recv = c.recv /\ d.stream = c.stream
    BY DEF Latency, IsConfig, Settings
  <1>3. d.paths = DefaultPaths(c.paths, 3, 2)
    BY DEF Latency, IsConfig, Settings
  <1> QED
    <2>1. ProfileKeeps(c, d)
      BY <1>0, <1>1 DEF Keeps, ProfileKeeps
    <2> QED
      BY <1>2, <1>3, <2>1 DEF LatencySets

(* The lists are filled in only if the file has none.                      *)
MapsSets(c, d) ==
    /\ Keeps(c, d) /\ d.paths = c.paths /\ d.keep = c.keep
    /\ d.recv = c.recv /\ d.stream = c.stream /\ d.frame = c.frame
    /\ d.obf = c.obf /\ d.obfs = c.obfs /\ d.obfsDelay = c.obfsDelay /\ d.comp = c.comp
    /\ d.delay = c.delay /\ d.frag = c.frag /\ d.fragMin = c.fragMin /\ d.fragMax = c.fragMax
    /\ c.tcp = <<>> /\ c.udp = <<>> =>
         d.tcp = Listed(c.maps, {"tcp", "both"}) /\ d.udp = Listed(c.maps, {"udp", "both"})

LEMMA MapsEffect ==
  ASSUME NEW c, IsConfig(c), NEW d, d = mapDaggerToLegacy(c)
  PROVE  MapsSets(c, d)
  <1>1. CASE c.tcp = <<>> /\ c.udp = <<>>
    <2> DEFINE t == Listed(c.maps, {"tcp", "both"})
               u == Listed(c.maps, {"udp", "both"})
    <2>1. d = [c EXCEPT !.tcp = t, !.udp = u]
      BY <1>1 DEF mapDaggerToLegacy
    <2> HIDE DEF t, u
    <2>2. /\ [c EXCEPT !.tcp = t, !.udp = u].tcp = t
          /\ [c EXCEPT !.tcp = t, !.udp = u].udp = u
      BY DEF IsConfig, Settings
    <2>3. MapsSets(c, d) <=> d.tcp = t /\ d.udp = u
      BY <1>1, <2>1 DEF IsConfig, Settings, Keeps, MapsSets, t, u
    <2> QED
      BY <2>1, <2>2, <2>3
  <1>2. CASE ~ (c.tcp = <<>> /\ c.udp = <<>>)
    <2>1. d = c
      BY <1>2 DEF mapDaggerToLegacy
    <2> QED
      BY <1>2, <2>1 DEF Keeps, MapsSets
  <1> QED
    BY <1>1, <1>2

(* The obfs settings, where missing, come from the obfuscation section.    *)
AliasesSets(c, d) ==
    /\ Keeps(c, d) /\ d.paths = c.paths /\ d.keep = c.keep
    /\ d.recv = c.recv /\ d.stream = c.stream /\ d.frame = c.frame
    /\ d.comp = c.comp /\ d.frag = c.frag /\ d.fragMin = c.fragMin /\ d.fragMax = c.fragMax
    /\ d.tcp = c.tcp /\ d.udp = c.udp
    /\ d.obfs = (c.obfs \/ c.obf) /\ d.obfsDelay = Default(c.obfsDelay, c.delay)

LEMMA AliasesEffect ==
  ASSUME NEW c, IsConfig(c), NEW d, d = syncAliases(c)
  PROVE  AliasesSets(c, d)
  BY DEF syncAliases, IsConfig, Settings, Keeps, AliasesSets

BalancedSets(c, d) ==
    /\ d.frag = c.frag /\ d.obf = c.obf /\ d.comp = c.comp
    /\ d.keep = c.keep /\ d.frame = c.frame /\ d.recv = c.recv /\ d.stream = c.stream
    /\ d.paths = DefaultPaths(c.paths, 2, 3)

LEMMA BalancedEffect ==
  ASSUME NEW c, IsConfig(c), NEW d, d = Balanced(c)
  PROVE  ProfileKeeps(c, d) /\ BalancedSets(c, d)
  <1> DEFINE v == DefaultPaths(c.paths, 2, 3)
  <1>1. d = [c EXCEPT !.paths = v]
    BY DEF Balanced
  <1> HIDE DEF v
  <1>2. /\ IsConfig(d) /\ d.paths = v
        /\ d.mode = c.mode /\ d.transport = c.transport /\ d.url = c.url /\ d.maps = c.maps
        /\ d.profile = c.profile /\ d.obfs = c.obfs /\ d.obfsDelay = c.obfsDelay
        /\ d.fragMin = c.fragMin /\ d.fragMax = c.fragMax /\ d.tcp = c.tcp /\ d.udp = c.udp
    BY <1>1 DEF IsConfig, Settings
  <1>3. /\ d.frag = c.frag /\ d.obf = c.obf /\ d.comp = c.comp
        /\ d.keep = c.keep /\ d.frame = c.frame /\ d.recv = c.recv /\ d.stream = c.stream
    BY <1>1 DEF IsConfig, Settings
  <1>4. ProfileKeeps(c, d)
    BY <1>2 DEF Keeps, ProfileKeeps
  <1> QED
    BY <1>2, <1>3, <1>4 DEF v, BalancedSets

(* The four ways in which a profile works.                                 *)
LEMMA ProfileCases ==
  ASSUME NEW c, NEW d, d = applyProfile(c)
  PROVE  \/ c.profile = "aggressive" /\ d = Aggressive(c)
         \/ c.profile = "stable" /\ d = Stable(c)
         \/ c.profile = "latency" /\ d = Latency(c)
         \/ /\ c.profile \notin {"aggressive", "stable", "latency"}
            /\ d = Balanced(c)
  <1>1. "stable" # "aggressive" /\ "latency" # "aggressive" /\ "latency" # "stable"
    OBVIOUS
  <1> QED
    BY <1>1, Zenon DEF applyProfile

(* What a profile sets.                                                    *)
ProfileSets(c, d) ==
    \/ c.profile = "aggressive" /\ AggressiveSets(c, d)
    \/ c.profile = "stable" /\ StableSets(c, d)
    \/ c.profile = "latency" /\ LatencySets(c, d)
    \/ c.profile \notin {"aggressive", "stable", "latency"} /\ BalancedSets(c, d)

LEMMA ProfileEffect ==
  ASSUME NEW c, IsConfig(c), NEW d, d = applyProfile(c)
  PROVE  ProfileKeeps(c, d) /\ ProfileSets(c, d)
  <1>1. CASE c.profile = "aggressive" /\ d = Aggressive(c)
    <2>1. ProfileKeeps(c, d) /\ AggressiveSets(c, d)
      BY <1>1, AggressiveEffect
    <2> QED BY <1>1, <2>1 DEF ProfileSets
  <1>2. CASE c.profile = "stable" /\ d = Stable(c)
    <2>1. ProfileKeeps(c, d) /\ StableSets(c, d)
      BY <1>2, StableEffect
    <2> QED BY <1>2, <2>1 DEF ProfileSets
  <1>3. CASE c.profile = "latency" /\ d = Latency(c)
    <2>1. ProfileKeeps(c, d) /\ LatencySets(c, d)
      BY <1>3, LatencyEffect
    <2> QED BY <1>3, <2>1 DEF ProfileSets
  <1>4. CASE c.profile \notin {"aggressive", "stable", "latency"} /\ d = Balanced(c)
    <2>1. ProfileKeeps(c, d) /\ BalancedSets(c, d)
      BY <1>4, BalancedEffect
    <2> QED BY <1>4, <2>1 DEF ProfileSets
  <1> QED BY <1>1, <1>2, <1>3, <1>4, ProfileCases

(* The part of a configuration that smux is given.                         *)
Fits(keep, recv, stream, frame) ==
    keep \in Int /\ recv \in Int /\ stream \in Int /\ frame \in Int
    /\ keep > 0 /\ recv > 0 /\ stream > 0 /\ frame > 0

(* A profile shortens the interval, and keeps frame and buffers in order.  *)
Tuned(c, d) ==
    /\ Fits(d.keep, d.recv, d.stream, d.frame)
    /\ d.keep <= c.keep
    /\ c.frame <= 65535 => d.frame <= 65535
    /\ c.stream <= c.recv => d.stream <= d.recv
    /\ c.stream <= 2147483647 => d.stream <= 2147483647

LEMMA TunedBy ==
  ASSUME NEW k \in Int, NEW r \in Int, NEW s \in Int, NEW f \in Int, Fits(k, r, s, f)
  PROVE  /\ Fits(Capped(k, 5), AtLeast(r, 8 * MB), AtLeast(s, 8 * MB), AtLeast(f, 32768))
         /\ Fits(Capped(k, 15), Capped(r, 2 * MB), Capped(s, MB), Default(f, 32768))
         /\ Fits(Capped(k, 5), r, s, AtLeast(f, 32768))
         /\ Capped(k, 5) <= k /\ Capped(k, 15) <= k
         /\ f <= 65535 => AtLeast(f, 32768) <= 65535 /\ Default(f, 32768) <= 65535
         /\ s <= r => /\ AtLeast(s, 8 * MB) <= AtLeast(r, 8 * MB)
                      /\ Capped(s, MB) <= Capped(r, 2 * MB)
         /\ s <= 2147483647 => AtLeast(s, 8 * MB) <= 2147483647 /\ Capped(s, MB) <= 2147483647
  BY DEF Fits, Capped, AtLeast, Default, MB

LEMMA ProfileTunes ==
  ASSUME NEW c, NEW d, ProfileSets(c, d), Fits(c.keep, c.recv, c.stream, c.frame)
  PROVE  Tuned(c, d)
  <1> DEFINE k == c.keep  r == c.recv  s == c.stream  f == c.frame
  <1>0. k \in Int /\ r \in Int /\ s \in Int /\ f \in Int
    BY DEF Fits
  <1>1. /\ Fits(Capped(k, 5), AtLeast(r, 8 * MB), AtLeast(s, 8 * MB), AtLeast(f, 32768))
        /\ Fits(Capped(k, 15), Capped(r, 2 * MB), Capped(s, MB), Default(f, 32768))
        /\ Fits(Capped(k, 5), r, s, AtLeast(f, 32768))
        /\ Capped(k, 5) <= k /\ Capped(k, 15) <= k
        /\ f <= 65535 => AtLeast(f, 32768) <= 65535 /\ Default(f, 32768) <= 65535
        /\ s <= r => /\ AtLeast(s, 8 * MB) <= AtLeast(r, 8 * MB)
                     /\ Capped(s, MB) <= Capped(r, 2 * MB)
        /\ s <= 2147483647 => AtLeast(s, 8 * MB) <= 2147483647 /\ Capped(s, MB) <= 2147483647
    BY <1>0, TunedBy
  <1>2. CASE AggressiveSets(c, d)
    <2>1. /\ d.keep = Capped(k, 5) /\ d.frame = AtLeast(f, 32768)
          /\ d.recv = AtLeast(r, 8 * MB) /\ d.stream = AtLeast(s, 8 * MB)
      BY <1>2 DEF AggressiveSets
    <2> QED BY <1>1, <2>1 DEF Tuned
  <1>3. CASE StableSets(c, d)
    <2>1. /\ d.keep = Capped(k, 15) /\ d.frame = Default(f, 32768)
          /\ d.recv = Capped(r, 2 * MB) /\ d.stream = Capped(s, MB)
      BY <1>3 DEF StableSets
    <2> QED BY <1>1, <2>1 DEF Tuned
  <1>4. CASE LatencySets(c, d)
    <2>1. d.keep = Capped(k, 5) /\ d.frame = AtLeast(f, 32768) /\ d.recv = r /\ d.stream = s
      BY <1>4 DEF LatencySets
    <2> QED BY <1>1, <2>1 DEF Tuned
  <1>5. CASE BalancedSets(c, d)
    <2>1. d.keep = k /\ d.frame = f /\ d.recv = r /\ d.stream = s
      BY <1>5 DEF BalancedSets
    <2> QED BY <1>0, <2>1 DEF Tuned
  <1> QED BY <1>2, <1>3, <1>4, <1>5 DEF ProfileSets

(* Padding and compression: only one profile switches them on.             *)
LEMMA ProfileWire ==
  ASSUME NEW c, NEW d, ProfileSets(c, d)
  PROVE  /\ c.profile = "aggressive" => d.obf = TRUE /\ d.comp = "snappy"
         /\ c.profile # "aggressive" => d.obf = c.obf /\ d.comp = c.comp
  BY DEF ProfileSets, AggressiveSets, StableSets, LatencySets, BalancedSets

LEMMA ProfileFrag ==
  ASSUME NEW c, NEW d, ProfileSets(c, d)
  PROVE  /\ c.profile = "aggressive" => d.frag = TRUE
         /\ c.profile # "aggressive" => d.frag = c.frag
  BY DEF ProfileSets, AggressiveSets, StableSets, LatencySets, BalancedSets

LEMMA ProfileDelay ==
  ASSUME NEW c, NEW d, ProfileSets(c, d), c.profile \in {"aggressive", "stable", "latency"}
  PROVE  d.delay = 0
  BY DEF ProfileSets, AggressiveSets, StableSets, LatencySets

(* A path with workers, a pause and a timeout.                             *)
Usable(p) == p.pool > 0 /\ p.retry > 0 /\ p.dial > 0

LEMMA PathUsable ==
  ASSUME NEW p \in Path, NEW pool \in {2, 3}, NEW retry \in {2, 3}
  PROVE  /\ Usable(PathDefaults(p, pool, retry)) /\ PathDefaults(p, pool, retry).addr = p.addr
         /\ Usable(AggressivePath(p)) /\ AggressivePath(p).addr = p.addr
  <1>0. /\ DOMAIN p = {"transport", "addr", "pool", "retry", "dial"}
        /\ p.pool \in Int /\ p.retry \in Int /\ p.dial \in Int /\ pool \in Int /\ retry \in Int
        /\ pool > 0 /\ retry > 0
    BY DEF Path
  <1> DEFINE a == Default(p.pool, pool)  b == Default(p.retry, retry)  e == Default(p.dial, 10)
             g == AtLeast(p.pool, 4)  h == Capped(p.retry, 2)
  <1>1. a > 0 /\ b > 0 /\ e > 0 /\ g > 0 /\ h > 0
    BY <1>0 DEF Default, AtLeast, Capped
  <1>2. /\ PathDefaults(p, pool, retry) = [p EXCEPT !.pool = a, !.retry = b, !.dial = e]
        /\ AggressivePath(p) = [p EXCEPT !.pool = g, !.retry = h, !.dial = e]
    BY DEF PathDefaults, AggressivePath
  <1> HIDE DEF a, b, e, g, h
  <1>3. ASSUME NEW q, q = [p EXCEPT !.pool = a, !.retry = b, !.dial = e] PROVE Usable(q) /\ q.addr = p.addr
    BY <1>0, <1>1, <1>3 DEF Usable
  <1>4. ASSUME NEW q, q = [p EXCEPT !.pool = g, !.retry = h, !.dial = e] PROVE Usable(q) /\ q.addr = p.addr
    BY <1>0, <1>1, <1>4 DEF Usable
  <1> QED BY <1>2, <1>3, <1>4, Zenon

LEMMA ProfilePaths ==
  ASSUME NEW c, NEW d, ProfileSets(c, d), c.paths \in Seq(Path)
  PROVE  /\ Len(d.paths) = Len(c.paths)
         /\ \A i \in 1..Len(c.paths) : Usable(d.paths[i]) /\ d.paths[i].addr = c.paths[i].addr
  <1> DEFINE ps == c.paths  n == Len(ps)
  <1>0. n \in Nat /\ \A i \in 1..n : ps[i] \in Path
    BY LenProperties, ElementOfSeq
  <1>1. \/ d.paths = AggressivePaths(ps)
        \/ \E pool \in {2, 3}, retry \in {2, 3} : d.paths = DefaultPaths(ps, pool, retry)
    BY DEF ProfileSets, AggressiveSets, StableSets, LatencySets, BalancedSets
  <1> HIDE DEF ps
  <1>2. CASE d.paths = AggressivePaths(ps)
    <2>1. /\ d.paths = [i \in 1..n |-> AggressivePath(ps[i])]
      BY <1>2 DEF AggressivePaths
    <2>2. Len(d.paths) = n
      BY <1>0, <2>1
    <2>3. \A i \in 1..n : d.paths[i] = AggressivePath(ps[i])
      BY <2>1
    <2> QED BY <1>0, <2>2, <2>3, PathUsable DEF ps
  <1>3. ASSUME NEW pool \in {2, 3}, NEW retry \in {2, 3}, d.paths = DefaultPaths(ps, pool, retry)
        PROVE  Len(d.paths) = n /\ \A i \in 1..n : Usable(d.paths[i]) /\ d.paths[i].addr = ps[i].addr
    <2>1. /\ d.paths = [i \in 1..n |-> PathDefaults(ps[i], pool, retry)]
      BY <1>3 DEF DefaultPaths
    <2>2. Len(d.paths) = n
      BY <1>0, <2>1
    <2>3. \A i \in 1..n : d.paths[i] = PathDefaults(ps[i], pool, retry)
      BY <2>1
    <2> QED BY <1>0, <2>2, <2>3, PathUsable
  <1> QED BY <1>1, <1>2, <1>3 DEF ps
-----------------------------------------------------------------------------
(* The configurations between the steps of LoadConfig.                     *)
Chain(f, c1, c2, c3, c4, d) ==
    /\ NamesKeeps(f, c1)
    /\ BaseKeeps(c1, c2) /\ BaseSets(c1, c2) /\ BaseProfile(c1, c2) /\ BaseFrag(c1, c2)
    /\ ProfileKeeps(c2, c3) /\ ProfileSets(c2, c3)
    /\ MapsSets(c3, c4)
    /\ AliasesSets(c4, d)

LEMMA LoadChain ==
  ASSUME NEW f, IsConfig(f)
  PROVE  \E c1, c2, c3, c4 : Chain(f, c1, c2, c3, c4, LoadConfig(f))
  <1> DEFINE c1 == Names(f)  c2 == applyBaseDefaults(c1)  c3 == applyProfile(c2)
             c4 == mapDaggerToLegacy(c3)  d == syncAliases(c4)
  <1>1. d = LoadConfig(f)
    BY DEF LoadConfig
  <1>2. NamesKeeps(f, c1)
    BY NamesEffect
  <1>3. IsConfig(c1)
    BY <1>2 DEF NamesKeeps, Keeps
  <1> HIDE DEF c1
  <1>4. BaseKeeps(c1, c2) /\ BaseSets(c1, c2) /\ BaseProfile(c1, c2) /\ BaseFrag(c1, c2)
    BY <1>3, BaseEffect
  <1>5. IsConfig(c2)
    BY <1>4 DEF BaseKeeps, Keeps
  <1> HIDE DEF c2
  <1>6. ProfileKeeps(c2, c3) /\ ProfileSets(c2, c3)
    BY <1>5, ProfileEffect
  <1>7. IsConfig(c3)
    BY <1>6 DEF ProfileKeeps, Keeps
  <1> HIDE DEF c3
  <1>8. MapsSets(c3, c4)
    BY <1>7, MapsEffect
  <1>9. IsConfig(c4)
    BY <1>8 DEF MapsSets, Keeps
  <1> HIDE DEF c4
  <1>10. AliasesSets(c4, d)
    BY <1>9, AliasesEffect
  <1> QED
    BY <1>1, <1>2, <1>4, <1>6, <1>8, <1>10 DEF Chain

(* The defaults are applied to the file's own settings.                    *)
LEMMA LoadBase ==
  ASSUME NEW f, NEW c1, NEW c2, NEW c3, NEW c4, NEW d, Chain(f, c1, c2, c3, c4, d)
  PROVE  BaseSets(f, c2) /\ BaseProfile(f, c2)
  <1>1. NamesKeeps(f, c1) /\ BaseSets(c1, c2) /\ BaseProfile(c1, c2)
    BY DEF Chain
  <1>2. /\ c1.profile = f.profile /\ c1.keep = f.keep /\ c1.recv = f.recv /\ c1.stream = f.stream
        /\ c1.frame = f.frame /\ c1.fragMin = f.fragMin /\ c1.fragMax = f.fragMax
    BY <1>1 DEF NamesKeeps
  <1>3. BaseSets(f, c2)
    BY <1>1, <1>2 DEF BaseSets
  <1>4. BaseProfile(f, c2)
    BY <1>1, <1>2 DEF BaseProfile
  <1> QED
    BY <1>3, <1>4

(* What LoadConfig leaves as the file has it.                              *)
LEMMA LoadKeeps ==
  ASSUME NEW f, NEW c1, NEW c2, NEW c3, NEW c4, NEW d, Chain(f, c1, c2, c3, c4, d)
  PROVE  d.mode = f.mode /\ d.transport = f.transport /\ d.url = f.url
  BY DEF Chain, NamesKeeps, BaseKeeps, ProfileKeeps, MapsSets, AliasesSets, Keeps

(* Fragments are on if the file or its profile says so, or for TLS.        *)
LEMMA LoadFrag ==
  ASSUME NEW f, NEW c1, NEW c2, NEW c3, NEW c4, NEW d, Chain(f, c1, c2, c3, c4, d)
  PROVE  /\ f.profile = "aggressive" => d.frag = TRUE
         /\ f.profile # "aggressive" => d.frag = (f.frag \/ IsTLS(f.transport))
  <1>0. BaseSets(f, c2) /\ BaseProfile(f, c2)
    BY LoadBase
  <1>1. c1.frag = f.frag /\ c1.transport = f.transport
    BY DEF Chain, NamesKeeps, Keeps
  <1>2. c2.frag = (f.frag \/ IsTLS(f.transport))
    BY <1>1, Zenon DEF Chain, BaseFrag
  <1>3. c2.profile = "aggressive" <=> f.profile = "aggressive"
    BY <1>0 DEF BaseProfile
  <1>4. /\ c2.profile = "aggressive" => c3.frag = TRUE
        /\ c2.profile # "aggressive" => c3.frag = c2.frag
    BY ProfileFrag DEF Chain
  <1>5. d.frag = c3.frag
    BY DEF Chain, MapsSets, AliasesSets
  <1> QED
    BY <1>2, <1>3, <1>4, <1>5, Zenon

(* Numbers for smux: all positive, the interval no longer than asked for,  *)
(* frame and buffers in order if they were after the defaults.             *)
LEMMA LoadSmux ==
  ASSUME NEW f, NEW c1, NEW c2, NEW c3, NEW c4, NEW d, Chain(f, c1, c2, c3, c4, d),
         f.keep \in Int, f.recv \in Int, f.stream \in Int, f.frame \in Int
  PROVE  /\ Fits(d.keep, d.recv, d.stream, d.frame)
         /\ d.keep <= Default(f.keep, 10)
         /\ Default(f.frame, 32768) <= 65535 => d.frame <= 65535
         /\ Default(f.stream, 8 * MB) <= Default(f.recv, 8 * MB) => d.stream <= d.recv
         /\ Default(f.stream, 8 * MB) <= 2147483647 => d.stream <= 2147483647
  <1>0. BaseSets(f, c2) /\ BaseProfile(f, c2)
    BY LoadBase
  <1>1. /\ c2.keep = Default(f.keep, 10) /\ c2.recv = Default(f.recv, 8 * MB)
        /\ c2.stream = Default(f.stream, 8 * MB) /\ c2.frame = Default(f.frame, 32768)
    BY <1>0 DEF BaseSets
  <1>2. Fits(c2.keep, c2.recv, c2.stream, c2.frame)
    BY <1>1 DEF Fits, Default, MB
  <1>3. Tuned(c2, c3)
    BY <1>2, ProfileTunes DEF Chain
  <1>4. d.keep = c3.keep /\ d.recv = c3.recv /\ d.stream = c3.stream /\ d.frame = c3.frame
    BY DEF Chain, MapsSets, AliasesSets
  <1> QED
    BY <1>1, <1>3, <1>4 DEF Tuned

(* Whether both padding and compression are on depends on four settings.   *)
LEMMA LoadWire ==
  ASSUME NEW f, NEW c1, NEW c2, NEW c3, NEW c4, NEW d, Chain(f, c1, c2, c3, c4, d)
  PROVE  /\ f.profile = "aggressive" => d.obfs = TRUE /\ d.comp = "snappy"
         /\ f.profile # "aggressive" => d.obfs = (f.obfs \/ f.obf) /\ d.comp = f.comp
  <1>0. BaseSets(f, c2) /\ BaseProfile(f, c2)
    BY LoadBase
  <1>1. c2.obf = f.obf /\ c2.obfs = f.obfs /\ c2.comp = f.comp
    BY DEF Chain, NamesKeeps, BaseKeeps
  <1>2. c2.profile = "aggressive" <=> f.profile = "aggressive"
    BY <1>0 DEF BaseProfile
  <1>3. /\ c2.profile = "aggressive" => c3.obf = TRUE /\ c3.comp = "snappy"
        /\ c2.profile # "aggressive" => c3.obf = c2.obf /\ c3.comp = c2.comp
    BY ProfileWire DEF Chain
  <1>4. c3.obfs = c2.obfs
    BY DEF Chain, ProfileKeeps
  <1>5. d.obfs = (c3.obfs \/ c3.obf) /\ d.comp = c3.comp
    BY DEF Chain, MapsSets, AliasesSets
  <1>6. ASSUME f.profile = "aggressive" PROVE d.obfs = TRUE /\ d.comp = "snappy"
    BY <1>2, <1>3, <1>5, <1>6, Zenon
  <1>7. ASSUME f.profile # "aggressive" PROVE d.obfs = (f.obfs \/ f.obf) /\ d.comp = f.comp
    BY <1>1, <1>2, <1>3, <1>4, <1>5, <1>7, Zenon
  <1> QED
    BY <1>6, <1>7

LEMMA LoadDelay ==
  ASSUME NEW f, NEW c1, NEW c2, NEW c3, NEW c4, NEW d, Chain(f, c1, c2, c3, c4, d),
         f.profile \in {"aggressive", "stable", "latency"}, f.obfsDelay \in Int, f.obfsDelay <= 0
  PROVE  d.obfsDelay = 0
  <1>0. BaseSets(f, c2) /\ BaseProfile(f, c2)
    BY LoadBase
  <1>1. c2.profile \in {"aggressive", "stable", "latency"}
    BY <1>0 DEF BaseProfile
  <1>2. c3.delay = 0
    BY <1>1, ProfileDelay DEF Chain
  <1>3. c3.obfsDelay = f.obfsDelay
    BY DEF Chain, NamesKeeps, BaseKeeps, ProfileKeeps
  <1>4. d.obfsDelay = Default(c3.obfsDelay, c3.delay)
    BY DEF Chain, MapsSets, AliasesSets
  <1> QED
    BY <1>2, <1>3, <1>4 DEF Default

LEMMA LoadFragments ==
  ASSUME NEW f, NEW c1, NEW c2, NEW c3, NEW c4, NEW d, Chain(f, c1, c2, c3, c4, d)
  PROVE  d.fragMin = Default(f.fragMin, 64) /\ d.fragMax = Default(f.fragMax, 191)
  <1>0. BaseSets(f, c2) /\ BaseProfile(f, c2)
    BY LoadBase
  <1>1. c2.fragMin = Default(f.fragMin, 64) /\ c2.fragMax = Default(f.fragMax, 191)
    BY <1>0 DEF BaseSets
  <1>2. d.fragMin = c2.fragMin /\ d.fragMax = c2.fragMax
    BY DEF Chain, ProfileKeeps, MapsSets, AliasesSets
  <1> QED
    BY <1>1, <1>2

LEMMA LoadPaths ==
  ASSUME NEW f, NEW c1, NEW c2, NEW c3, NEW c4, NEW d, Chain(f, c1, c2, c3, c4, d),
         f.paths \in Seq(Path)
  PROVE  /\ Len(d.paths) = Len(f.paths)
         /\ \A i \in 1..Len(f.paths) : Usable(d.paths[i])
  <1>1. c2.paths = f.paths
    BY DEF Chain, NamesKeeps, BaseKeeps
  <1>2. /\ Len(c3.paths) = Len(c2.paths)
        /\ \A i \in 1..Len(c2.paths) : Usable(c3.paths[i])
    BY <1>1, ProfilePaths DEF Chain
  <1>3. d.paths = c3.paths
    BY DEF Chain, MapsSets, AliasesSets
  <1> QED
    BY <1>1, <1>2, <1>3

LEMMA LoadLists ==
  ASSUME NEW f, NEW c1, NEW c2, NEW c3, NEW c4, NEW d, Chain(f, c1, c2, c3, c4, d),
         f.tcp = <<>>, f.udp = <<>>
  PROVE  d.tcp = Listed(f.maps, {"tcp", "both"}) /\ d.udp = Listed(f.maps, {"udp", "both"})
  <1>1. c3.tcp = <<>> /\ c3.udp = <<>> /\ c3.maps = f.maps
    BY DEF Chain, NamesKeeps, BaseKeeps, ProfileKeeps, Keeps
  <1>2. c4.tcp = Listed(f.maps, {"tcp", "both"}) /\ c4.udp = Listed(f.maps, {"udp", "both"})
    BY <1>1 DEF Chain, MapsSets
  <1> QED
    BY <1>2 DEF Chain, AliasesSets
-----------------------------------------------------------------------------
(* In each stage the configuration is what the steps so far make of the    *)
(* file; an accepted one is valid; the pieces are those of a ClientHello.  *)
Staged ==
    /\ stage = "names"    => cfg = file
    /\ stage = "defaults" => cfg = Names(file)
    /\ stage = "profile"  => cfg = applyBaseDefaults(Names(file))
    /\ stage = "maps"     => cfg = applyProfile(applyBaseDefaults(Names(file)))
    /\ stage = "aliases"  => cfg = mapDaggerToLegacy(applyProfile(applyBaseDefaults(Names(file))))
    /\ stage \in {"validate", "ok", "error"} => cfg = LoadConfig(file)

SplitAt(c, n) == IF Fragments(c) THEN FragmentSizes(c) ELSE {n}

Pieced ==
    pieces # <<>> =>
        /\ stage = "ok"
        /\ \E n \in Hellos : \E size \in SplitAt(cfg, n) : pieces = Pieces(n, size)

ConfigInv ==
    /\ file \in File
    /\ stage \in {"names", "defaults", "profile", "maps", "aliases", "validate", "ok", "error"}
    /\ Staged
    /\ stage = "ok" => Valid(cfg)
    /\ Pieced

LEMMA StepKeeps ==
  ASSUME ConfigInv, file' = file, pieces' = pieces, stage # "ok", stage' # "ok", Staged',
         stage' \in {"names", "defaults", "profile", "maps", "aliases", "validate", "ok", "error"}
  PROVE  ConfigInv'
  BY DEF ConfigInv, Pieced

(* The stages of LoadConfig compose as written, for every file: a          *)
(* configuration that is accepted is LoadConfig of its file and valid.     *)
LEMMA ConfigInvariant == ConfigSpec => []ConfigInv
  <1>1. ConfigInit => ConfigInv
    BY ConfigAssumption DEF ConfigInit, ConfigInv, Staged, Pieced
  <1>2. ConfigInv /\ [ConfigNext]_configVars => ConfigInv'
    <2> SUFFICES ASSUME ConfigInv, [ConfigNext]_configVars PROVE ConfigInv'
      OBVIOUS
    <2>0. Staged
      BY DEF ConfigInv
    <2>1. CASE SetNames
      <3>1. stage = "names" /\ stage' = "defaults" /\ cfg' = Names(cfg) /\ UNCHANGED <<file, pieces>>
        BY <2>1 DEF SetNames, Step, After
      <3> QED
        BY <2>0, <3>1, StepKeeps DEF Staged
    <2>2. CASE BaseDefaults
      <3>1. /\ stage = "defaults" /\ stage' = "profile" /\ cfg' = applyBaseDefaults(cfg)
            /\ UNCHANGED <<file, pieces>>
        BY <2>2 DEF BaseDefaults, Step, After
      <3> QED
        BY <2>0, <3>1, StepKeeps DEF Staged
    <2>3. CASE ApplyProfile
      <3>1. /\ stage = "profile" /\ stage' = "maps" /\ cfg' = applyProfile(cfg)
            /\ UNCHANGED <<file, pieces>>
        BY <2>3 DEF ApplyProfile, Step, After
      <3> QED
        BY <2>0, <3>1, StepKeeps DEF Staged
    <2>4. CASE MapsToLegacy
      <3>1. /\ stage = "maps" /\ stage' = "aliases" /\ cfg' = mapDaggerToLegacy(cfg)
            /\ UNCHANGED <<file, pieces>>
        BY <2>4 DEF MapsToLegacy, Step, After
      <3> QED
        BY <2>0, <3>1, StepKeeps DEF Staged
    <2>5. CASE SyncAliases
      <3>1. /\ stage = "aliases" /\ stage' = "validate" /\ cfg' = syncAliases(cfg)
            /\ UNCHANGED <<file, pieces>>
        BY <2>5 DEF SyncAliases, Step, After
      <3> QED
        BY <2>0, <3>1, StepKeeps DEF Staged, LoadConfig
    <2>6. CASE Validate
      <3>1. /\ stage = "validate" /\ UNCHANGED <<file, cfg, pieces>>
            /\ stage' = IF Valid(cfg) THEN "ok" ELSE "error"
        BY <2>6 DEF Validate
      <3>2. pieces = <<>>
        BY <3>1 DEF ConfigInv, Pieced
      <3>3. Valid(cfg)' <=> Valid(cfg)
        BY <3>1 DEF Valid
      <3> QED
        BY <3>1, <3>2, <3>3 DEF ConfigInv, Staged, Pieced
    <2>7. ASSUME NEW n \in Hellos, FirstWrite(n) PROVE ConfigInv'
      <3>1. stage = "ok" /\ UNCHANGED <<file, cfg, stage>>
        BY <2>7 DEF FirstWrite
      <3>2. PICK size \in SplitAt(cfg, n) : pieces' = Pieces(n, size)
        BY <2>7 DEF FirstWrite, SplitAt
      <3>3. size \in SplitAt(cfg', n) /\ pieces' = Pieces(n, size)
        BY <3>1, <3>2
      <3>4. Valid(cfg)' <=> Valid(cfg)
        BY <3>1 DEF Valid
      <3> QED
        BY <3>1, <3>3, <3>4 DEF ConfigInv, Staged, Pieced
    <2>8. CASE UNCHANGED configVars
      <3>1. Valid(cfg)' <=> Valid(cfg)
        BY <2>8 DEF configVars, Valid
      <3> QED
        BY <2>8, <3>1 DEF configVars, ConfigInv, Staged, Pieced
    <2> QED
      BY <2>1, <2>2, <2>3, <2>4, <2>5, <2>6, <2>7, <2>8 DEF ConfigNext
  <1> QED
    BY <1>1, <1>2, PTL DEF ConfigSpec
-----------------------------------------------------------------------------
(* The configuration of a loaded file.                                     *)
LEMMA LoadedChain ==
  ASSUME ConfigInv, Loaded
  PROVE  /\ \E c1, c2, c3, c4 : Chain(file, c1, c2, c3, c4, cfg)
         /\ Valid(cfg)
  <1>1. cfg = LoadConfig(file) /\ Valid(cfg) /\ file \in File
    BY DEF ConfigInv, Staged, Loaded
  <1>2. IsConfig(file)
    BY <1>1, FileSettings
  <1>3. \E c1, c2, c3, c4 : Chain(file, c1, c2, c3, c4, LoadConfig(file))
    BY <1>2, LoadChain
  <1> QED
    BY <1>1, <1>3

(***************************************************************************)
(* Every file that LoadConfig accepts can be run with: a client has a      *)
(* path, each path has workers, a pause and a timeout, and the maps have   *)
(* their listeners.                                                        *)
(***************************************************************************)
THEOREM RunnableAlways == ConfigSpec => []Runnable
  <1>1. ConfigInv => Runnable
    <2> SUFFICES ASSUME ConfigInv, Loaded PROVE Runnable
      BY DEF Runnable
    <2>0. file \in File
      BY DEF ConfigInv
    <2>t. file.paths \in Seq(Path) /\ file.maps \in Seq(MapTypes)
      BY <2>0, FileSettings
    <2>1. PICK c1, c2, c3, c4 : Chain(file, c1, c2, c3, c4, cfg)
      BY LoadedChain
    <2>2. ASSUME cfg.mode = "client"
          PROVE  LET ps == ClientPaths(cfg) IN
                 /\ ps # <<>>
                 /\ \A i \in 1..Len(ps) : ps[i].addr /\ ps[i].pool > 0 /\ ps[i].retry > 0 /\ ps[i].dial > 0
      <3>1. (cfg.url \/ cfg.paths # <<>>) /\ \A i \in 1..Len(cfg.paths) : cfg.paths[i].addr
        BY <2>2, LoadedChain DEF Valid
      <3>2. Len(cfg.paths) = Len(file.paths) /\ \A i \in 1..Len(file.paths) : Usable(cfg.paths[i])
        BY <2>t, <2>1, LoadPaths
      <3>3. CASE cfg.paths = <<>>
        <4> DEFINE only == [transport |-> cfg.transport, addr |-> TRUE, pool |-> 2, retry |-> 3, dial |-> 10]
        <4>1. ClientPaths(cfg) = <<only>>
          BY <3>1, <3>3 DEF ClientPaths
        <4>2. only.addr /\ only.pool > 0 /\ only.retry > 0 /\ only.dial > 0
          OBVIOUS
        <4> HIDE DEF only
        <4>3. Len(<<only>>) = 1 /\ <<only>> # <<>> /\ \A i \in 1..1 : <<only>>[i] = only
          OBVIOUS
        <4> QED BY <4>1, <4>2, <4>3
      <3>4. CASE cfg.paths # <<>>
        <4>1. ClientPaths(cfg) = cfg.paths
          BY <3>4 DEF ClientPaths
        <4> QED BY <3>1, <3>2, <3>4, <4>1 DEF Usable
      <3> QED BY <3>3, <3>4
    <2>3. ASSUME file.tcp = <<>>, file.udp = <<>>, NEW i \in 1..Len(file.maps)
          PROVE  /\ file.maps[i] # "udp" => \E j \in 1..Len(cfg.tcp) : cfg.tcp[j] = i
                 /\ file.maps[i] # "tcp" => \E j \in 1..Len(cfg.udp) : cfg.udp[j] = i
      <3>1. cfg.tcp = Listed(file.maps, {"tcp", "both"}) /\ cfg.udp = Listed(file.maps, {"udp", "both"})
        BY <2>1, <2>3, LoadLists
      <3>2. file.maps[i] \in MapTypes
        BY <2>t, ElementOfSeq
      <3>3. /\ file.maps[i] # "udp" => file.maps[i] \in {"tcp", "both"}
            /\ file.maps[i] # "tcp" => file.maps[i] \in {"udp", "both"}
        BY <3>2 DEF MapTypes
      <3>4. ASSUME NEW types, file.maps[i] \in types
            PROVE  \E j \in 1..Len(Listed(file.maps, types)) : Listed(file.maps, types)[j] = i
        BY <2>t, <3>4, ListedHas
      <3>5. ASSUME file.maps[i] # "udp" PROVE \E j \in 1..Len(cfg.tcp) : cfg.tcp[j] = i
        BY <3>1, <3>3, <3>4, <3>5, Zenon
      <3>6. ASSUME file.maps[i] # "tcp" PROVE \E j \in 1..Len(cfg.udp) : cfg.udp[j] = i
        BY <3>1, <3>3, <3>4, <3>6, Zenon
      <3> QED BY <3>5, <3>6
    <2> QED BY <2>2, <2>3 DEF Runnable
  <1> QED BY <1>1, ConfigInvariant, PTL

(***************************************************************************)
(* Whatever numbers the file has, no profile turns settings that smux      *)
(* would take into settings that it refuses.                               *)
(***************************************************************************)
THEOREM ProfileKeepsSmuxAlways == ConfigSpec => []ProfileKeepsSmux
  <1>1. ConfigInv => ProfileKeepsSmux
    <2> DEFINE asked == applyBaseDefaults(file)
    <2> SUFFICES ASSUME ConfigInv, Loaded, SmuxAccepts(asked)
                 PROVE  SmuxAccepts(cfg)
      BY DEF ProfileKeepsSmux
    <2>a. asked.stream <= asked.recv /\ asked.frame <= 65535 /\ asked.stream <= 2147483647
      BY DEF SmuxAccepts
    <2> HIDE DEF asked
    <2>0. file \in File
      BY DEF ConfigInv
    <2>t. IsConfig(file) /\ file.keep \in Int /\ file.recv \in Int /\ file.stream \in Int /\ file.frame \in Int
      BY <2>0, FileSettings
    <2>1. PICK c1, c2, c3, c4 : Chain(file, c1, c2, c3, c4, cfg)
      BY LoadedChain
    <2>2. BaseSets(file, asked)
      BY <2>t, BaseEffect DEF asked
    <2>3. /\ asked.stream = Default(file.stream, 8 * MB) /\ asked.recv = Default(file.recv, 8 * MB)
          /\ asked.frame = Default(file.frame, 32768)
      BY <2>2 DEF BaseSets
    <2>4. /\ Fits(cfg.keep, cfg.recv, cfg.stream, cfg.frame)
          /\ Default(file.frame, 32768) <= 65535 => cfg.frame <= 65535
          /\ Default(file.stream, 8 * MB) <= Default(file.recv, 8 * MB) => cfg.stream <= cfg.recv
          /\ Default(file.stream, 8 * MB) <= 2147483647 => cfg.stream <= 2147483647
      BY <2>t, <2>1, LoadSmux
    <2>5. cfg.frame <= 65535 /\ cfg.stream <= cfg.recv /\ cfg.stream <= 2147483647
      BY <2>a, <2>3, <2>4
    <2>6. cfg.ver \in {1, 2}
      BY LoadedChain DEF Valid
    <2>7. Version(cfg) \in {1, 2}
      BY <2>6 DEF Version
    <2>8. Interval(cfg) > 0 /\ Timeout(cfg) >= Interval(cfg)
      BY <2>4 DEF Fits, Interval, Timeout, Default, AtLeast
    <2> QED BY <2>4, <2>5, <2>7, <2>8 DEF SmuxAccepts, Fits
  <1> QED BY <1>1, ConfigInvariant, PTL

(* An interval of less than 30 seconds stays one, and no timeout is less.  *)
LEMMA LoadAlive ==
  ASSUME NEW f, IsConfig(f), f.keep \in Int, f.recv \in Int, f.stream \in Int, f.frame \in Int,
         f.keep < 30
  PROVE  /\ Interval(LoadConfig(f)) \in Int /\ Timeout(LoadConfig(f)) \in Int
         /\ Interval(LoadConfig(f)) < 30 /\ Timeout(LoadConfig(f)) >= 30
  <1> DEFINE d == LoadConfig(f)
  <1>1. PICK c1, c2, c3, c4 : Chain(f, c1, c2, c3, c4, d)
    BY LoadChain
  <1> HIDE DEF d
  <1>2. d.keep \in Int /\ d.keep > 0 /\ d.keep <= Default(f.keep, 10)
    BY <1>1, LoadSmux DEF Fits
  <1>3. Default(f.keep, 10) \in Int /\ Default(f.keep, 10) < 30
    BY DEF Default
  <1>4. Interval(d) = d.keep
    BY <1>2 DEF Interval, Default
  <1>5. Interval(d) \in Int /\ Timeout(d) \in Int /\ Interval(d) < 30 /\ Timeout(d) >= 30
    BY <1>2, <1>3, <1>4 DEF Timeout, AtLeast
  <1> QED BY <1>5 DEF d

(***************************************************************************)
(* Two sides under any two profiles, each with its own interval below 30   *)
(* seconds or none, send their keepalives before the other gives up.       *)
(***************************************************************************)
THEOREM PairAliveAlways == ConfigSpec => []PairAlive
  <1>1. ConfigInv => PairAlive
    <2> SUFFICES ASSUME ConfigInv, Loaded, file.keep < 30,
                        NEW p \in Profiles, NEW k \in PeerKeeps, k < 30
                 PROVE  LET peer == LoadConfig([file EXCEPT !.profile = p, !.keep = k])
                        IN  Interval(cfg) < Timeout(peer) /\ Interval(peer) < Timeout(cfg)
      BY DEF PairAlive
    <2> DEFINE f == [file EXCEPT !.profile = p, !.keep = k]
    <2>0. file \in File /\ cfg = LoadConfig(file)
      BY DEF ConfigInv, Loaded, Staged
    <2>1. /\ IsConfig(file) /\ file.keep \in Int /\ file.recv \in Int /\ file.stream \in Int
          /\ file.frame \in Int
      BY <2>0, FileSettings
    <2>2. IsConfig(f) /\ f.keep = k /\ f.recv = file.recv /\ f.stream = file.stream /\ f.frame = file.frame
      BY <2>1 DEF IsConfig, Settings
    <2> HIDE DEF f
    <2>3. /\ Interval(cfg) \in Int /\ Timeout(cfg) \in Int
          /\ Interval(cfg) < 30 /\ Timeout(cfg) >= 30
      BY <2>0, <2>1, LoadAlive
    <2>4. /\ Interval(LoadConfig(f)) \in Int /\ Timeout(LoadConfig(f)) \in Int
          /\ Interval(LoadConfig(f)) < 30 /\ Timeout(LoadConfig(f)) >= 30
      <3>1. f.keep \in Int /\ f.recv \in Int /\ f.stream \in Int /\ f.frame \in Int /\ f.keep < 30
        BY <2>1, <2>2, ConfigAssumption
      <3> QED BY <2>2, <3>1, LoadAlive
    <2>5. Interval(cfg) < Timeout(LoadConfig(f)) /\ Interval(LoadConfig(f)) < Timeout(cfg)
      BY <2>3, <2>4
    <2> QED BY <2>5 DEF f
  <1> QED BY <1>1, ConfigInvariant, PTL

(***************************************************************************)
(* Under the fast profiles no write is delayed unless the file says so in  *)
(* the newer of the two sections.                                          *)
(***************************************************************************)
THEOREM DelayOffAlways == ConfigSpec => []DelayOff
  <1>1. ConfigInv => DelayOff
    <2> SUFFICES ASSUME ConfigInv, Loaded, file.profile \in {"aggressive", "stable", "latency"},
                        file.obfsDelay <= 0
                 PROVE  cfg.obfsDelay = 0
      BY DEF DelayOff
    <2>0. file \in File
      BY DEF ConfigInv
    <2>1. file.obfsDelay \in Int
      BY <2>0, FileSettings
    <2>2. PICK c1, c2, c3, c4 : Chain(file, c1, c2, c3, c4, cfg)
      BY LoadedChain
    <2> QED BY <2>1, <2>2, LoadDelay
  <1> QED BY <1>1, ConfigInvariant, PTL

(***************************************************************************)
(* Both sides put the same on the wire, whatever else their files say.     *)
(***************************************************************************)
THEOREM SidesAgreeAlways == ConfigSpec => []SidesAgree
  <1>1. ConfigInv => SidesAgree
    <2> SUFFICES ASSUME ConfigInv, Loaded, NEW m \in {"server", "client"}, NEW t \in {"", "httpsmux"}
                 PROVE  Wire(LoadConfig([file EXCEPT !.mode = m, !.transport = t, !.paths = <<>>])) = Wire(cfg)
      BY DEF SidesAgree
    <2> DEFINE f == [file EXCEPT !.mode = m, !.transport = t, !.paths = <<>>]
               d == LoadConfig(f)
    <2>0. file \in File
      BY DEF ConfigInv
    <2>1. IsConfig(file)
      BY <2>0, FileSettings
    <2>2. /\ IsConfig(f) /\ f.profile = file.profile /\ f.obf = file.obf /\ f.obfs = file.obfs
          /\ f.comp = file.comp
      BY <2>1 DEF IsConfig, Settings
    <2> HIDE DEF f
    <2>3. PICK c1, c2, c3, c4 : Chain(f, c1, c2, c3, c4, d)
      BY <2>2, LoadChain
    <2> HIDE DEF d
    <2>4. PICK b1, b2, b3, b4 : Chain(file, b1, b2, b3, b4, cfg)
      BY LoadedChain
    <2>5. /\ f.profile = "aggressive" => d.obfs = TRUE /\ d.comp = "snappy"
          /\ f.profile # "aggressive" => d.obfs = (f.obfs \/ f.obf) /\ d.comp = f.comp
      BY <2>3, LoadWire
    <2>6. /\ file.profile = "aggressive" => cfg.obfs = TRUE /\ cfg.comp = "snappy"
          /\ file.profile # "aggressive" => cfg.obfs = (file.obfs \/ file.obf) /\ cfg.comp = file.comp
      BY <2>4, LoadWire
    <2>7. d.obfs = cfg.obfs /\ d.comp = cfg.comp
      BY <2>2, <2>5, <2>6, Zenon
    <2>8. Wire(d) = Wire(cfg)
      BY <2>7, Zenon DEF Wire
    <2> QED BY <2>8, Zenon DEF d, f
  <1> QED BY <1>1, ConfigInvariant, PTL

(***************************************************************************)
(* For every file, length and bounds: when the file's own transport is a   *)
(* TLS one, or it or its profile asks for fragments, every ClientHello     *)
(* longer than the bounds leaves in two pieces that are not empty, on      *)
(* whatever path; otherwise it leaves whole.                               *)
(***************************************************************************)
THEOREM HelloSplitAlways == ConfigSpec => []HelloSplit
  <1>1. ConfigInv => HelloSplit
    <2> DEFINE lo == Default(file.fragMin, 64)  hi == Default(file.fragMax, 191)
               asked == file.frag \/ IsTLS(file.transport) \/ file.profile = "aggressive"
    <2> SUFFICES ASSUME ConfigInv, pieces # <<>>
                 PROVE  \/ asked /\ Len(pieces) = 2 /\ pieces[1] > 0 /\ pieces[2] > 0
                        \/ Len(pieces) = 1 /\ (asked => pieces[1] <= AtLeast(lo, hi))
      BY DEF HelloSplit
    <2>0. file \in File
      BY DEF ConfigInv
    <2>1. file.fragMin \in Int /\ file.fragMax \in Int
      BY <2>0, FileSettings
    <2>2. Loaded /\ \E n \in Hellos : \E size \in SplitAt(cfg, n) : pieces = Pieces(n, size)
      BY DEF ConfigInv, Pieced, Loaded
    <2>3. PICK n \in Hellos : \E size \in SplitAt(cfg, n) : pieces = Pieces(n, size)
      BY <2>2
    <2>4. PICK size \in SplitAt(cfg, n) : pieces = Pieces(n, size)
      BY <2>3
    <2>5. PICK c1, c2, c3, c4 : Chain(file, c1, c2, c3, c4, cfg)
      BY <2>2, LoadedChain
    <2>6. n \in Int /\ n > 0
      BY ConfigAssumption
    <2>7. /\ file.profile = "aggressive" => cfg.frag = TRUE
          /\ file.profile # "aggressive" => cfg.frag = (file.frag \/ IsTLS(file.transport))
      BY <2>5, LoadFrag
    <2>t. cfg.transport = file.transport
      BY <2>5, LoadKeeps
    <2>8. (cfg.frag <=> asked) /\ (Fragments(cfg) <=> asked)
      BY <2>7, <2>t, Zenon DEF Fragments
    <2>9. cfg.fragMin = lo /\ cfg.fragMax = hi
      BY <2>5, LoadFragments
    <2>10. lo \in Int /\ hi \in Int /\ lo > 0 /\ hi > 0
      BY <2>1 DEF Default
    <2> HIDE DEF lo, hi, asked
    <2>11. CASE ~asked
      <3>1. SplitAt(cfg, n) = {n}
        BY <2>8, <2>11, Zenon DEF SplitAt
      <3>2. pieces = <<n>>
        BY <2>4, <2>6, <3>1 DEF Pieces
      <3>3. Len(<<n>>) = 1
        OBVIOUS
      <3> QED BY <2>11, <3>2, <3>3
    <2>12. CASE asked
      <3>1. Default(lo, 64) = lo /\ Default(hi, 191) = hi
        BY <2>10 DEF Default
      <3>2. SplitAt(cfg, n) = FragmentSizes(cfg)
        BY <2>8, <2>12, Zenon DEF SplitAt
      <3>3. FragmentSizes(cfg) = IF hi > lo THEN lo..hi ELSE {lo}
        <4>1. (IF cfg.frag THEN Default(cfg.fragMin, 64) ELSE 64) = lo
          BY <2>8, <2>9, <2>12, <3>1, Zenon
        <4>2. (IF cfg.frag THEN Default(cfg.fragMax, 191) ELSE 191) = hi
          BY <2>8, <2>9, <2>12, <3>1, Zenon
        <4> QED BY <4>1, <4>2, Zenon DEF FragmentSizes
      <3>4. size \in Int /\ size > 0 /\ size <= AtLeast(lo, hi)
        BY <2>4, <2>10, <3>2, <3>3 DEF AtLeast
      <3>5. CASE n <= size
        <4>1. pieces = <<n>>
          BY <2>4, <3>5 DEF Pieces
        <4>2. AtLeast(lo, hi) \in Int
          BY <2>10 DEF AtLeast
        <4> QED BY <2>6, <3>4, <3>5, <4>1, <4>2
      <3>6. CASE ~ (n <= size)
        <4>1. pieces = <<size, n - size>>
          BY <2>4, <3>6 DEF Pieces
        <4> QED BY <2>6, <2>12, <3>4, <3>6, <4>1
      <3> QED BY <3>5, <3>6
    <2> QED BY <2>11, <2>12
  <1> QED BY <1>1, ConfigInvariant, PTL
=============================================================================
