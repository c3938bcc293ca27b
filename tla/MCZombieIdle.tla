---------------------------- MODULE MCZombieIdle ----------------------------
(***************************************************************************)
(* The session registry with a history variable: for how many ticks each   *)
(* session has carried no stream.                                          *)
(***************************************************************************)
EXTENDS ServerSessions

VARIABLE idleFor

HInit == Init /\ idleFor = [s \in Sessions |-> 0]

(* A step resets the idle time of every session that carries a stream.     *)
HStep ==
    /\ Step
    /\ idleFor' = [s \in Sessions |-> IF NumStreams(s)' > 0 THEN 0 ELSE idleFor[s]]

HTick ==
    /\ Tick
    /\ idleFor' = [s \in Sessions |->
           IF NumStreams(s) > 0 \/ idleFor[s] > ZombieAge THEN idleFor[s] ELSE idleFor[s] + 1]

HSpec == HInit /\ [][HStep \/ HTick]_<<vars, idleFor>>

(***************************************************************************)
(* cleanupSessions says of its zombie check: "If session has 0 streams     *)
(* (idle) for > 3 minutes, kill it."  What it tests is the age of the      *)
(* session, and that it carries no stream at the moment of the test.       *)
(***************************************************************************)
KilledWasIdle ==
    [][cPc = "scan" /\ cPc' = "kill" => idleFor[sessions[cKey']] > ZombieAge]_<<vars, idleFor>>
=============================================================================
