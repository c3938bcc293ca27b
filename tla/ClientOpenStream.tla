-------------------------- MODULE ClientOpenStream --------------------------
(***************************************************************************)
(* Client.OpenStream (client.go): the callers, such as the DNS proxy's     *)
(* query handlers, copy the pool under the read lock and then walk their   *)
(* copy with a round-robin counter that all callers share.  Meanwhile the  *)
(* pool changes and sessions die.                                          *)
(***************************************************************************)
EXTENDS Naturals, Sequences, SequencesExt, FiniteSets

CONSTANTS
    Callers,    \* goroutines that call OpenStream
    Sessions,   \* smux sessions
    NoSession,  \* no session
    IdxMod      \* the counter is kept modulo a multiple of every pool size

ASSUME OpenAssumption ==
    /\ NoSession \notin Sessions
    /\ IdxMod \in Nat \ {0}
    /\ \A n \in 1..Cardinality(Sessions) : IdxMod % n = 0

VARIABLES
    pool,      \* c.sessions
    dead,      \* sessions on which OpenStream or sendTarget fails
    sessIdx,   \* the shared counter
    cPc,       \* "idle", "try" or "opening" of a caller
    copy,      \* its copy of the pool
    attempts,  \* iterations of its loop
    cur,       \* the session it is opening a stream on
    result     \* "none", "ok" or "exhausted": how its last call ended

vars == <<pool, dead, sessIdx, cPc, copy, attempts, cur, result>>

Init ==
    /\ pool = <<>> /\ dead = {} /\ sessIdx = 0
    /\ cPc = [c \in Callers |-> "idle"]
    /\ copy = [c \in Callers |-> <<>>]
    /\ attempts = [c \in Callers |-> 0]
    /\ cur = [c \in Callers |-> NoSession]
    /\ result = [c \in Callers |-> "none"]

(* addSession and removeSession, by the workers.                           *)
Join(s) ==
    /\ s \notin ToSet(pool) \cup dead
    /\ pool' = Append(pool, s)
    /\ UNCHANGED <<dead, sessIdx, cPc, copy, attempts, cur, result>>

Leave(s) ==
    /\ s \in ToSet(pool) \cap dead
    /\ pool' = SelectSeq(pool, LAMBDA t : t # s)
    /\ UNCHANGED <<dead, sessIdx, cPc, copy, attempts, cur, result>>

(* A session breaks or is closed.                                          *)
Dies(s) ==
    /\ s \in ToSet(pool) \ dead
    /\ dead' = dead \cup {s}
    /\ UNCHANGED <<pool, sessIdx, cPc, copy, attempts, cur, result>>

(* OpenStream returns; its local variables are gone.                       *)
Return(c, r) ==
    /\ cPc' = [cPc EXCEPT ![c] = "idle"]
    /\ result' = [result EXCEPT ![c] = r]
    /\ copy' = [copy EXCEPT ![c] = <<>>]
    /\ attempts' = [attempts EXCEPT ![c] = 0]

(* OpenStream copies the pool; it fails at once when the pool is empty.    *)
Begin(c) ==
    /\ cPc[c] = "idle"
    /\ IF pool = <<>>
         THEN Return(c, "exhausted")
         ELSE /\ cPc' = [cPc EXCEPT ![c] = "try"]
              /\ result' = [result EXCEPT ![c] = "none"]
              /\ copy' = [copy EXCEPT ![c] = pool]
              /\ UNCHANGED attempts
    /\ UNCHANGED <<pool, dead, sessIdx, cur>>

(* pool[idx % len(pool)]                                                   *)
At(s, i) == s[(i % Len(s)) + 1]

(* One iteration: the counter is advanced atomically ...                   *)
Pick(c) ==
    /\ cPc[c] = "try"
    /\ attempts[c] < Len(copy[c])
    /\ sessIdx' = (sessIdx + 1) % IdxMod
    /\ attempts' = [attempts EXCEPT ![c] = @ + 1]
    /\ cur' = [cur EXCEPT ![c] = At(copy[c], sessIdx + 1)]
    /\ cPc' = [cPc EXCEPT ![c] = "opening"]
    /\ UNCHANGED <<pool, dead, copy, result>>

(* ... then the session is tried: IsClosed, OpenStream, sendTarget.        *)
Try(c) ==
    /\ cPc[c] = "opening"
    /\ IF cur[c] \in dead
         THEN /\ cPc' = [cPc EXCEPT ![c] = "try"]
              /\ UNCHANGED <<result, copy, attempts>>
         ELSE Return(c, "ok")
    /\ UNCHANGED <<pool, dead, sessIdx, cur>>

Exhausted(c) ==
    /\ cPc[c] = "try"
    /\ attempts[c] >= Len(copy[c])
    /\ Return(c, "exhausted")
    /\ UNCHANGED <<pool, dead, sessIdx, cur>>

Next ==
    \/ \E s \in Sessions : Join(s) \/ Leave(s) \/ Dies(s)
    \/ \E c \in Callers : Begin(c) \/ Pick(c) \/ Try(c) \/ Exhausted(c)

Spec == Init /\ [][Next]_vars
=============================================================================
