------------------------ MODULE ServerSessionsProofs ------------------------
(***************************************************************************)
(* Proofs, for every set of sessions, addresses and callers and every      *)
(* limit, of the safety properties of the session registry.                *)
(***************************************************************************)
EXTENDS ServerSessions, FiniteSetTheorems, TLAPS

(***************************************************************************)
(* The inductive invariant.  LockDiscipline is what the RWMutex gives: the *)
(* cleanup loop runs alone, so what it has still to visit stays in the     *)
(* map.  Registered ties a map entry to the session's own key and handler. *)
(***************************************************************************)
LockDiscipline ==
    /\ cPc # "idle" => Readers = {} /\ cTodo \subseteq Occupied
    /\ cPc = "kill" => cKey \in Occupied /\ cKey \notin cTodo

Registered ==
    \A k \in Keys : sessions[k] # NoSession =>
        key[sessions[k]] = k /\ hPc[sessions[k]] \notin {"idle", "created"}

HandlerInv ==
    \A s \in Sessions :
        /\ hPc[s] = "idle" => st[s] \notin {"open", "silent"}
        /\ hPc[s] \in {"counted", "closing"} => old[s] # NoSession

StructInv == TypeOK /\ LockDiscipline /\ Registered /\ HandlerInv
-----------------------------------------------------------------------------
(* An update at any point, inside the domain or not, keeps the type.       *)
LEMMA ExceptType ==
  ASSUME NEW S, NEW T, NEW f \in [S -> T], NEW x, NEW v, x \in S => v \in T
  PROVE  [f EXCEPT ![x] = v] \in [S -> T]
<1>1. CASE x \in S
  BY <1>1
<1>2. CASE x \notin S
  <2>1. [f EXCEPT ![x] = v] = f
    BY <1>2
  <2> QED BY <2>1
<1> QED BY <1>1, <1>2

(* Close() keeps the types of what it changes.                             *)
LEMMA CloseType ==
  ASSUME TypeOK, NEW x, CloseSession(x)
  PROVE  /\ st' \in [Sessions -> SessState]
         /\ rstreams' \in [Sessions -> Nat]
         /\ fstreams' \in [Sessions -> 0..MaxForward]
         /\ key' \in [Sessions -> Keys]
<1>1. st' \in [Sessions -> SessState]
  <2>1. st \in [Sessions -> SessState] /\ "closed" \in SessState
    BY DEF TypeOK, SessState
  <2>2. [st EXCEPT ![x] = "closed"] \in [Sessions -> SessState]
    BY ONLY <2>1, ExceptType, Zenon
  <2> QED BY <2>2 DEF CloseSession
<1>2. rstreams' \in [Sessions -> Nat]
  <2>1. rstreams \in [Sessions -> Nat] /\ 0 \in Nat
    BY DEF TypeOK
  <2>2. [rstreams EXCEPT ![x] = 0] \in [Sessions -> Nat]
    BY ONLY <2>1, ExceptType, Zenon
  <2> QED BY <2>2 DEF CloseSession
<1>3. fstreams' \in [Sessions -> 0..MaxForward]
  <2>1. fstreams \in [Sessions -> 0..MaxForward] /\ 0 \in 0..MaxForward
    BY ConstantsAssumption DEF TypeOK
  <2>2. [fstreams EXCEPT ![x] = 0] \in [Sessions -> 0..MaxForward]
    BY ONLY <2>1, ExceptType, Zenon
  <2> QED BY <2>2 DEF CloseSession
<1>4. key' \in [Sessions -> Keys]
  BY DEF TypeOK, CloseSession
<1> QED BY <1>1, <1>2, <1>3, <1>4

(* Every step of the registry keeps the types of its variables: no map     *)
(* entry, handler state or age leaves its range.                           *)
LEMMA TypeStep == TypeOK /\ [Next]_vars => TypeOK'
<1> USE ConstantsAssumption
<1> SUFFICES ASSUME TypeOK, [Next]_vars PROVE TypeOK'
  OBVIOUS
<1> USE DEF TypeOK
<1>1. ASSUME NEW s \in Sessions, Upgrade(s) PROVE TypeOK'
  BY <1>1 DEF Upgrade, mapVars, openerVars, cleanVars, HandlerPc, SessState
<1>2. ASSUME NEW s \in Sessions, UpgradeFails(s) PROVE TypeOK'
  BY <1>2 DEF UpgradeFails, mapVars, connVars, openerVars, cleanVars, HandlerPc
<1>3. ASSUME NEW s \in Sessions, SetSession(s) PROVE TypeOK'
  BY <1>3 DEF SetSession, connVars, openerVars, cleanVars, HandlerPc
<1>4. ASSUME NEW s \in Sessions, CountNew(s) PROVE TypeOK'
  BY <1>4 DEF CountNew, mapVars, connVars, openerVars, cleanVars, HandlerPc
<1>5. ASSUME NEW s \in Sessions, UncountOld(s) PROVE TypeOK'
  BY <1>5 DEF UncountOld, mapVars, connVars, openerVars, cleanVars, HandlerPc
<1>6. ASSUME NEW s \in Sessions, CloseOld(s) PROVE TypeOK'
  <2>1. CloseSession(old[s])
    BY <1>6 DEF CloseOld
  <2> QED
    BY <1>6, <2>1, CloseType DEF CloseOld, mapVars, openerVars, cleanVars, HandlerPc
<1>7. ASSUME NEW s \in Sessions, ClearSession(s) PROVE TypeOK'
  BY <1>7 DEF ClearSession, Unmap, mapVars, connVars, openerVars, cleanVars, HandlerPc
<1>8. ASSUME NEW s \in Sessions, PeerOpens(s) PROVE TypeOK'
  BY <1>8 DEF PeerOpens, mapVars, handlerVars, openerVars, cleanVars
<1>9. ASSUME NEW s \in Sessions, StreamEnds(s) PROVE TypeOK'
  BY <1>9 DEF StreamEnds, mapVars, handlerVars, openerVars, cleanVars
<1>10. ASSUME NEW s \in Sessions, TransportFails(s) PROVE TypeOK'
  BY <1>10 DEF TransportFails, mapVars, handlerVars, openerVars, cleanVars, SessState
<1>11. ASSUME NEW s \in Sessions, KeepAliveCloses(s) PROVE TypeOK'
  BY <1>11 DEF KeepAliveCloses, CloseSession, mapVars, handlerVars, openerVars, cleanVars, SessState
<1>12. ASSUME NEW o \in Openers, OpenBegin(o) PROVE TypeOK'
  BY <1>12 DEF OpenBegin, Occupied, mapVars, connVars, handlerVars, cleanVars, OpenerPc
<1>13. ASSUME NEW o \in Openers, NEW k \in Keys, OpenVisit(o, k) PROVE TypeOK'
  BY <1>13 DEF OpenVisit, mapVars, connVars, handlerVars, cleanVars, OpenerPc
<1>14. ASSUME NEW o \in Openers, OpenOk(o) PROVE TypeOK'
  <2>1. rstreams' \in [Sessions -> Nat]
    <3>1. oCur[o] \in Sessions => rstreams[oCur[o]] + 1 \in Nat
      OBVIOUS
    <3>2. rstreams \in [Sessions -> Nat]
      OBVIOUS
    <3>3. ASSUME NEW x, NEW v, x \in Sessions => v \in Nat
          PROVE  [rstreams EXCEPT ![x] = v] \in [Sessions -> Nat]
      BY ONLY <3>2, <3>3, ExceptType, Zenon
    <3>4. [rstreams EXCEPT ![oCur[o]] = rstreams[oCur[o]] + 1] \in [Sessions -> Nat]
      BY ONLY <3>1, <3>3, Zenon
    <3> QED BY <1>14, <3>4 DEF OpenOk
  <2> QED
    BY <1>14, <2>1 DEF OpenOk, mapVars, handlerVars, cleanVars, OpenerPc
<1>15. ASSUME NEW o \in Openers, OpenError(o) PROVE TypeOK'
  <2>1. CloseSession(oCur[o])
    BY <1>15 DEF OpenError
  <2> QED
    BY <1>15, <2>1, CloseType DEF OpenError, mapVars, handlerVars, cleanVars, OpenerPc
<1>16. ASSUME NEW o \in Openers, OpenFail(o) PROVE TypeOK'
  BY <1>16 DEF OpenFail, mapVars, connVars, handlerVars, cleanVars, OpenerPc
<1>17. CASE CleanBegin
  BY <1>17 DEF CleanBegin, Occupied, mapVars, connVars, handlerVars, openerVars, CleanPc
<1>18. ASSUME NEW k \in Keys, CleanVisit(k) PROVE TypeOK'
  BY <1>18 DEF CleanVisit, Unmap, mapVars, connVars, handlerVars, openerVars, CleanPc
<1>19. CASE CleanKill
  <2>1. CloseSession(sessions[cKey])
    BY <1>19 DEF CleanKill
  <2> QED
    BY <1>19, <2>1, CloseType DEF CleanKill, Unmap, handlerVars, openerVars, CleanPc
<1>20. CASE CleanEnd
  BY <1>20 DEF CleanEnd, mapVars, connVars, handlerVars, openerVars, CleanPc
<1>21. CASE Tick
  BY <1>21 DEF Tick, connVars, handlerVars, openerVars, cleanVars
<1>22. CASE UNCHANGED vars
  BY <1>22 DEF vars
<1> QED
  BY <1>1, <1>2, <1>3, <1>4, <1>5, <1>6, <1>7, <1>8, <1>9, <1>10, <1>11, <1>12,
     <1>13, <1>14, <1>15, <1>16, <1>17, <1>18, <1>19, <1>20, <1>21, <1>22
     DEF Next, Step, HandlerStep, OpenerStep, CleanStep

(* The initial state has the types.                                        *)
LEMMA TypeInit == Init => TypeOK
  BY ConstantsAssumption DEF Init, TypeOK, SessState, HandlerPc, OpenerPc, CleanPc

(* The registry never leaves its types, whatever the interleaving.         *)
THEOREM TypeCorrect == Spec => []TypeOK
  BY TypeInit, TypeStep, PTL DEF Spec
-----------------------------------------------------------------------------
(* The lock: while the cleanup loop runs no caller of openStream is inside *)
(* its section and no handler changes the map.                             *)
LEMMA LockStep == StructInv /\ [Next]_vars => LockDiscipline'
<1> USE ConstantsAssumption
<1> SUFFICES ASSUME StructInv, [Next]_vars PROVE LockDiscipline'
  OBVIOUS
<1> USE DEF StructInv, TypeOK, LockDiscipline, Readers, Occupied
<1>1. ASSUME NEW s \in Sessions, Upgrade(s) PROVE LockDiscipline'
  BY <1>1 DEF Upgrade, mapVars, openerVars, cleanVars
<1>2. ASSUME NEW s \in Sessions, UpgradeFails(s) PROVE LockDiscipline'
  BY <1>2 DEF UpgradeFails, mapVars, connVars, openerVars, cleanVars
<1>3. ASSUME NEW s \in Sessions, SetSession(s) PROVE LockDiscipline'
  BY <1>3 DEF SetSession, connVars, openerVars, cleanVars, CanLock
<1>4. ASSUME NEW s \in Sessions, CountNew(s) PROVE LockDiscipline'
  BY <1>4 DEF CountNew, mapVars, connVars, openerVars, cleanVars
<1>5. ASSUME NEW s \in Sessions, UncountOld(s) PROVE LockDiscipline'
  BY <1>5 DEF UncountOld, mapVars, connVars, openerVars, cleanVars
<1>6. ASSUME NEW s \in Sessions, CloseOld(s) PROVE LockDiscipline'
  BY <1>6 DEF CloseOld, CloseSession, mapVars, openerVars, cleanVars
<1>7. ASSUME NEW s \in Sessions, ClearSession(s) PROVE LockDiscipline'
  BY <1>7 DEF ClearSession, CanLock, Unmap, mapVars, connVars, openerVars, cleanVars
<1>8. ASSUME NEW s \in Sessions, PeerOpens(s) PROVE LockDiscipline'
  BY <1>8 DEF PeerOpens, mapVars, handlerVars, openerVars, cleanVars
<1>9. ASSUME NEW s \in Sessions, StreamEnds(s) PROVE LockDiscipline'
  BY <1>9 DEF StreamEnds, mapVars, handlerVars, openerVars, cleanVars
<1>10. ASSUME NEW s \in Sessions, TransportFails(s) PROVE LockDiscipline'
  BY <1>10 DEF TransportFails, mapVars, handlerVars, openerVars, cleanVars
<1>11. ASSUME NEW s \in Sessions, KeepAliveCloses(s) PROVE LockDiscipline'
  BY <1>11 DEF KeepAliveCloses, CloseSession, mapVars, handlerVars, openerVars, cleanVars
<1>12. ASSUME NEW o \in Openers, OpenBegin(o) PROVE LockDiscipline'
  BY <1>12 DEF OpenBegin, CanRLock, mapVars, connVars, handlerVars, cleanVars
<1>13. ASSUME NEW o \in Openers, NEW k \in Keys, OpenVisit(o, k) PROVE LockDiscipline'
  BY <1>13 DEF OpenVisit, mapVars, connVars, handlerVars, cleanVars
<1>14. ASSUME NEW o \in Openers, OpenOk(o) PROVE LockDiscipline'
  BY <1>14 DEF OpenOk, mapVars, handlerVars, cleanVars
<1>15. ASSUME NEW o \in Openers, OpenError(o) PROVE LockDiscipline'
  BY <1>15 DEF OpenError, CloseSession, mapVars, handlerVars, cleanVars
<1>16. ASSUME NEW o \in Openers, OpenFail(o) PROVE LockDiscipline'
  BY <1>16 DEF OpenFail, mapVars, connVars, handlerVars, cleanVars
<1>17. CASE CleanBegin
  BY <1>17 DEF CleanBegin, CanLock, mapVars, connVars, handlerVars, openerVars
<1>18. ASSUME NEW k \in Keys, CleanVisit(k) PROVE LockDiscipline'
  BY <1>18 DEF CleanVisit, Unmap, mapVars, connVars, handlerVars, openerVars
<1>19. CASE CleanKill
  BY <1>19 DEF CleanKill, CloseSession, Unmap, handlerVars, openerVars
<1>20. CASE CleanEnd
  BY <1>20 DEF CleanEnd, mapVars, connVars, handlerVars, openerVars
<1>21. CASE Tick
  BY <1>21 DEF Tick, connVars, handlerVars, openerVars, cleanVars
<1>22. CASE UNCHANGED vars
  BY <1>22 DEF vars
<1> QED
  BY <1>1, <1>2, <1>3, <1>4, <1>5, <1>6, <1>7, <1>8, <1>9, <1>10, <1>11,
     <1>12, <1>13, <1>14, <1>15, <1>16, <1>17, <1>18, <1>19, <1>20, <1>21,
     <1>22
     DEF Next, Step, HandlerStep, OpenerStep, CleanStep

(* The map: an entry belongs to a session whose handler registered it      *)
(* under that key.                                                         *)
LEMMA RegisteredStep == StructInv /\ [Next]_vars => Registered'
<1> USE ConstantsAssumption
<1> SUFFICES ASSUME StructInv, [Next]_vars PROVE Registered'
  OBVIOUS
<1> USE DEF StructInv, TypeOK, Registered
<1>1. ASSUME NEW s \in Sessions, Upgrade(s) PROVE Registered'
  BY <1>1 DEF Upgrade, mapVars, openerVars, cleanVars
<1>2. ASSUME NEW s \in Sessions, UpgradeFails(s) PROVE Registered'
  BY <1>2 DEF UpgradeFails, mapVars, connVars, openerVars, cleanVars
<1>3. ASSUME NEW s \in Sessions, SetSession(s) PROVE Registered'
  BY <1>3 DEF SetSession, connVars, openerVars, cleanVars, CanLock
<1>4. ASSUME NEW s \in Sessions, CountNew(s) PROVE Registered'
  BY <1>4 DEF CountNew, mapVars, connVars, openerVars, cleanVars
<1>5. ASSUME NEW s \in Sessions, UncountOld(s) PROVE Registered'
  BY <1>5 DEF UncountOld, mapVars, connVars, openerVars, cleanVars
<1>6. ASSUME NEW s \in Sessions, CloseOld(s) PROVE Registered'
  BY <1>6 DEF CloseOld, CloseSession, mapVars, openerVars, cleanVars
<1>7. ASSUME NEW s \in Sessions, ClearSession(s) PROVE Registered'
  BY <1>7 DEF ClearSession, CanLock, Unmap, mapVars, connVars, openerVars, cleanVars
<1>8. ASSUME NEW s \in Sessions, PeerOpens(s) PROVE Registered'
  BY <1>8 DEF PeerOpens, mapVars, handlerVars, openerVars, cleanVars
<1>9. ASSUME NEW s \in Sessions, StreamEnds(s) PROVE Registered'
  BY <1>9 DEF StreamEnds, mapVars, handlerVars, openerVars, cleanVars
<1>10. ASSUME NEW s \in Sessions, TransportFails(s) PROVE Registered'
  BY <1>10 DEF TransportFails, mapVars, handlerVars, openerVars, cleanVars
<1>11. ASSUME NEW s \in Sessions, KeepAliveCloses(s) PROVE Registered'
  BY <1>11 DEF KeepAliveCloses, CloseSession, mapVars, handlerVars, openerVars, cleanVars
<1>12. ASSUME NEW o \in Openers, OpenBegin(o) PROVE Registered'
  BY <1>12 DEF OpenBegin, CanRLock, mapVars, connVars, handlerVars, cleanVars
<1>13. ASSUME NEW o \in Openers, NEW k \in Keys, OpenVisit(o, k) PROVE Registered'
  BY <1>13 DEF OpenVisit, mapVars, connVars, handlerVars, cleanVars
<1>14. ASSUME NEW o \in Openers, OpenOk(o) PROVE Registered'
  BY <1>14 DEF OpenOk, mapVars, handlerVars, cleanVars
<1>15. ASSUME NEW o \in Openers, OpenError(o) PROVE Registered'
  BY <1>15 DEF OpenError, CloseSession, mapVars, handlerVars, cleanVars
<1>16. ASSUME NEW o \in Openers, OpenFail(o) PROVE Registered'
  BY <1>16 DEF OpenFail, mapVars, connVars, handlerVars, cleanVars
<1>17. CASE CleanBegin
  BY <1>17 DEF CleanBegin, CanLock, mapVars, connVars, handlerVars, openerVars
<1>18. ASSUME NEW k \in Keys, CleanVisit(k) PROVE Registered'
  BY <1>18 DEF CleanVisit, Unmap, mapVars, connVars, handlerVars, openerVars
<1>19. CASE CleanKill
  BY <1>19 DEF CleanKill, CloseSession, Unmap, handlerVars, openerVars
<1>20. CASE CleanEnd
  BY <1>20 DEF CleanEnd, mapVars, connVars, handlerVars, openerVars
<1>21. CASE Tick
  BY <1>21 DEF Tick, connVars, handlerVars, openerVars, cleanVars
<1>22. CASE UNCHANGED vars
  BY <1>22 DEF vars
<1> QED
  BY <1>1, <1>2, <1>3, <1>4, <1>5, <1>6, <1>7, <1>8, <1>9, <1>10, <1>11,
     <1>12, <1>13, <1>14, <1>15, <1>16, <1>17, <1>18, <1>19, <1>20, <1>21,
     <1>22
     DEF Next, Step, HandlerStep, OpenerStep, CleanStep

(* The handlers: one that has not started has no live session, and one that*)
(* is about to uncount and close a replaced session has found one.         *)
LEMMA HandlerInvStep == StructInv /\ [Next]_vars => HandlerInv'
<1> USE ConstantsAssumption
<1> SUFFICES ASSUME StructInv, [Next]_vars PROVE HandlerInv'
  OBVIOUS
<1> USE DEF StructInv, TypeOK, HandlerInv
<1>1. ASSUME NEW s \in Sessions, Upgrade(s) PROVE HandlerInv'
  BY <1>1 DEF Upgrade, mapVars, openerVars, cleanVars
<1>2. ASSUME NEW s \in Sessions, UpgradeFails(s) PROVE HandlerInv'
  BY <1>2 DEF UpgradeFails, mapVars, connVars, openerVars, cleanVars
<1>3. ASSUME NEW s \in Sessions, SetSession(s) PROVE HandlerInv'
  BY <1>3 DEF SetSession, connVars, openerVars, cleanVars, CanLock
<1>4. ASSUME NEW s \in Sessions, CountNew(s) PROVE HandlerInv'
  BY <1>4 DEF CountNew, mapVars, connVars, openerVars, cleanVars
<1>5. ASSUME NEW s \in Sessions, UncountOld(s) PROVE HandlerInv'
  BY <1>5 DEF UncountOld, mapVars, connVars, openerVars, cleanVars
<1>6. ASSUME NEW s \in Sessions, CloseOld(s) PROVE HandlerInv'
  BY <1>6 DEF CloseOld, CloseSession, mapVars, openerVars, cleanVars
<1>7. ASSUME NEW s \in Sessions, ClearSession(s) PROVE HandlerInv'
  BY <1>7 DEF ClearSession, CanLock, Unmap, mapVars, connVars, openerVars, cleanVars
<1>8. ASSUME NEW s \in Sessions, PeerOpens(s) PROVE HandlerInv'
  BY <1>8 DEF PeerOpens, mapVars, handlerVars, openerVars, cleanVars
<1>9. ASSUME NEW s \in Sessions, StreamEnds(s) PROVE HandlerInv'
  BY <1>9 DEF StreamEnds, mapVars, handlerVars, openerVars, cleanVars
<1>10. ASSUME NEW s \in Sessions, TransportFails(s) PROVE HandlerInv'
  BY <1>10 DEF TransportFails, mapVars, handlerVars, openerVars, cleanVars
<1>11. ASSUME NEW s \in Sessions, KeepAliveCloses(s) PROVE HandlerInv'
  BY <1>11 DEF KeepAliveCloses, CloseSession, mapVars, handlerVars, openerVars, cleanVars
<1>12. ASSUME NEW o \in Openers, OpenBegin(o) PROVE HandlerInv'
  BY <1>12 DEF OpenBegin, CanRLock, mapVars, connVars, handlerVars, cleanVars
<1>13. ASSUME NEW o \in Openers, NEW k \in Keys, OpenVisit(o, k) PROVE HandlerInv'
  BY <1>13 DEF OpenVisit, mapVars, connVars, handlerVars, cleanVars
<1>14. ASSUME NEW o \in Openers, OpenOk(o) PROVE HandlerInv'
  BY <1>14 DEF OpenOk, mapVars, handlerVars, cleanVars
<1>15. ASSUME NEW o \in Openers, OpenError(o) PROVE HandlerInv'
  BY <1>15 DEF OpenError, CloseSession, mapVars, handlerVars, cleanVars
<1>16. ASSUME NEW o \in Openers, OpenFail(o) PROVE HandlerInv'
  BY <1>16 DEF OpenFail, mapVars, connVars, handlerVars, cleanVars
<1>17. CASE CleanBegin
  BY <1>17 DEF CleanBegin, CanLock, mapVars, connVars, handlerVars, openerVars
<1>18. ASSUME NEW k \in Keys, CleanVisit(k) PROVE HandlerInv'
  BY <1>18 DEF CleanVisit, Unmap, mapVars, connVars, handlerVars, openerVars
<1>19. CASE CleanKill
  BY <1>19 DEF CleanKill, CloseSession, Unmap, handlerVars, openerVars
<1>20. CASE CleanEnd
  BY <1>20 DEF CleanEnd, mapVars, connVars, handlerVars, openerVars
<1>21. CASE Tick
  BY <1>21 DEF Tick, connVars, handlerVars, openerVars, cleanVars
<1>22. CASE UNCHANGED vars
  BY <1>22 DEF vars
<1> QED
  BY <1>1, <1>2, <1>3, <1>4, <1>5, <1>6, <1>7, <1>8, <1>9, <1>10, <1>11,
     <1>12, <1>13, <1>14, <1>15, <1>16, <1>17, <1>18, <1>19, <1>20, <1>21,
     <1>22
     DEF Next, Step, HandlerStep, OpenerStep, CleanStep

(* The structural invariant holds in every reachable state.                *)
LEMMA StructCorrect == Spec => []StructInv
<1>1. Init => StructInv
  BY TypeInit DEF Init, StructInv, LockDiscipline, Registered, HandlerInv
<1>2. StructInv /\ [Next]_vars => StructInv'
  BY TypeStep, LockStep, RegisteredStep, HandlerInvStep DEF StructInv
<1> QED
  BY <1>1, <1>2, PTL DEF Spec

-----------------------------------------------------------------------------
(* No registered session is lost by a step.                                *)
LEMMA NoOrphanStep == StructInv /\ NoOrphan /\ [Next]_vars => NoOrphan'
<1> USE ConstantsAssumption
<1> SUFFICES ASSUME StructInv, NoOrphan, [Next]_vars PROVE NoOrphan'
  OBVIOUS
<1> USE DEF StructInv, TypeOK, Registered, HandlerInv, NoOrphan
<1>1. ASSUME NEW s \in Sessions, Upgrade(s) PROVE NoOrphan'
  BY <1>1 DEF Upgrade, mapVars, openerVars, cleanVars
<1>2. ASSUME NEW s \in Sessions, UpgradeFails(s) PROVE NoOrphan'
  BY <1>2 DEF UpgradeFails, mapVars, connVars, openerVars, cleanVars
<1>3. ASSUME NEW s \in Sessions, SetSession(s) PROVE NoOrphan'
  BY <1>3 DEF SetSession, connVars, openerVars, cleanVars, CanLock
<1>4. ASSUME NEW s \in Sessions, CountNew(s) PROVE NoOrphan'
  BY <1>4 DEF CountNew, mapVars, connVars, openerVars, cleanVars
<1>5. ASSUME NEW s \in Sessions, UncountOld(s) PROVE NoOrphan'
  BY <1>5 DEF UncountOld, mapVars, connVars, openerVars, cleanVars
<1>6. ASSUME NEW s \in Sessions, CloseOld(s) PROVE NoOrphan'
  BY <1>6 DEF CloseOld, CloseSession, mapVars, openerVars, cleanVars
<1>7. ASSUME NEW s \in Sessions, ClearSession(s) PROVE NoOrphan'
  BY <1>7 DEF ClearSession, CanLock, Unmap, mapVars, connVars, openerVars, cleanVars
<1>8. ASSUME NEW s \in Sessions, PeerOpens(s) PROVE NoOrphan'
  BY <1>8 DEF PeerOpens, mapVars, handlerVars, openerVars, cleanVars
<1>9. ASSUME NEW s \in Sessions, StreamEnds(s) PROVE NoOrphan'
  BY <1>9 DEF StreamEnds, mapVars, handlerVars, openerVars, cleanVars
<1>10. ASSUME NEW s \in Sessions, TransportFails(s) PROVE NoOrphan'
  BY <1>10 DEF TransportFails, mapVars, handlerVars, openerVars, cleanVars
<1>11. ASSUME NEW s \in Sessions, KeepAliveCloses(s) PROVE NoOrphan'
  BY <1>11 DEF KeepAliveCloses, CloseSession, mapVars, handlerVars, openerVars, cleanVars
<1>12. ASSUME NEW o \in Openers, OpenBegin(o) PROVE NoOrphan'
  BY <1>12 DEF OpenBegin, CanRLock, mapVars, connVars, handlerVars, cleanVars
<1>13. ASSUME NEW o \in Openers, NEW k \in Keys, OpenVisit(o, k) PROVE NoOrphan'
  BY <1>13 DEF OpenVisit, mapVars, connVars, handlerVars, cleanVars
<1>14. ASSUME NEW o \in Openers, OpenOk(o) PROVE NoOrphan'
  BY <1>14 DEF OpenOk, mapVars, handlerVars, cleanVars
<1>15. ASSUME NEW o \in Openers, OpenError(o) PROVE NoOrphan'
  BY <1>15 DEF OpenError, CloseSession, mapVars, handlerVars, cleanVars
<1>16. ASSUME NEW o \in Openers, OpenFail(o) PROVE NoOrphan'
  BY <1>16 DEF OpenFail, mapVars, connVars, handlerVars, cleanVars
<1>17. CASE CleanBegin
  BY <1>17 DEF CleanBegin, CanLock, mapVars, connVars, handlerVars, openerVars
<1>18. ASSUME NEW k \in Keys, CleanVisit(k) PROVE NoOrphan'
  BY <1>18 DEF CleanVisit, Unmap, mapVars, connVars, handlerVars, openerVars
<1>19. CASE CleanKill
  BY <1>19 DEF CleanKill, CloseSession, Unmap, handlerVars, openerVars
<1>20. CASE CleanEnd
  BY <1>20 DEF CleanEnd, mapVars, connVars, handlerVars, openerVars
<1>21. CASE Tick
  BY <1>21 DEF Tick, connVars, handlerVars, openerVars, cleanVars
<1>22. CASE UNCHANGED vars
  BY <1>22 DEF vars
<1> QED
  BY <1>1, <1>2, <1>3, <1>4, <1>5, <1>6, <1>7, <1>8, <1>9, <1>10, <1>11,
     <1>12, <1>13, <1>14, <1>15, <1>16, <1>17, <1>18, <1>19, <1>20, <1>21,
     <1>22
     DEF Next, Step, HandlerStep, OpenerStep, CleanStep

(* A live, registered session is always in the map or about to be closed   *)
(* by the handler that replaced it: clearSession's identity check is       *)
(* enough, for any number of handlers that share an address.               *)
THEOREM NoOrphanCorrect == Spec => []NoOrphan
<1>1. Init => NoOrphan
  BY DEF Init, NoOrphan
<1> QED
  BY <1>1, NoOrphanStep, StructCorrect, PTL DEF Spec
-----------------------------------------------------------------------------
(* The zombie the cleanup loop has chosen gets no reverse stream.          *)
LEMMA ZombieStep ==
    StructInv /\ ZombieCarriesNoReverse /\ [Next]_vars => ZombieCarriesNoReverse'
<1> USE ConstantsAssumption
<1> SUFFICES ASSUME StructInv, ZombieCarriesNoReverse, [Next]_vars
             PROVE  ZombieCarriesNoReverse'
  OBVIOUS
<1> USE DEF StructInv, TypeOK, LockDiscipline, Readers, Occupied, Opening,
            ZombieCarriesNoReverse
<1>1. ASSUME NEW s \in Sessions, Upgrade(s) PROVE ZombieCarriesNoReverse'
  BY <1>1 DEF Upgrade, mapVars, openerVars, cleanVars
<1>2. ASSUME NEW s \in Sessions, UpgradeFails(s) PROVE ZombieCarriesNoReverse'
  BY <1>2 DEF UpgradeFails, mapVars, connVars, openerVars, cleanVars
<1>3. ASSUME NEW s \in Sessions, SetSession(s) PROVE ZombieCarriesNoReverse'
  BY <1>3 DEF SetSession, connVars, openerVars, cleanVars, CanLock
<1>4. ASSUME NEW s \in Sessions, CountNew(s) PROVE ZombieCarriesNoReverse'
  BY <1>4 DEF CountNew, mapVars, connVars, openerVars, cleanVars
<1>5. ASSUME NEW s \in Sessions, UncountOld(s) PROVE ZombieCarriesNoReverse'
  BY <1>5 DEF UncountOld, mapVars, connVars, openerVars, cleanVars
<1>6. ASSUME NEW s \in Sessions, CloseOld(s) PROVE ZombieCarriesNoReverse'
  BY <1>6 DEF CloseOld, CloseSession, mapVars, openerVars, cleanVars
<1>7. ASSUME NEW s \in Sessions, ClearSession(s) PROVE ZombieCarriesNoReverse'
  BY <1>7 DEF ClearSession, CanLock, Unmap, mapVars, connVars, openerVars, cleanVars
<1>8. ASSUME NEW s \in Sessions, PeerOpens(s) PROVE ZombieCarriesNoReverse'
  BY <1>8 DEF PeerOpens, mapVars, handlerVars, openerVars, cleanVars
<1>9. ASSUME NEW s \in Sessions, StreamEnds(s) PROVE ZombieCarriesNoReverse'
  BY <1>9 DEF StreamEnds, mapVars, handlerVars, openerVars, cleanVars
<1>10. ASSUME NEW s \in Sessions, TransportFails(s) PROVE ZombieCarriesNoReverse'
  BY <1>10 DEF TransportFails, mapVars, handlerVars, openerVars, cleanVars
<1>11. ASSUME NEW s \in Sessions, KeepAliveCloses(s) PROVE ZombieCarriesNoReverse'
  BY <1>11 DEF KeepAliveCloses, CloseSession, mapVars, handlerVars, openerVars, cleanVars
<1>12. ASSUME NEW o \in Openers, OpenBegin(o) PROVE ZombieCarriesNoReverse'
  BY <1>12 DEF OpenBegin, CanRLock, mapVars, connVars, handlerVars, cleanVars
<1>13. ASSUME NEW o \in Openers, NEW k \in Keys, OpenVisit(o, k) PROVE ZombieCarriesNoReverse'
  BY <1>13 DEF OpenVisit, mapVars, connVars, handlerVars, cleanVars
<1>14. ASSUME NEW o \in Openers, OpenOk(o) PROVE ZombieCarriesNoReverse'
  BY <1>14 DEF OpenOk, mapVars, handlerVars, cleanVars
<1>15. ASSUME NEW o \in Openers, OpenError(o) PROVE ZombieCarriesNoReverse'
  BY <1>15 DEF OpenError, CloseSession, mapVars, handlerVars, cleanVars
<1>16. ASSUME NEW o \in Openers, OpenFail(o) PROVE ZombieCarriesNoReverse'
  BY <1>16 DEF OpenFail, mapVars, connVars, handlerVars, cleanVars
<1>17. CASE CleanBegin
  BY <1>17 DEF CleanBegin, CanLock, mapVars, connVars, handlerVars, openerVars
<1>18. ASSUME NEW k \in Keys, CleanVisit(k) PROVE ZombieCarriesNoReverse'
  BY <1>18 DEF CleanVisit, IsZombie, NumStreams, Unmap, mapVars, connVars,
            handlerVars, openerVars
<1>19. CASE CleanKill
  BY <1>19 DEF CleanKill, CloseSession, Unmap, handlerVars, openerVars
<1>20. CASE CleanEnd
  BY <1>20 DEF CleanEnd, mapVars, connVars, handlerVars, openerVars
<1>21. CASE Tick
  BY <1>21 DEF Tick, connVars, handlerVars, openerVars, cleanVars
<1>22. CASE UNCHANGED vars
  BY <1>22 DEF vars
<1> QED
  BY <1>1, <1>2, <1>3, <1>4, <1>5, <1>6, <1>7, <1>8, <1>9, <1>10, <1>11,
     <1>12, <1>13, <1>14, <1>15, <1>16, <1>17, <1>18, <1>19, <1>20, <1>21,
     <1>22
     DEF Next, Step, HandlerStep, OpenerStep, CleanStep

(* cleanupSessions never closes a session that carries, or is about to     *)
(* carry, a reverse stream: the write lock it holds excludes openStream.   *)
THEOREM ZombieCorrect == Spec => []ZombieCarriesNoReverse
<1>1. Init => ZombieCarriesNoReverse
  BY DEF Init, ZombieCarriesNoReverse
<1> QED
  BY <1>1, ZombieStep, StructCorrect, PTL DEF Spec
-----------------------------------------------------------------------------
(* The sets the gauge is compared with are finite.                         *)
LEMMA GaugeSets ==
    /\ IsFiniteSet(Occupied) /\ IsFiniteSet(Uncounted) /\ IsFiniteSet(CountedTwice)
    /\ Cardinality(Occupied) \in Nat
    /\ Cardinality(Uncounted) \in Nat
    /\ Cardinality(CountedTwice) \in Nat
<1>1. Occupied \subseteq Keys /\ Uncounted \subseteq Sessions /\ CountedTwice \subseteq Sessions
  BY DEF Occupied, Uncounted, CountedTwice
<1> QED
  BY <1>1, ConstantsAssumption, FS_Subset, FS_CardinalityType

(* Adding or removing one element changes a cardinality by one.            *)
LEMMA AddCard ==
  ASSUME NEW S, IsFiniteSet(S), NEW x, x \notin S
  PROVE  Cardinality(S \cup {x}) = Cardinality(S) + 1
  BY FS_AddElement

LEMMA RemoveCard ==
  ASSUME NEW S, IsFiniteSet(S), NEW x, x \in S
  PROVE  Cardinality(S \ {x}) = Cardinality(S) - 1
  BY FS_RemoveElement

(* Every step keeps the gauge equal to the map, up to the calls halfway.   *)
LEMMA GaugeStep == StructInv /\ GaugeMatchesMap /\ [Next]_vars => GaugeMatchesMap'
<1> USE ConstantsAssumption
<1> SUFFICES ASSUME StructInv, GaugeMatchesMap, [Next]_vars PROVE GaugeMatchesMap'
  OBVIOUS
<1> USE DEF StructInv, TypeOK
<1>1. ASSUME NEW s \in Sessions, Upgrade(s) PROVE GaugeMatchesMap'
  <2>1. Occupied' = Occupied /\ Uncounted' = Uncounted /\ CountedTwice' = CountedTwice
    BY <1>1 DEF Upgrade, mapVars, openerVars, cleanVars, Occupied, Uncounted, CountedTwice
  <2>2. activeSessions' = activeSessions
    BY <1>1 DEF Upgrade
  <2> QED BY <2>1, <2>2 DEF GaugeMatchesMap
<1>2. ASSUME NEW s \in Sessions, UpgradeFails(s) PROVE GaugeMatchesMap'
  <2>1. Occupied' = Occupied /\ Uncounted' = Uncounted /\ CountedTwice' = CountedTwice
    BY <1>2 DEF UpgradeFails, mapVars, connVars, openerVars, cleanVars, Occupied, Uncounted, CountedTwice
  <2>2. activeSessions' = activeSessions
    BY <1>2 DEF UpgradeFails
  <2> QED BY <2>1, <2>2 DEF GaugeMatchesMap
<1>3. ASSUME NEW s \in Sessions, SetSession(s) PROVE GaugeMatchesMap'
  <2>1. CountedTwice' = CountedTwice /\ activeSessions' = activeSessions
    BY <1>3 DEF SetSession, CountedTwice
  <2>2. CASE sessions[key[s]] = NoSession
    <3>1. Occupied' = Occupied \cup {key[s]} /\ key[s] \notin Occupied
      BY <1>3, <2>2 DEF SetSession, Occupied
    <3>2. Uncounted' = Uncounted \cup {s} /\ s \notin Uncounted
      BY <1>3, <2>2 DEF SetSession, Uncounted
    <3> QED BY <2>1, <3>1, <3>2, GaugeSets, AddCard DEF GaugeMatchesMap
  <2>3. CASE sessions[key[s]] # NoSession
    <3>1. Occupied' = Occupied /\ Uncounted' = Uncounted
      BY <1>3, <2>3 DEF SetSession, Occupied, Uncounted
    <3> QED BY <2>1, <3>1 DEF GaugeMatchesMap
  <2> QED BY <2>2, <2>3
<1>4. ASSUME NEW s \in Sessions, CountNew(s) PROVE GaugeMatchesMap'
  <2>1. Occupied' = Occupied /\ activeSessions' = activeSessions + 1
    BY <1>4 DEF CountNew, mapVars, Occupied
  <2>2. CASE old[s] = NoSession
    <3>1. Uncounted' = Uncounted \ {s} /\ s \in Uncounted
      BY <1>4, <2>2 DEF CountNew, Uncounted
    <3>2. CountedTwice' = CountedTwice
      BY <1>4, <2>2 DEF CountNew, CountedTwice
    <3> QED BY <2>1, <3>1, <3>2, GaugeSets, RemoveCard DEF GaugeMatchesMap
  <2>3. CASE old[s] # NoSession
    <3>1. Uncounted' = Uncounted
      BY <1>4, <2>3 DEF CountNew, Uncounted
    <3>2. CountedTwice' = CountedTwice \cup {s} /\ s \notin CountedTwice
      BY <1>4, <2>3 DEF CountNew, CountedTwice
    <3> QED BY <2>1, <3>1, <3>2, GaugeSets, AddCard DEF GaugeMatchesMap
  <2> QED BY <2>2, <2>3
<1>5. ASSUME NEW s \in Sessions, UncountOld(s) PROVE GaugeMatchesMap'
  <2>1. Occupied' = Occupied /\ Uncounted' = Uncounted
    BY <1>5 DEF UncountOld, mapVars, Occupied, Uncounted
  <2>2. CountedTwice' = CountedTwice \ {s} /\ s \in CountedTwice
    BY <1>5 DEF UncountOld, CountedTwice
  <2>3. activeSessions' = activeSessions - 1
    BY <1>5 DEF UncountOld
  <2> QED BY <2>1, <2>2, <2>3, GaugeSets, RemoveCard DEF GaugeMatchesMap
<1>6. ASSUME NEW s \in Sessions, CloseOld(s) PROVE GaugeMatchesMap'
  <2>1. Occupied' = Occupied /\ Uncounted' = Uncounted /\ CountedTwice' = CountedTwice
    BY <1>6 DEF CloseOld, CloseSession, mapVars, openerVars, cleanVars, Occupied, Uncounted, CountedTwice
  <2>2. activeSessions' = activeSessions
    BY <1>6 DEF CloseOld
  <2> QED BY <2>1, <2>2 DEF GaugeMatchesMap
<1>7. ASSUME NEW s \in Sessions, ClearSession(s) PROVE GaugeMatchesMap'
  <2>1. Uncounted' = Uncounted /\ CountedTwice' = CountedTwice
    BY <1>7 DEF ClearSession, Uncounted, CountedTwice
  <2>2. CASE sessions[key[s]] = s
    <3>1. Occupied' = Occupied \ {key[s]} /\ key[s] \in Occupied
      BY <1>7, <2>2 DEF ClearSession, Unmap, Occupied
    <3>2. activeSessions' = activeSessions - 1
      BY <1>7, <2>2 DEF ClearSession, Unmap
    <3> QED BY <2>1, <3>1, <3>2, GaugeSets, RemoveCard DEF GaugeMatchesMap
  <2>3. CASE sessions[key[s]] # s
    BY <1>7, <2>1, <2>3 DEF ClearSession, mapVars, Occupied, GaugeMatchesMap
  <2> QED BY <2>2, <2>3
<1>8. ASSUME NEW s \in Sessions, PeerOpens(s) PROVE GaugeMatchesMap'
  <2>1. Occupied' = Occupied /\ Uncounted' = Uncounted /\ CountedTwice' = CountedTwice
    BY <1>8 DEF PeerOpens, mapVars, handlerVars, openerVars, cleanVars, Occupied, Uncounted, CountedTwice
  <2>2. activeSessions' = activeSessions
    BY <1>8 DEF PeerOpens
  <2> QED BY <2>1, <2>2 DEF GaugeMatchesMap
<1>9. ASSUME NEW s \in Sessions, StreamEnds(s) PROVE GaugeMatchesMap'
  <2>1. Occupied' = Occupied /\ Uncounted' = Uncounted /\ CountedTwice' = CountedTwice
    BY <1>9 DEF StreamEnds, mapVars, handlerVars, openerVars, cleanVars, Occupied, Uncounted, CountedTwice
  <2>2. activeSessions' = activeSessions
    BY <1>9 DEF StreamEnds
  <2> QED BY <2>1, <2>2 DEF GaugeMatchesMap
<1>10. ASSUME NEW s \in Sessions, TransportFails(s) PROVE GaugeMatchesMap'
  <2>1. Occupied' = Occupied /\ Uncounted' = Uncounted /\ CountedTwice' = CountedTwice
    BY <1>10 DEF TransportFails, mapVars, handlerVars, openerVars, cleanVars, Occupied, Uncounted, CountedTwice
  <2>2. activeSessions' = activeSessions
    BY <1>10 DEF TransportFails
  <2> QED BY <2>1, <2>2 DEF GaugeMatchesMap
<1>11. ASSUME NEW s \in Sessions, KeepAliveCloses(s) PROVE GaugeMatchesMap'
  <2>1. Occupied' = Occupied /\ Uncounted' = Uncounted /\ CountedTwice' = CountedTwice
    BY <1>11 DEF KeepAliveCloses, CloseSession, mapVars, handlerVars, openerVars, cleanVars, Occupied, Uncounted, CountedTwice
  <2>2. activeSessions' = activeSessions
    BY <1>11 DEF KeepAliveCloses
  <2> QED BY <2>1, <2>2 DEF GaugeMatchesMap
<1>12. ASSUME NEW o \in Openers, OpenBegin(o) PROVE GaugeMatchesMap'
  <2>1. Occupied' = Occupied /\ Uncounted' = Uncounted /\ CountedTwice' = CountedTwice
    BY <1>12 DEF OpenBegin, CanRLock, mapVars, connVars, handlerVars, cleanVars, Occupied, Uncounted, CountedTwice
  <2>2. activeSessions' = activeSessions
    BY <1>12 DEF OpenBegin
  <2> QED BY <2>1, <2>2 DEF GaugeMatchesMap
<1>13. ASSUME NEW o \in Openers, NEW k \in Keys, OpenVisit(o, k) PROVE GaugeMatchesMap'
  <2>1. Occupied' = Occupied /\ Uncounted' = Uncounted /\ CountedTwice' = CountedTwice
    BY <1>13 DEF OpenVisit, mapVars, connVars, handlerVars, cleanVars, Occupied, Uncounted, CountedTwice
  <2>2. activeSessions' = activeSessions
    BY <1>13 DEF OpenVisit
  <2> QED BY <2>1, <2>2 DEF GaugeMatchesMap
<1>14. ASSUME NEW o \in Openers, OpenOk(o) PROVE GaugeMatchesMap'
  <2>1. Occupied' = Occupied /\ Uncounted' = Uncounted /\ CountedTwice' = CountedTwice
    BY <1>14 DEF OpenOk, mapVars, handlerVars, cleanVars, Occupied, Uncounted, CountedTwice
  <2>2. activeSessions' = activeSessions
    BY <1>14 DEF OpenOk
  <2> QED BY <2>1, <2>2 DEF GaugeMatchesMap
<1>15. ASSUME NEW o \in Openers, OpenError(o) PROVE GaugeMatchesMap'
  <2>1. Occupied' = Occupied /\ Uncounted' = Uncounted /\ CountedTwice' = CountedTwice
    BY <1>15 DEF OpenError, CloseSession, mapVars, handlerVars, cleanVars, Occupied, Uncounted, CountedTwice
  <2>2. activeSessions' = activeSessions
    BY <1>15 DEF OpenError
  <2> QED BY <2>1, <2>2 DEF GaugeMatchesMap
<1>16. ASSUME NEW o \in Openers, OpenFail(o) PROVE GaugeMatchesMap'
  <2>1. Occupied' = Occupied /\ Uncounted' = Uncounted /\ CountedTwice' = CountedTwice
    BY <1>16 DEF OpenFail, mapVars, connVars, handlerVars, cleanVars, Occupied, Uncounted, CountedTwice
  <2>2. activeSessions' = activeSessions
    BY <1>16 DEF OpenFail
  <2> QED BY <2>1, <2>2 DEF GaugeMatchesMap
<1>17. CASE CleanBegin
  <2>1. Occupied' = Occupied /\ Uncounted' = Uncounted /\ CountedTwice' = CountedTwice
    BY <1>17 DEF CleanBegin, CanLock, mapVars, connVars, handlerVars, openerVars, Occupied, Uncounted, CountedTwice
  <2>2. activeSessions' = activeSessions
    BY <1>17 DEF CleanBegin
  <2> QED BY <2>1, <2>2 DEF GaugeMatchesMap
<1>18. ASSUME NEW k \in Keys, CleanVisit(k) PROVE GaugeMatchesMap'
  <2>1. Uncounted' = Uncounted /\ CountedTwice' = CountedTwice
    BY <1>18 DEF CleanVisit, handlerVars, Uncounted, CountedTwice
  <2>2. CASE st[sessions[k]] = "closed"
    <3>1. Occupied' = Occupied \ {k} /\ k \in Occupied
      BY <1>18, <2>2 DEF CleanVisit, Unmap, Occupied, LockDiscipline
    <3>2. activeSessions' = activeSessions - 1
      BY <1>18, <2>2 DEF CleanVisit, Unmap
    <3>3. Cardinality(Occupied') = Cardinality(Occupied) - 1
      BY <3>1, GaugeSets, RemoveCard
    <3> QED BY <2>1, <3>2, <3>3, GaugeSets, RemoveCard DEF GaugeMatchesMap
  <2>3. CASE st[sessions[k]] # "closed"
    BY <1>18, <2>1, <2>3 DEF CleanVisit, mapVars, Occupied, GaugeMatchesMap
  <2> QED BY <2>2, <2>3
<1>19. CASE CleanKill
  <2>1. Uncounted' = Uncounted /\ CountedTwice' = CountedTwice
    BY <1>19 DEF CleanKill, handlerVars, Uncounted, CountedTwice
  <2>2. Occupied' = Occupied \ {cKey} /\ cKey \in Occupied
    BY <1>19 DEF CleanKill, Unmap, Occupied, LockDiscipline
  <2>3. activeSessions' = activeSessions - 1
    BY <1>19 DEF CleanKill, Unmap
  <2> QED BY <2>1, <2>2, <2>3, GaugeSets, RemoveCard DEF GaugeMatchesMap
<1>20. CASE CleanEnd
  <2>1. Occupied' = Occupied /\ Uncounted' = Uncounted /\ CountedTwice' = CountedTwice
    BY <1>20 DEF CleanEnd, mapVars, connVars, handlerVars, openerVars, Occupied, Uncounted, CountedTwice
  <2>2. activeSessions' = activeSessions
    BY <1>20 DEF CleanEnd
  <2> QED BY <2>1, <2>2 DEF GaugeMatchesMap
<1>21. CASE Tick
  <2>1. Occupied' = Occupied /\ Uncounted' = Uncounted /\ CountedTwice' = CountedTwice
    BY <1>21 DEF Tick, connVars, handlerVars, openerVars, cleanVars, Occupied, Uncounted, CountedTwice
  <2>2. activeSessions' = activeSessions
    BY <1>21 DEF Tick
  <2> QED BY <2>1, <2>2 DEF GaugeMatchesMap
<1>22. CASE UNCHANGED vars
  BY <1>22 DEF vars, GaugeMatchesMap, Occupied, Uncounted, CountedTwice
<1> QED
  BY <1>1, <1>2, <1>3, <1>4, <1>5, <1>6, <1>7, <1>8, <1>9, <1>10, <1>11,
     <1>12, <1>13, <1>14, <1>15, <1>16, <1>17, <1>18, <1>19, <1>20, <1>21,
     <1>22
     DEF Next, Step, HandlerStep, OpenerStep, CleanStep

(* ActiveSessions counts the map exactly, except for the setSession calls  *)
(* that have written the map and not finished their two atomic updates.    *)
THEOREM GaugeCorrect == Spec => []GaugeMatchesMap
<1>1. Init => GaugeMatchesMap
  <2> SUFFICES ASSUME Init PROVE GaugeMatchesMap
    OBVIOUS
  <2>1. Occupied = {} /\ Uncounted = {} /\ CountedTwice = {}
    BY DEF Init, Occupied, Uncounted, CountedTwice
  <2> QED BY <2>1, FS_EmptySet DEF Init, GaugeMatchesMap
<1> QED
  BY <1>1, GaugeStep, StructCorrect, PTL DEF Spec
-----------------------------------------------------------------------------
(* Opening is a finite set of callers.                                     *)
LEMMA OpeningFacts ==
    /\ Cardinality(Openers) \in Nat
    /\ \A x \in Sessions : /\ IsFiniteSet(Opening(x))
                           /\ Cardinality(Opening(x)) \in Nat
                           /\ Cardinality(Opening(x)) <= Cardinality(Openers)
<1>1. \A x \in Sessions : Opening(x) \subseteq Openers
  BY DEF Opening
<1> QED
  BY <1>1, ConstantsAssumption, FS_Subset, FS_CardinalityType

LEMMA OpeningNext ==
    /\ Cardinality(Openers) \in Nat
    /\ \A x \in Sessions : /\ Cardinality(Opening(x)') \in Nat
                           /\ Cardinality(Opening(x)') <= Cardinality(Openers)
<1>1. \A x \in Sessions : Opening(x)' \subseteq Openers
  BY DEF Opening
<1> QED
  BY <1>1, ConstantsAssumption, FS_Subset, FS_CardinalityType

(* A step that adds neither a stream nor a caller keeps the bound.         *)
LEMMA LoadKept ==
  ASSUME TypeOK, TypeOK', LoadBound,
         \A x \in Sessions : Opening(x)' = Opening(x) /\ rstreams'[x] <= rstreams[x]
  PROVE  LoadBound'
<1> SUFFICES ASSUME NEW x \in Sessions
             PROVE  rstreams'[x] + Cardinality(Opening(x)') <= MaxStreams + Cardinality(Openers)
  BY DEF LoadBound
<1>1. rstreams[x] \in Nat /\ rstreams'[x] \in Nat
  BY DEF TypeOK
<1>2. rstreams[x] + Cardinality(Opening(x)) <= MaxStreams + Cardinality(Openers)
  BY DEF LoadBound
<1> QED BY <1>1, <1>2, OpeningFacts, ConstantsAssumption

(* Every step keeps the load of a session within the bound.                *)
LEMMA LoadStep == StructInv /\ LoadBound /\ [Next]_vars => LoadBound'
<1> USE ConstantsAssumption
<1> SUFFICES ASSUME StructInv, LoadBound, [Next]_vars PROVE LoadBound'
  OBVIOUS
<1>0. TypeOK'
  BY TypeStep DEF StructInv
<1> USE DEF StructInv, TypeOK
<1>1. ASSUME NEW s \in Sessions, Upgrade(s) PROVE LoadBound'
  <2>1. \A x \in Sessions : Opening(x)' = Opening(x) /\ rstreams'[x] <= rstreams[x]
    BY <1>1 DEF Upgrade, mapVars, openerVars, cleanVars, Opening
  <2> QED BY <1>0, <2>1, LoadKept
<1>2. ASSUME NEW s \in Sessions, UpgradeFails(s) PROVE LoadBound'
  <2>1. \A x \in Sessions : Opening(x)' = Opening(x) /\ rstreams'[x] <= rstreams[x]
    BY <1>2 DEF UpgradeFails, mapVars, connVars, openerVars, cleanVars, Opening
  <2> QED BY <1>0, <2>1, LoadKept
<1>3. ASSUME NEW s \in Sessions, SetSession(s) PROVE LoadBound'
  <2>1. \A x \in Sessions : Opening(x)' = Opening(x) /\ rstreams'[x] <= rstreams[x]
    BY <1>3 DEF SetSession, connVars, openerVars, cleanVars, CanLock, Opening
  <2> QED BY <1>0, <2>1, LoadKept
<1>4. ASSUME NEW s \in Sessions, CountNew(s) PROVE LoadBound'
  <2>1. \A x \in Sessions : Opening(x)' = Opening(x) /\ rstreams'[x] <= rstreams[x]
    BY <1>4 DEF CountNew, mapVars, connVars, openerVars, cleanVars, Opening
  <2> QED BY <1>0, <2>1, LoadKept
<1>5. ASSUME NEW s \in Sessions, UncountOld(s) PROVE LoadBound'
  <2>1. \A x \in Sessions : Opening(x)' = Opening(x) /\ rstreams'[x] <= rstreams[x]
    BY <1>5 DEF UncountOld, mapVars, connVars, openerVars, cleanVars, Opening
  <2> QED BY <1>0, <2>1, LoadKept
<1>6. ASSUME NEW s \in Sessions, CloseOld(s) PROVE LoadBound'
  <2>1. \A x \in Sessions : Opening(x)' = Opening(x) /\ rstreams'[x] <= rstreams[x]
    BY <1>6 DEF CloseOld, CloseSession, mapVars, openerVars, cleanVars, Opening
  <2> QED BY <1>0, <2>1, LoadKept
<1>7. ASSUME NEW s \in Sessions, ClearSession(s) PROVE LoadBound'
  <2>1. \A x \in Sessions : Opening(x)' = Opening(x) /\ rstreams'[x] <= rstreams[x]
    BY <1>7 DEF ClearSession, CanLock, Unmap, mapVars, connVars, openerVars, cleanVars, Opening
  <2> QED BY <1>0, <2>1, LoadKept
<1>8. ASSUME NEW s \in Sessions, PeerOpens(s) PROVE LoadBound'
  <2>1. \A x \in Sessions : Opening(x)' = Opening(x) /\ rstreams'[x] <= rstreams[x]
    BY <1>8 DEF PeerOpens, mapVars, handlerVars, openerVars, cleanVars, Opening
  <2> QED BY <1>0, <2>1, LoadKept
<1>9. ASSUME NEW s \in Sessions, StreamEnds(s) PROVE LoadBound'
  <2>1. \A x \in Sessions : Opening(x)' = Opening(x) /\ rstreams'[x] <= rstreams[x]
    BY <1>9 DEF StreamEnds, mapVars, handlerVars, openerVars, cleanVars, Opening
  <2> QED BY <1>0, <2>1, LoadKept
<1>10. ASSUME NEW s \in Sessions, TransportFails(s) PROVE LoadBound'
  <2>1. \A x \in Sessions : Opening(x)' = Opening(x) /\ rstreams'[x] <= rstreams[x]
    BY <1>10 DEF TransportFails, mapVars, handlerVars, openerVars, cleanVars, Opening
  <2> QED BY <1>0, <2>1, LoadKept
<1>11. ASSUME NEW s \in Sessions, KeepAliveCloses(s) PROVE LoadBound'
  <2>1. \A x \in Sessions : Opening(x)' = Opening(x) /\ rstreams'[x] <= rstreams[x]
    BY <1>11 DEF KeepAliveCloses, CloseSession, mapVars, handlerVars, openerVars, cleanVars, Opening
  <2> QED BY <1>0, <2>1, LoadKept
<1>12. ASSUME NEW o \in Openers, OpenBegin(o) PROVE LoadBound'
  <2>1. \A x \in Sessions : Opening(x)' = Opening(x) /\ rstreams'[x] <= rstreams[x]
    BY <1>12 DEF OpenBegin, CanRLock, mapVars, connVars, handlerVars, cleanVars, Opening
  <2> QED BY <1>0, <2>1, LoadKept
<1>13. ASSUME NEW o \in Openers, NEW k \in Keys, OpenVisit(o, k) PROVE LoadBound'
  <2>1. rstreams' = rstreams
    BY <1>13 DEF OpenVisit, connVars
  <2>2. CASE Skipped(sessions[k])
    BY <1>13, <2>1, <2>2 DEF OpenVisit, Opening, LoadBound
  <2>3. CASE ~Skipped(sessions[k])
    <3>1. ASSUME NEW x \in Sessions, x = sessions[k]
          PROVE  rstreams[x] <= MaxStreams
      BY <2>3, <3>1 DEF Skipped, NumStreams
    <3>2. ASSUME NEW x \in Sessions, x # sessions[k]
          PROVE  Opening(x)' = Opening(x)
      BY <1>13, <2>3, <3>2 DEF OpenVisit, Opening
    <3> QED BY <2>1, <3>1, <3>2, OpeningFacts, OpeningNext DEF LoadBound
  <2> QED BY <2>2, <2>3
<1>14. ASSUME NEW o \in Openers, OpenOk(o) PROVE LoadBound'
  <2>1. ASSUME NEW x \in Sessions, x # oCur[o]
        PROVE  Opening(x)' = Opening(x) /\ rstreams'[x] = rstreams[x]
    BY <1>14, <2>1 DEF OpenOk, Opening
  <2>2. ASSUME NEW x \in Sessions, x = oCur[o]
        PROVE  /\ Opening(x)' = Opening(x) \ {o} /\ o \in Opening(x)
               /\ rstreams'[x] = rstreams[x] + 1
    BY <1>14, <2>2 DEF OpenOk, Opening
  <2>3. ASSUME NEW x \in Sessions, x = oCur[o]
        PROVE  Cardinality(Opening(x)') = Cardinality(Opening(x)) - 1
    BY <2>2, <2>3, OpeningFacts, RemoveCard
  <2> QED BY <2>1, <2>2, <2>3, OpeningFacts DEF LoadBound
<1>15. ASSUME NEW o \in Openers, OpenError(o) PROVE LoadBound'
  <2>1. ASSUME NEW x \in Sessions, x # oCur[o]
        PROVE  Opening(x)' = Opening(x) /\ rstreams'[x] = rstreams[x]
    BY <1>15, <2>1 DEF OpenError, CloseSession, Opening
  <2>2. ASSUME NEW x \in Sessions, x = oCur[o]
        PROVE  rstreams'[x] = 0
    BY <1>15, <2>2 DEF OpenError, CloseSession
  <2> QED BY <2>1, <2>2, OpeningNext DEF LoadBound
<1>16. ASSUME NEW o \in Openers, OpenFail(o) PROVE LoadBound'
  <2>1. \A x \in Sessions : Opening(x)' = Opening(x) /\ rstreams'[x] <= rstreams[x]
    BY <1>16 DEF OpenFail, mapVars, connVars, handlerVars, cleanVars, Opening
  <2> QED BY <1>0, <2>1, LoadKept
<1>17. CASE CleanBegin
  <2>1. \A x \in Sessions : Opening(x)' = Opening(x) /\ rstreams'[x] <= rstreams[x]
    BY <1>17 DEF CleanBegin, CanLock, mapVars, connVars, handlerVars, openerVars, Opening
  <2> QED BY <1>0, <2>1, LoadKept
<1>18. ASSUME NEW k \in Keys, CleanVisit(k) PROVE LoadBound'
  <2>1. \A x \in Sessions : Opening(x)' = Opening(x) /\ rstreams'[x] <= rstreams[x]
    BY <1>18 DEF CleanVisit, Unmap, mapVars, connVars, handlerVars, openerVars, Opening
  <2> QED BY <1>0, <2>1, LoadKept
<1>19. CASE CleanKill
  <2>1. \A x \in Sessions : Opening(x)' = Opening(x) /\ rstreams'[x] <= rstreams[x]
    BY <1>19 DEF CleanKill, CloseSession, Unmap, handlerVars, openerVars, Opening
  <2> QED BY <1>0, <2>1, LoadKept
<1>20. CASE CleanEnd
  <2>1. \A x \in Sessions : Opening(x)' = Opening(x) /\ rstreams'[x] <= rstreams[x]
    BY <1>20 DEF CleanEnd, mapVars, connVars, handlerVars, openerVars, Opening
  <2> QED BY <1>0, <2>1, LoadKept
<1>21. CASE Tick
  <2>1. \A x \in Sessions : Opening(x)' = Opening(x) /\ rstreams'[x] <= rstreams[x]
    BY <1>21 DEF Tick, connVars, handlerVars, openerVars, cleanVars, Opening
  <2> QED BY <1>0, <2>1, LoadKept
<1>22. CASE UNCHANGED vars
  BY <1>22 DEF vars, LoadBound, Opening
<1> QED
  BY <1>1, <1>2, <1>3, <1>4, <1>5, <1>6, <1>7, <1>8, <1>9, <1>10, <1>11,
     <1>12, <1>13, <1>14, <1>15, <1>16, <1>17, <1>18, <1>19, <1>20, <1>21,
     <1>22
     DEF Next, Step, HandlerStep, OpenerStep, CleanStep

(* The overload limit of openStream is exceeded by at most one stream per  *)
(* concurrent caller, whatever the limit and the number of callers.        *)
THEOREM LoadCorrect == Spec => []LoadBound
<1>1. Init => LoadBound
  <2> SUFFICES ASSUME Init PROVE LoadBound
    OBVIOUS
  <2>1. \A x \in Sessions : rstreams[x] = 0
    BY DEF Init
  <2> QED BY <2>1, OpeningFacts, ConstantsAssumption DEF LoadBound
<1> QED
  BY <1>1, LoadStep, StructCorrect, PTL DEF Spec
=============================================================================
