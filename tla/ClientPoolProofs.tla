-------------------------- MODULE ClientPoolProofs --------------------------
(***************************************************************************)
(* Proofs, for any number of workers and sessions, of the safety           *)
(* properties of the client's pool.                                        *)
(***************************************************************************)
EXTENDS ClientPool, TLAPS

(***************************************************************************)
(* The inductive invariant: a goroutine holds a session exactly in the     *)
(* states in which the code has one in a variable, a worker leaves only    *)
(* when the context has ended, an identity that is not in use is mentioned *)
(* nowhere, and what is not closed is held or lies in the channel.         *)
(***************************************************************************)
Holding ==
    /\ \A w \in Workers :
          wSess[w] # NoSession <=> wPc[w] \in {"promote", "loop", "accept", "serve",
                                            "closeDone", "closeTop", "closeFailed"}
    /\ \A w \in Workers : wPc[w] \in {"done", "closeDone"} => ctxDone
    /\ mSess # NoSession <=> mPc = "offer"
    /\ victim # NoSession <=> hPc = "recycle"

UnusedIsFree ==
    \A s \in Sessions : st[s] = "none" =>
        /\ s \notin pool /\ s # standbyCh /\ s # mSess /\ s # victim
        /\ \A w \in Workers : wSess[w] # s

Kept ==
    \A s \in Sessions : Alive(s) =>
        s \in {standbyCh, mSess} \cup {wSess[w] : w \in Workers}

PoolInv == TypeOK /\ Holding /\ UnusedIsFree /\ OneHolder /\ Kept /\ PoolIsServed
-----------------------------------------------------------------------------
(* Every step keeps the types.                                              *)
LEMMA TypeStep == PoolInv /\ [Next]_vars => TypeOK'
<1> USE PoolAssumption
<1> SUFFICES ASSUME PoolInv, [Next]_vars PROVE TypeOK'
  OBVIOUS
<1> USE DEF PoolInv, TypeOK, Holding, SessState, WorkerPc, ManagerPc, HealthPc
<1>1. ASSUME NEW w \in Workers, WorkerTop(w) PROVE TypeOK'
  BY <1>1 DEF WorkerTop, Goto, Running, sessVars, poolVars, managerVars,
            healthVars
<1>2. ASSUME NEW w \in Workers, SelectOther(w) PROVE TypeOK'
  BY <1>2 DEF SelectOther, Goto, Running, sessVars, poolVars, managerVars,
            healthVars
<1>3. ASSUME NEW w \in Workers, TakeStandby(w) PROVE TypeOK'
  BY <1>3 DEF TakeStandby, Goto, Running, sessVars, poolVars, managerVars,
            healthVars
<1>4. ASSUME NEW w \in Workers, Promote(w) PROVE TypeOK'
  BY <1>4 DEF Promote, Goto, AddSession, Running, sessVars, managerVars,
            healthVars
<1>5. ASSUME NEW w \in Workers, LoopCheck(w) PROVE TypeOK'
  BY <1>5 DEF LoopCheck, Goto, RemoveSession, Running, sessVars,
            poolVars, managerVars, healthVars
<1>6. ASSUME NEW w \in Workers, StreamArrives(w) PROVE TypeOK'
  BY <1>6 DEF StreamArrives, Goto, Running, sessVars, poolVars, managerVars,
            healthVars
<1>7. ASSUME NEW w \in Workers, AcceptFails(w) PROVE TypeOK'
  BY <1>7 DEF AcceptFails, Goto, RemoveSession, Running, sessVars,
            managerVars, healthVars
<1>8. ASSUME NEW w \in Workers, Dial(w) PROVE TypeOK'
  BY <1>8 DEF Dial, Goto, Running, sessVars, poolVars, managerVars,
            healthVars
<1>31. ASSUME NEW w \in Workers, DialTLS(w) PROVE TypeOK'
  BY <1>31 DEF DialTLS, Goto, Running, sessVars, poolVars, managerVars,
            healthVars
<1>9. ASSUME NEW w \in Workers, NEW s \in Sessions, Connected(w, s) PROVE TypeOK'
  BY <1>9 DEF Connected, Goto, AddSession, Running, managerVars, healthVars
<1>10. ASSUME NEW w \in Workers, ConnectFails(w) PROVE TypeOK'
  BY <1>10 DEF ConnectFails, Goto, sessVars, poolVars, managerVars,
            healthVars
<1>11. ASSUME NEW w \in Workers, ServeFails(w) PROVE TypeOK'
  BY <1>11 DEF ServeFails, Goto, RemoveSession, Running, sessVars,
            managerVars, healthVars
<1>32. ASSUME NEW w \in Workers, CloseRemoved(w) PROVE TypeOK'
  BY <1>32 DEF CloseRemoved, Goto, CloseSession, Running, poolVars,
            managerVars, healthVars
<1>12. ASSUME NEW w \in Workers, Retry(w) PROVE TypeOK'
  BY <1>12 DEF Retry, Goto, Running, sessVars, poolVars, managerVars,
            healthVars
<1>13. CASE ManagerWait
  BY <1>13 DEF ManagerWait, Running, sessVars, poolVars, workerVars,
            healthVars
<1>14. CASE ManagerTop
  BY <1>14 DEF ManagerTop, Running, sessVars, poolVars, workerVars,
            healthVars
<1>15. CASE ManagerDial
  BY <1>15 DEF ManagerDial, Running, sessVars, poolVars, workerVars,
            healthVars
<1>16. ASSUME NEW s \in Sessions, ManagerConnected(s) PROVE TypeOK'
  BY <1>16 DEF ManagerConnected, Running, poolVars, workerVars, healthVars
<1>17. CASE ManagerFails
  BY <1>17 DEF ManagerFails, sessVars, poolVars, workerVars, healthVars
<1>18. CASE Offer
  BY <1>18 DEF Offer, Running, sessVars, poolVars, workerVars, healthVars
<1>19. CASE OfferCancelled
  BY <1>19 DEF OfferCancelled, CloseSession, Running, poolVars, workerVars,
            healthVars
<1>20. CASE HealthStop
  BY <1>20 DEF HealthStop, Running, sessVars, poolVars, workerVars,
            managerVars
<1>21. CASE Clean
  BY <1>21 DEF Clean, Running, sessVars, workerVars, managerVars, healthVars
<1>22. CASE RecyclePick
  BY <1>22 DEF RecyclePick, Expired, Running, sessVars, poolVars,
            workerVars, managerVars
<1>23. CASE RecycleClose
  BY <1>23 DEF RecycleClose, CloseSession, Running, poolVars, workerVars,
            managerVars
<1>24. CASE Cancel
  BY <1>24 DEF Cancel, Running, sessVars, poolVars, workerVars, managerVars,
            healthVars
<1>25. ASSUME NEW s \in Sessions, WatcherCloses(s) PROVE TypeOK'
  BY <1>25 DEF WatcherCloses, CloseSession, Running, poolVars, workerVars,
            managerVars, healthVars
<1>26. ASSUME NEW s \in Sessions, TransportFails(s) PROVE TypeOK'
  BY <1>26 DEF TransportFails, Running, poolVars, workerVars, managerVars,
            healthVars
<1>27. ASSUME NEW s \in Sessions, KeepAliveCloses(s) PROVE TypeOK'
  BY <1>27 DEF KeepAliveCloses, CloseSession, Running, poolVars, workerVars,
            managerVars, healthVars
<1>28. ASSUME NEW s \in Sessions, Collect(s) PROVE TypeOK'
  BY <1>28 DEF Collect, Running, poolVars, workerVars, managerVars,
            healthVars
<1>29. CASE Tick
  BY <1>29 DEF Tick, Running, sessVars, workerVars, managerVars, healthVars
<1>30. CASE UNCHANGED vars
  BY <1>30 DEF vars
<1> QED
  BY <1>1, <1>2, <1>3, <1>4, <1>5, <1>6, <1>7, <1>8, <1>9, <1>10, <1>11,
     <1>12, <1>13, <1>14, <1>15, <1>16, <1>17, <1>18, <1>19, <1>20, <1>21,
     <1>22, <1>23, <1>24, <1>25, <1>26, <1>27, <1>28, <1>29, <1>30, <1>31, <1>32
     DEF Next, WorkerStep, ManagerStep

(* Every step keeps program counters and held sessions in agreement.        *)
LEMMA HoldingStep == PoolInv /\ [Next]_vars => Holding'
<1> USE PoolAssumption
<1> SUFFICES ASSUME PoolInv, [Next]_vars PROVE Holding'
  OBVIOUS
<1> USE DEF PoolInv, TypeOK, Holding
<1>1. ASSUME NEW w \in Workers, WorkerTop(w) PROVE Holding'
  BY <1>1 DEF WorkerTop, Goto, Running, sessVars, poolVars, managerVars,
            healthVars
<1>2. ASSUME NEW w \in Workers, SelectOther(w) PROVE Holding'
  BY <1>2 DEF SelectOther, Goto, Running, sessVars, poolVars, managerVars,
            healthVars
<1>3. ASSUME NEW w \in Workers, TakeStandby(w) PROVE Holding'
  BY <1>3 DEF TakeStandby, Goto, Running, sessVars, poolVars, managerVars,
            healthVars
<1>4. ASSUME NEW w \in Workers, Promote(w) PROVE Holding'
  BY <1>4 DEF Promote, Goto, AddSession, Running, sessVars, managerVars,
            healthVars
<1>5. ASSUME NEW w \in Workers, LoopCheck(w) PROVE Holding'
  BY <1>5 DEF LoopCheck, Goto, RemoveSession, Running, sessVars,
            poolVars, managerVars, healthVars
<1>6. ASSUME NEW w \in Workers, StreamArrives(w) PROVE Holding'
  BY <1>6 DEF StreamArrives, Goto, Running, sessVars, poolVars, managerVars,
            healthVars
<1>7. ASSUME NEW w \in Workers, AcceptFails(w) PROVE Holding'
  BY <1>7 DEF AcceptFails, Goto, RemoveSession, Running, sessVars,
            managerVars, healthVars
<1>8. ASSUME NEW w \in Workers, Dial(w) PROVE Holding'
  BY <1>8 DEF Dial, Goto, Running, sessVars, poolVars, managerVars,
            healthVars
<1>31. ASSUME NEW w \in Workers, DialTLS(w) PROVE Holding'
  BY <1>31 DEF DialTLS, Goto, Running, sessVars, poolVars, managerVars,
            healthVars
<1>9. ASSUME NEW w \in Workers, NEW s \in Sessions, Connected(w, s) PROVE Holding'
  BY <1>9 DEF Connected, Goto, AddSession, Running, managerVars, healthVars
<1>10. ASSUME NEW w \in Workers, ConnectFails(w) PROVE Holding'
  BY <1>10 DEF ConnectFails, Goto, sessVars, poolVars, managerVars,
            healthVars
<1>11. ASSUME NEW w \in Workers, ServeFails(w) PROVE Holding'
  BY <1>11 DEF ServeFails, Goto, RemoveSession, Running, sessVars,
            managerVars, healthVars
<1>32. ASSUME NEW w \in Workers, CloseRemoved(w) PROVE Holding'
  BY <1>32 DEF CloseRemoved, Goto, CloseSession, Running, poolVars,
            managerVars, healthVars
<1>12. ASSUME NEW w \in Workers, Retry(w) PROVE Holding'
  BY <1>12 DEF Retry, Goto, Running, sessVars, poolVars, managerVars,
            healthVars
<1>13. CASE ManagerWait
  BY <1>13 DEF ManagerWait, Running, sessVars, poolVars, workerVars,
            healthVars
<1>14. CASE ManagerTop
  BY <1>14 DEF ManagerTop, Running, sessVars, poolVars, workerVars,
            healthVars
<1>15. CASE ManagerDial
  BY <1>15 DEF ManagerDial, Running, sessVars, poolVars, workerVars,
            healthVars
<1>16. ASSUME NEW s \in Sessions, ManagerConnected(s) PROVE Holding'
  BY <1>16 DEF ManagerConnected, Running, poolVars, workerVars, healthVars
<1>17. CASE ManagerFails
  BY <1>17 DEF ManagerFails, sessVars, poolVars, workerVars, healthVars
<1>18. CASE Offer
  BY <1>18 DEF Offer, Running, sessVars, poolVars, workerVars, healthVars
<1>19. CASE OfferCancelled
  BY <1>19 DEF OfferCancelled, CloseSession, Running, poolVars, workerVars,
            healthVars
<1>20. CASE HealthStop
  BY <1>20 DEF HealthStop, Running, sessVars, poolVars, workerVars,
            managerVars
<1>21. CASE Clean
  BY <1>21 DEF Clean, Running, sessVars, workerVars, managerVars, healthVars
<1>22. CASE RecyclePick
  BY <1>22 DEF RecyclePick, Expired, Running, sessVars, poolVars,
            workerVars, managerVars
<1>23. CASE RecycleClose
  BY <1>23 DEF RecycleClose, CloseSession, Running, poolVars, workerVars,
            managerVars
<1>24. CASE Cancel
  BY <1>24 DEF Cancel, Running, sessVars, poolVars, workerVars, managerVars,
            healthVars
<1>25. ASSUME NEW s \in Sessions, WatcherCloses(s) PROVE Holding'
  BY <1>25 DEF WatcherCloses, CloseSession, Running, poolVars, workerVars,
            managerVars, healthVars
<1>26. ASSUME NEW s \in Sessions, TransportFails(s) PROVE Holding'
  BY <1>26 DEF TransportFails, Running, poolVars, workerVars, managerVars,
            healthVars
<1>27. ASSUME NEW s \in Sessions, KeepAliveCloses(s) PROVE Holding'
  BY <1>27 DEF KeepAliveCloses, CloseSession, Running, poolVars, workerVars,
            managerVars, healthVars
<1>28. ASSUME NEW s \in Sessions, Collect(s) PROVE Holding'
  BY <1>28 DEF Collect, Running, poolVars, workerVars, managerVars,
            healthVars
<1>29. CASE Tick
  BY <1>29 DEF Tick, Running, sessVars, workerVars, managerVars, healthVars
<1>30. CASE UNCHANGED vars
  BY <1>30 DEF vars
<1> QED
  BY <1>1, <1>2, <1>3, <1>4, <1>5, <1>6, <1>7, <1>8, <1>9, <1>10, <1>11,
     <1>12, <1>13, <1>14, <1>15, <1>16, <1>17, <1>18, <1>19, <1>20, <1>21,
     <1>22, <1>23, <1>24, <1>25, <1>26, <1>27, <1>28, <1>29, <1>30, <1>31, <1>32
     DEF Next, WorkerStep, ManagerStep

(* Every step keeps unused identities unmentioned.                          *)
LEMMA UnusedStep == PoolInv /\ [Next]_vars => UnusedIsFree'
<1> USE PoolAssumption
<1> SUFFICES ASSUME PoolInv, [Next]_vars PROVE UnusedIsFree'
  OBVIOUS
<1> USE DEF PoolInv, TypeOK, Holding, UnusedIsFree
<1>1. ASSUME NEW w \in Workers, WorkerTop(w) PROVE UnusedIsFree'
  BY <1>1 DEF WorkerTop, Goto, Running, sessVars, poolVars, managerVars,
            healthVars
<1>2. ASSUME NEW w \in Workers, SelectOther(w) PROVE UnusedIsFree'
  BY <1>2 DEF SelectOther, Goto, Running, sessVars, poolVars, managerVars,
            healthVars
<1>3. ASSUME NEW w \in Workers, TakeStandby(w) PROVE UnusedIsFree'
  BY <1>3 DEF TakeStandby, Goto, Running, sessVars, poolVars, managerVars,
            healthVars
<1>4. ASSUME NEW w \in Workers, Promote(w) PROVE UnusedIsFree'
  BY <1>4 DEF Promote, Goto, AddSession, Running, sessVars, managerVars,
            healthVars
<1>5. ASSUME NEW w \in Workers, LoopCheck(w) PROVE UnusedIsFree'
  BY <1>5 DEF LoopCheck, Goto, RemoveSession, Running, sessVars,
            poolVars, managerVars, healthVars
<1>6. ASSUME NEW w \in Workers, StreamArrives(w) PROVE UnusedIsFree'
  BY <1>6 DEF StreamArrives, Goto, Running, sessVars, poolVars, managerVars,
            healthVars
<1>7. ASSUME NEW w \in Workers, AcceptFails(w) PROVE UnusedIsFree'
  BY <1>7 DEF AcceptFails, Goto, RemoveSession, Running, sessVars,
            managerVars, healthVars
<1>8. ASSUME NEW w \in Workers, Dial(w) PROVE UnusedIsFree'
  BY <1>8 DEF Dial, Goto, Running, sessVars, poolVars, managerVars,
            healthVars
<1>31. ASSUME NEW w \in Workers, DialTLS(w) PROVE UnusedIsFree'
  BY <1>31 DEF DialTLS, Goto, Running, sessVars, poolVars, managerVars,
            healthVars
<1>9. ASSUME NEW w \in Workers, NEW s \in Sessions, Connected(w, s) PROVE UnusedIsFree'
  BY <1>9 DEF Connected, Goto, AddSession, Running, managerVars, healthVars
<1>10. ASSUME NEW w \in Workers, ConnectFails(w) PROVE UnusedIsFree'
  BY <1>10 DEF ConnectFails, Goto, sessVars, poolVars, managerVars,
            healthVars
<1>11. ASSUME NEW w \in Workers, ServeFails(w) PROVE UnusedIsFree'
  BY <1>11 DEF ServeFails, Goto, RemoveSession, Running, sessVars,
            managerVars, healthVars
<1>32. ASSUME NEW w \in Workers, CloseRemoved(w) PROVE UnusedIsFree'
  BY <1>32 DEF CloseRemoved, Goto, CloseSession, Running, poolVars,
            managerVars, healthVars
<1>12. ASSUME NEW w \in Workers, Retry(w) PROVE UnusedIsFree'
  BY <1>12 DEF Retry, Goto, Running, sessVars, poolVars, managerVars,
            healthVars
<1>13. CASE ManagerWait
  BY <1>13 DEF ManagerWait, Running, sessVars, poolVars, workerVars,
            healthVars
<1>14. CASE ManagerTop
  BY <1>14 DEF ManagerTop, Running, sessVars, poolVars, workerVars,
            healthVars
<1>15. CASE ManagerDial
  BY <1>15 DEF ManagerDial, Running, sessVars, poolVars, workerVars,
            healthVars
<1>16. ASSUME NEW s \in Sessions, ManagerConnected(s) PROVE UnusedIsFree'
  BY <1>16 DEF ManagerConnected, Running, poolVars, workerVars, healthVars
<1>17. CASE ManagerFails
  BY <1>17 DEF ManagerFails, sessVars, poolVars, workerVars, healthVars
<1>18. CASE Offer
  BY <1>18 DEF Offer, Running, sessVars, poolVars, workerVars, healthVars
<1>19. CASE OfferCancelled
  BY <1>19 DEF OfferCancelled, CloseSession, Running, poolVars, workerVars,
            healthVars
<1>20. CASE HealthStop
  BY <1>20 DEF HealthStop, Running, sessVars, poolVars, workerVars,
            managerVars
<1>21. CASE Clean
  BY <1>21 DEF Clean, Running, sessVars, workerVars, managerVars, healthVars
<1>22. CASE RecyclePick
  BY <1>22 DEF RecyclePick, Expired, Running, sessVars, poolVars,
            workerVars, managerVars
<1>23. CASE RecycleClose
  BY <1>23 DEF RecycleClose, CloseSession, Running, poolVars, workerVars,
            managerVars
<1>24. CASE Cancel
  BY <1>24 DEF Cancel, Running, sessVars, poolVars, workerVars, managerVars,
            healthVars
<1>25. ASSUME NEW s \in Sessions, WatcherCloses(s) PROVE UnusedIsFree'
  BY <1>25 DEF WatcherCloses, CloseSession, Running, poolVars, workerVars,
            managerVars, healthVars
<1>26. ASSUME NEW s \in Sessions, TransportFails(s) PROVE UnusedIsFree'
  BY <1>26 DEF TransportFails, Running, poolVars, workerVars, managerVars,
            healthVars
<1>27. ASSUME NEW s \in Sessions, KeepAliveCloses(s) PROVE UnusedIsFree'
  BY <1>27 DEF KeepAliveCloses, CloseSession, Running, poolVars, workerVars,
            managerVars, healthVars
<1>28. ASSUME NEW s \in Sessions, Collect(s) PROVE UnusedIsFree'
  BY <1>28 DEF Collect, Running, poolVars, workerVars, managerVars,
            healthVars
<1>29. CASE Tick
  BY <1>29 DEF Tick, Running, sessVars, workerVars, managerVars, healthVars
<1>30. CASE UNCHANGED vars
  BY <1>30 DEF vars
<1> QED
  BY <1>1, <1>2, <1>3, <1>4, <1>5, <1>6, <1>7, <1>8, <1>9, <1>10, <1>11,
     <1>12, <1>13, <1>14, <1>15, <1>16, <1>17, <1>18, <1>19, <1>20, <1>21,
     <1>22, <1>23, <1>24, <1>25, <1>26, <1>27, <1>28, <1>29, <1>30, <1>31, <1>32
     DEF Next, WorkerStep, ManagerStep

(* No step gives a session a second holder.                                 *)
LEMMA OneHolderStep == PoolInv /\ [Next]_vars => OneHolder'
<1> USE PoolAssumption
<1> SUFFICES ASSUME PoolInv, [Next]_vars PROVE OneHolder'
  OBVIOUS
<1> USE DEF PoolInv, TypeOK, Holding, UnusedIsFree, OneHolder
<1>1. ASSUME NEW w \in Workers, WorkerTop(w) PROVE OneHolder'
  BY <1>1 DEF WorkerTop, Goto, Running, sessVars, poolVars, managerVars,
            healthVars
<1>2. ASSUME NEW w \in Workers, SelectOther(w) PROVE OneHolder'
  BY <1>2 DEF SelectOther, Goto, Running, sessVars, poolVars, managerVars,
            healthVars
<1>3. ASSUME NEW w \in Workers, TakeStandby(w) PROVE OneHolder'
  BY <1>3 DEF TakeStandby, Goto, Running, sessVars, poolVars, managerVars,
            healthVars
<1>4. ASSUME NEW w \in Workers, Promote(w) PROVE OneHolder'
  BY <1>4 DEF Promote, Goto, AddSession, Running, sessVars, managerVars,
            healthVars
<1>5. ASSUME NEW w \in Workers, LoopCheck(w) PROVE OneHolder'
  BY <1>5 DEF LoopCheck, Goto, RemoveSession, Running, sessVars,
            poolVars, managerVars, healthVars
<1>6. ASSUME NEW w \in Workers, StreamArrives(w) PROVE OneHolder'
  BY <1>6 DEF StreamArrives, Goto, Running, sessVars, poolVars, managerVars,
            healthVars
<1>7. ASSUME NEW w \in Workers, AcceptFails(w) PROVE OneHolder'
  BY <1>7 DEF AcceptFails, Goto, RemoveSession, Running, sessVars,
            managerVars, healthVars
<1>8. ASSUME NEW w \in Workers, Dial(w) PROVE OneHolder'
  BY <1>8 DEF Dial, Goto, Running, sessVars, poolVars, managerVars,
            healthVars
<1>31. ASSUME NEW w \in Workers, DialTLS(w) PROVE OneHolder'
  BY <1>31 DEF DialTLS, Goto, Running, sessVars, poolVars, managerVars,
            healthVars
<1>9. ASSUME NEW w \in Workers, NEW s \in Sessions, Connected(w, s) PROVE OneHolder'
  BY <1>9 DEF Connected, Goto, AddSession, Running, managerVars, healthVars
<1>10. ASSUME NEW w \in Workers, ConnectFails(w) PROVE OneHolder'
  BY <1>10 DEF ConnectFails, Goto, sessVars, poolVars, managerVars,
            healthVars
<1>11. ASSUME NEW w \in Workers, ServeFails(w) PROVE OneHolder'
  BY <1>11 DEF ServeFails, Goto, RemoveSession, Running, sessVars,
            managerVars, healthVars
<1>32. ASSUME NEW w \in Workers, CloseRemoved(w) PROVE OneHolder'
  BY <1>32 DEF CloseRemoved, Goto, CloseSession, Running, poolVars,
            managerVars, healthVars
<1>12. ASSUME NEW w \in Workers, Retry(w) PROVE OneHolder'
  BY <1>12 DEF Retry, Goto, Running, sessVars, poolVars, managerVars,
            healthVars
<1>13. CASE ManagerWait
  BY <1>13 DEF ManagerWait, Running, sessVars, poolVars, workerVars,
            healthVars
<1>14. CASE ManagerTop
  BY <1>14 DEF ManagerTop, Running, sessVars, poolVars, workerVars,
            healthVars
<1>15. CASE ManagerDial
  BY <1>15 DEF ManagerDial, Running, sessVars, poolVars, workerVars,
            healthVars
<1>16. ASSUME NEW s \in Sessions, ManagerConnected(s) PROVE OneHolder'
  BY <1>16 DEF ManagerConnected, Running, poolVars, workerVars, healthVars
<1>17. CASE ManagerFails
  BY <1>17 DEF ManagerFails, sessVars, poolVars, workerVars, healthVars
<1>18. CASE Offer
  BY <1>18 DEF Offer, Running, sessVars, poolVars, workerVars, healthVars
<1>19. CASE OfferCancelled
  BY <1>19 DEF OfferCancelled, CloseSession, Running, poolVars, workerVars,
            healthVars
<1>20. CASE HealthStop
  BY <1>20 DEF HealthStop, Running, sessVars, poolVars, workerVars,
            managerVars
<1>21. CASE Clean
  BY <1>21 DEF Clean, Running, sessVars, workerVars, managerVars, healthVars
<1>22. CASE RecyclePick
  BY <1>22 DEF RecyclePick, Expired, Running, sessVars, poolVars,
            workerVars, managerVars
<1>23. CASE RecycleClose
  BY <1>23 DEF RecycleClose, CloseSession, Running, poolVars, workerVars,
            managerVars
<1>24. CASE Cancel
  BY <1>24 DEF Cancel, Running, sessVars, poolVars, workerVars, managerVars,
            healthVars
<1>25. ASSUME NEW s \in Sessions, WatcherCloses(s) PROVE OneHolder'
  BY <1>25 DEF WatcherCloses, CloseSession, Running, poolVars, workerVars,
            managerVars, healthVars
<1>26. ASSUME NEW s \in Sessions, TransportFails(s) PROVE OneHolder'
  BY <1>26 DEF TransportFails, Running, poolVars, workerVars, managerVars,
            healthVars
<1>27. ASSUME NEW s \in Sessions, KeepAliveCloses(s) PROVE OneHolder'
  BY <1>27 DEF KeepAliveCloses, CloseSession, Running, poolVars, workerVars,
            managerVars, healthVars
<1>28. ASSUME NEW s \in Sessions, Collect(s) PROVE OneHolder'
  BY <1>28 DEF Collect, Running, poolVars, workerVars, managerVars,
            healthVars
<1>29. CASE Tick
  BY <1>29 DEF Tick, Running, sessVars, workerVars, managerVars, healthVars
<1>30. CASE UNCHANGED vars
  BY <1>30 DEF vars
<1> QED
  BY <1>1, <1>2, <1>3, <1>4, <1>5, <1>6, <1>7, <1>8, <1>9, <1>10, <1>11,
     <1>12, <1>13, <1>14, <1>15, <1>16, <1>17, <1>18, <1>19, <1>20, <1>21,
     <1>22, <1>23, <1>24, <1>25, <1>26, <1>27, <1>28, <1>29, <1>30, <1>31, <1>32
     DEF Next, WorkerStep, ManagerStep

(* No step drops a session that is not closed.                              *)
LEMMA KeptStep == PoolInv /\ [Next]_vars => Kept'
<1> USE PoolAssumption
<1> SUFFICES ASSUME PoolInv, [Next]_vars PROVE Kept'
  OBVIOUS
<1> USE DEF PoolInv, TypeOK, Holding, Kept, Alive
<1>1. ASSUME NEW w \in Workers, WorkerTop(w) PROVE Kept'
  BY <1>1 DEF WorkerTop, Goto, Running, sessVars, poolVars, managerVars,
            healthVars
<1>2. ASSUME NEW w \in Workers, SelectOther(w) PROVE Kept'
  BY <1>2 DEF SelectOther, Goto, Running, sessVars, poolVars, managerVars,
            healthVars
<1>3. ASSUME NEW w \in Workers, TakeStandby(w) PROVE Kept'
  BY <1>3 DEF TakeStandby, Goto, Running, sessVars, poolVars, managerVars,
            healthVars
<1>4. ASSUME NEW w \in Workers, Promote(w) PROVE Kept'
  BY <1>4 DEF Promote, Goto, AddSession, Running, sessVars, managerVars,
            healthVars
<1>5. ASSUME NEW w \in Workers, LoopCheck(w) PROVE Kept'
  BY <1>5 DEF LoopCheck, Goto, RemoveSession, Running, sessVars,
            poolVars, managerVars, healthVars
<1>6. ASSUME NEW w \in Workers, StreamArrives(w) PROVE Kept'
  BY <1>6 DEF StreamArrives, Goto, Running, sessVars, poolVars, managerVars,
            healthVars
<1>7. ASSUME NEW w \in Workers, AcceptFails(w) PROVE Kept'
  BY <1>7 DEF AcceptFails, Goto, RemoveSession, Running, sessVars,
            managerVars, healthVars
<1>8. ASSUME NEW w \in Workers, Dial(w) PROVE Kept'
  BY <1>8 DEF Dial, Goto, Running, sessVars, poolVars, managerVars,
            healthVars
<1>31. ASSUME NEW w \in Workers, DialTLS(w) PROVE Kept'
  BY <1>31 DEF DialTLS, Goto, Running, sessVars, poolVars, managerVars,
            healthVars
<1>9. ASSUME NEW w \in Workers, NEW s \in Sessions, Connected(w, s) PROVE Kept'
  BY <1>9 DEF Connected, Goto, AddSession, Running, managerVars, healthVars
<1>10. ASSUME NEW w \in Workers, ConnectFails(w) PROVE Kept'
  BY <1>10 DEF ConnectFails, Goto, sessVars, poolVars, managerVars,
            healthVars
<1>11. ASSUME NEW w \in Workers, ServeFails(w) PROVE Kept'
  BY <1>11 DEF ServeFails, Goto, RemoveSession, Running, sessVars,
            managerVars, healthVars
<1>32. ASSUME NEW w \in Workers, CloseRemoved(w) PROVE Kept'
  BY <1>32 DEF CloseRemoved, Goto, CloseSession, Running, poolVars,
            managerVars, healthVars
<1>12. ASSUME NEW w \in Workers, Retry(w) PROVE Kept'
  BY <1>12 DEF Retry, Goto, Running, sessVars, poolVars, managerVars,
            healthVars
<1>13. CASE ManagerWait
  BY <1>13 DEF ManagerWait, Running, sessVars, poolVars, workerVars,
            healthVars
<1>14. CASE ManagerTop
  BY <1>14 DEF ManagerTop, Running, sessVars, poolVars, workerVars,
            healthVars
<1>15. CASE ManagerDial
  BY <1>15 DEF ManagerDial, Running, sessVars, poolVars, workerVars,
            healthVars
<1>16. ASSUME NEW s \in Sessions, ManagerConnected(s) PROVE Kept'
  BY <1>16 DEF ManagerConnected, Running, poolVars, workerVars, healthVars
<1>17. CASE ManagerFails
  BY <1>17 DEF ManagerFails, sessVars, poolVars, workerVars, healthVars
<1>18. CASE Offer
  BY <1>18 DEF Offer, Running, sessVars, poolVars, workerVars, healthVars
<1>19. CASE OfferCancelled
  BY <1>19 DEF OfferCancelled, CloseSession, Running, poolVars, workerVars,
            healthVars
<1>20. CASE HealthStop
  BY <1>20 DEF HealthStop, Running, sessVars, poolVars, workerVars,
            managerVars
<1>21. CASE Clean
  BY <1>21 DEF Clean, Running, sessVars, workerVars, managerVars, healthVars
<1>22. CASE RecyclePick
  BY <1>22 DEF RecyclePick, Expired, Running, sessVars, poolVars,
            workerVars, managerVars
<1>23. CASE RecycleClose
  BY <1>23 DEF RecycleClose, CloseSession, Running, poolVars, workerVars,
            managerVars
<1>24. CASE Cancel
  BY <1>24 DEF Cancel, Running, sessVars, poolVars, workerVars, managerVars,
            healthVars
<1>25. ASSUME NEW s \in Sessions, WatcherCloses(s) PROVE Kept'
  BY <1>25 DEF WatcherCloses, CloseSession, Running, poolVars, workerVars,
            managerVars, healthVars
<1>26. ASSUME NEW s \in Sessions, TransportFails(s) PROVE Kept'
  BY <1>26 DEF TransportFails, Running, poolVars, workerVars, managerVars,
            healthVars
<1>27. ASSUME NEW s \in Sessions, KeepAliveCloses(s) PROVE Kept'
  BY <1>27 DEF KeepAliveCloses, CloseSession, Running, poolVars, workerVars,
            managerVars, healthVars
<1>28. ASSUME NEW s \in Sessions, Collect(s) PROVE Kept'
  BY <1>28 DEF Collect, Running, poolVars, workerVars, managerVars,
            healthVars
<1>29. CASE Tick
  BY <1>29 DEF Tick, Running, sessVars, workerVars, managerVars, healthVars
<1>30. CASE UNCHANGED vars
  BY <1>30 DEF vars
<1> QED
  BY <1>1, <1>2, <1>3, <1>4, <1>5, <1>6, <1>7, <1>8, <1>9, <1>10, <1>11,
     <1>12, <1>13, <1>14, <1>15, <1>16, <1>17, <1>18, <1>19, <1>20, <1>21,
     <1>22, <1>23, <1>24, <1>25, <1>26, <1>27, <1>28, <1>29, <1>30, <1>31, <1>32
     DEF Next, WorkerStep, ManagerStep

(* Every step keeps the pool what the workers serve.                        *)
LEMMA ServedStep == PoolInv /\ [Next]_vars => PoolIsServed'
<1> USE PoolAssumption
<1> SUFFICES ASSUME PoolInv, [Next]_vars PROVE PoolIsServed'
  OBVIOUS
<1> USE DEF PoolInv, TypeOK, Holding, UnusedIsFree, OneHolder, PoolIsServed, Serving
<1>1. ASSUME NEW w \in Workers, WorkerTop(w) PROVE PoolIsServed'
  BY <1>1 DEF WorkerTop, Goto, Running, sessVars, poolVars, managerVars,
            healthVars
<1>2. ASSUME NEW w \in Workers, SelectOther(w) PROVE PoolIsServed'
  BY <1>2 DEF SelectOther, Goto, Running, sessVars, poolVars, managerVars,
            healthVars
<1>3. ASSUME NEW w \in Workers, TakeStandby(w) PROVE PoolIsServed'
  BY <1>3 DEF TakeStandby, Goto, Running, sessVars, poolVars, managerVars,
            healthVars
<1>4. ASSUME NEW w \in Workers, Promote(w) PROVE PoolIsServed'
  BY <1>4 DEF Promote, Goto, AddSession, Running, sessVars, managerVars,
            healthVars
<1>5. ASSUME NEW w \in Workers, LoopCheck(w) PROVE PoolIsServed'
  BY <1>5 DEF LoopCheck, Goto, RemoveSession, Running, sessVars,
            poolVars, managerVars, healthVars
<1>6. ASSUME NEW w \in Workers, StreamArrives(w) PROVE PoolIsServed'
  BY <1>6 DEF StreamArrives, Goto, Running, sessVars, poolVars, managerVars,
            healthVars
<1>7. ASSUME NEW w \in Workers, AcceptFails(w) PROVE PoolIsServed'
  BY <1>7 DEF AcceptFails, Goto, RemoveSession, Running, sessVars,
            managerVars, healthVars
<1>8. ASSUME NEW w \in Workers, Dial(w) PROVE PoolIsServed'
  BY <1>8 DEF Dial, Goto, Running, sessVars, poolVars, managerVars,
            healthVars
<1>31. ASSUME NEW w \in Workers, DialTLS(w) PROVE PoolIsServed'
  BY <1>31 DEF DialTLS, Goto, Running, sessVars, poolVars, managerVars,
            healthVars
<1>9. ASSUME NEW w \in Workers, NEW s \in Sessions, Connected(w, s) PROVE PoolIsServed'
  BY <1>9 DEF Connected, Goto, AddSession, Running, managerVars, healthVars
<1>10. ASSUME NEW w \in Workers, ConnectFails(w) PROVE PoolIsServed'
  BY <1>10 DEF ConnectFails, Goto, sessVars, poolVars, managerVars,
            healthVars
<1>11. ASSUME NEW w \in Workers, ServeFails(w) PROVE PoolIsServed'
  BY <1>11 DEF ServeFails, Goto, RemoveSession, Running, sessVars,
            managerVars, healthVars
<1>32. ASSUME NEW w \in Workers, CloseRemoved(w) PROVE PoolIsServed'
  BY <1>32 DEF CloseRemoved, Goto, CloseSession, Running, poolVars,
            managerVars, healthVars
<1>12. ASSUME NEW w \in Workers, Retry(w) PROVE PoolIsServed'
  BY <1>12 DEF Retry, Goto, Running, sessVars, poolVars, managerVars,
            healthVars
<1>13. CASE ManagerWait
  BY <1>13 DEF ManagerWait, Running, sessVars, poolVars, workerVars,
            healthVars
<1>14. CASE ManagerTop
  BY <1>14 DEF ManagerTop, Running, sessVars, poolVars, workerVars,
            healthVars
<1>15. CASE ManagerDial
  BY <1>15 DEF ManagerDial, Running, sessVars, poolVars, workerVars,
            healthVars
<1>16. ASSUME NEW s \in Sessions, ManagerConnected(s) PROVE PoolIsServed'
  BY <1>16 DEF ManagerConnected, Running, poolVars, workerVars, healthVars
<1>17. CASE ManagerFails
  BY <1>17 DEF ManagerFails, sessVars, poolVars, workerVars, healthVars
<1>18. CASE Offer
  BY <1>18 DEF Offer, Running, sessVars, poolVars, workerVars, healthVars
<1>19. CASE OfferCancelled
  BY <1>19 DEF OfferCancelled, CloseSession, Running, poolVars, workerVars,
            healthVars
<1>20. CASE HealthStop
  BY <1>20 DEF HealthStop, Running, sessVars, poolVars, workerVars,
            managerVars
<1>21. CASE Clean
  BY <1>21 DEF Clean, Running, sessVars, workerVars, managerVars, healthVars
<1>22. CASE RecyclePick
  BY <1>22 DEF RecyclePick, Expired, Running, sessVars, poolVars,
            workerVars, managerVars
<1>23. CASE RecycleClose
  BY <1>23 DEF RecycleClose, CloseSession, Running, poolVars, workerVars,
            managerVars
<1>24. CASE Cancel
  BY <1>24 DEF Cancel, Running, sessVars, poolVars, workerVars, managerVars,
            healthVars
<1>25. ASSUME NEW s \in Sessions, WatcherCloses(s) PROVE PoolIsServed'
  BY <1>25 DEF WatcherCloses, CloseSession, Running, poolVars, workerVars,
            managerVars, healthVars
<1>26. ASSUME NEW s \in Sessions, TransportFails(s) PROVE PoolIsServed'
  BY <1>26 DEF TransportFails, Running, poolVars, workerVars, managerVars,
            healthVars
<1>27. ASSUME NEW s \in Sessions, KeepAliveCloses(s) PROVE PoolIsServed'
  BY <1>27 DEF KeepAliveCloses, CloseSession, Running, poolVars, workerVars,
            managerVars, healthVars
<1>28. ASSUME NEW s \in Sessions, Collect(s) PROVE PoolIsServed'
  BY <1>28 DEF Collect, Running, poolVars, workerVars, managerVars,
            healthVars
<1>29. CASE Tick
  BY <1>29 DEF Tick, Running, sessVars, workerVars, managerVars, healthVars
<1>30. CASE UNCHANGED vars
  BY <1>30 DEF vars
<1> QED
  BY <1>1, <1>2, <1>3, <1>4, <1>5, <1>6, <1>7, <1>8, <1>9, <1>10, <1>11,
     <1>12, <1>13, <1>14, <1>15, <1>16, <1>17, <1>18, <1>19, <1>20, <1>21,
     <1>22, <1>23, <1>24, <1>25, <1>26, <1>27, <1>28, <1>29, <1>30, <1>31, <1>32
     DEF Next, WorkerStep, ManagerStep

(* The whole invariant is inductive.                                       *)
LEMMA PoolInvCorrect == Spec => []PoolInv
<1>1. Init => PoolInv
  <2> SUFFICES ASSUME Init PROVE PoolInv
    OBVIOUS
  <2> USE PoolAssumption DEF Init
  <2>1. TypeOK
    <3>1. ctxDone \in BOOLEAN /\ crashed \in BOOLEAN
      BY Zenon
    <3>2. age \in [Sessions -> 0..(MaxAge + 1)]
      OBVIOUS
    <3> QED BY <3>1, <3>2 DEF TypeOK, SessState, WorkerPc, ManagerPc, HealthPc
  <2>2. Holding /\ UnusedIsFree
    BY DEF Holding, UnusedIsFree
  <2>3. OneHolder /\ Kept
    BY DEF OneHolder, Kept, Alive
  <2>4. PoolIsServed
    BY DEF PoolIsServed, Serving
  <2> QED BY <2>1, <2>2, <2>3, <2>4 DEF PoolInv
<1>2. PoolInv /\ [Next]_vars => PoolInv'
  BY TypeStep, HoldingStep, UnusedStep, OneHolderStep, KeptStep, ServedStep DEF PoolInv
<1> QED
  BY <1>1, <1>2, PTL DEF Spec
-----------------------------------------------------------------------------
(* The pool's variables keep their types.                                  *)
THEOREM TypeCorrect == Spec => []TypeOK
  BY PoolInvCorrect, PTL DEF PoolInv

(* Promotion, dialling, recycling and shutdown never give one session two  *)
(* holders.                                                                *)
THEOREM OneHolderCorrect == Spec => []OneHolder
  BY PoolInvCorrect, PTL DEF PoolInv

(* A session that is not closed has a holder; the one exception is the     *)
(* standby left in the channel when all workers have returned.             *)
THEOREM NoLeakCorrect == Spec => []NoLeak
<1>1. PoolInv => NoLeak
  <2> SUFFICES ASSUME PoolInv, NEW s \in Sessions, Alive(s)
               PROVE  HasHolder(s) \/ (ctxDone /\ s = standbyCh)
    BY DEF NoLeak
  <2>1. s = standbyCh \/ s = mSess \/ \E w \in Workers : wSess[w] = s
    BY DEF PoolInv, Kept
  <2>2. CASE s = standbyCh /\ \A w \in Workers : wPc[w] = "done"
    <3>1. PICK w \in Workers : TRUE
      BY PoolAssumption
    <3>2. ctxDone
      BY <2>2, <3>1 DEF PoolInv, Holding
    <3> QED BY <2>2, <3>2
  <2>3. CASE s = standbyCh /\ \E w \in Workers : wPc[w] # "done"
    BY <2>3 DEF HasHolder
  <2> QED BY <2>1, <2>2, <2>3 DEF HasHolder
<1> QED BY <1>1, PoolInvCorrect, PTL

(* The pool holds what the workers serve, up to closed sessions.           *)
THEOREM PoolIsServedCorrect == Spec => []PoolIsServed
  BY PoolInvCorrect, PTL DEF PoolInv
=============================================================================
