-------------------------- MODULE ReverseUDPProofs --------------------------
(***************************************************************************)
(* Proofs about the reverse UDP listener, for any number of addresses and  *)
(* streams and every timeout.                                              *)
(***************************************************************************)
EXTENDS ReverseUDP, TLAPS

(***************************************************************************)
(* What the listener knows of the datagram and the stream in its hands.    *)
(* Under mu: a peer it did not find is still missing when its stream is    *)
(* opened and entered, and the stream is nobody else's.                    *)
(***************************************************************************)
HandInv ==
    /\ lpc \in {"lock", "open", "send", "seen", "write"} => key \in Keys
    /\ lpc = "open" => peers[key] = None /\ cur = None
    /\ lpc = "send" => /\ cur \in Streams /\ peers[key] = None
                       /\ st[cur] \in {"open", "dead"}
                       /\ \A k \in Keys : peers[k] # cur
    /\ lpc = "seen" => cur \in Streams /\ peers[key] = cur
    /\ lpc = "write" => cur \in Streams

(* After mu: as long as the listener has not waited past the timeout, its  *)
(* peer was not seen longer ago than the wait, so no sweep finds it stale. *)
WriteInv ==
    lpc = "write" /\ waited <= Timeout => peers[key] = cur /\ lastSeen[key] <= waited

Inv == UdpTypeOK /\ StreamsOwned /\ HandInv /\ WriteInv

(* The invariant gives FreshWrite: a peer's stream is never a closed one.  *)
LEMMA InvFresh == Inv => FreshWrite
  <1> SUFFICES ASSUME Inv, lpc = "write", waited <= Timeout
               PROVE  peers[key] = cur /\ st[cur] # "closed"
    BY DEF FreshWrite
  <1>1. key \in Keys /\ cur \in Streams /\ peers[key] = cur
    BY DEF Inv, HandInv, WriteInv
  <1>2. cur # None
    BY <1>1, UdpAssumption
  <1>3. st[cur] \in {"open", "dead"}
    BY <1>1, <1>2 DEF Inv, StreamsOwned
  <1> QED  BY <1>1, <1>3

LEMMA InitInv == Init => Inv
  <1> SUFFICES ASSUME Init PROVE Inv
    OBVIOUS
  <1>1. UdpTypeOK
    BY DEF Init, UdpTypeOK, ListenerPc
  <1>2. StreamsOwned
    BY DEF Init, StreamsOwned
  <1>3. HandInv /\ WriteInv
    BY DEF Init, HandInv, WriteInv
  <1> QED  BY <1>1, <1>2, <1>3 DEF Inv

(* The steps of the listener up to the moment it has the stream in hand.   *)
LEMMA ReceiveKeeps == ASSUME Inv, NEW k \in Keys, Receive(k) PROVE Inv'
  <1> USE DEF Receive
  <1>1. UdpTypeOK'
    BY DEF Inv, UdpTypeOK, ListenerPc
  <1>2. StreamsOwned'
    BY DEF Inv, StreamsOwned
  <1>3. HandInv' /\ WriteInv'
    BY DEF Inv, HandInv, WriteInv
  <1> QED  BY <1>1, <1>2, <1>3 DEF Inv

LEMMA ListenerStopsKeeps == ASSUME Inv, ListenerStops PROVE Inv'
  <1> USE DEF ListenerStops
  <1>1. UdpTypeOK'
    BY DEF Inv, UdpTypeOK, ListenerPc
  <1>2. StreamsOwned'
    BY DEF Inv, StreamsOwned
  <1>3. HandInv' /\ WriteInv'
    BY DEF Inv, HandInv, WriteInv
  <1> QED  BY <1>1, <1>2, <1>3 DEF Inv

LEMMA LockKeeps == ASSUME Inv, Lock PROVE Inv'
  <1> USE DEF Lock
  <1>0. key \in Keys /\ peers[key] \in Streams \union {None}
    BY DEF Inv, HandInv, UdpTypeOK
  <1>1. UdpTypeOK'
    BY <1>0 DEF Inv, UdpTypeOK, ListenerPc
  <1>2. StreamsOwned'
    BY DEF Inv, StreamsOwned
  <1>3. HandInv' /\ WriteInv'
    BY <1>0 DEF Inv, HandInv, WriteInv
  <1> QED  BY <1>1, <1>2, <1>3 DEF Inv

(* A free stream is no peer's, so the one opened under mu is the           *)
(* listener's alone.                                                       *)
LEMMA OpenStreamKeeps == ASSUME Inv, NEW s \in Streams, OpenStream(s) PROVE Inv'
  <1> USE DEF OpenStream
  <1>0. st \in [Streams -> {"free", "open", "dead", "closed"}] /\ s # None
    BY UdpAssumption DEF Inv, UdpTypeOK
  <1>1. UdpTypeOK'
    BY <1>0 DEF Inv, UdpTypeOK, ListenerPc
  <1>2. \A k \in Keys : peers[k] # s
    BY <1>0 DEF Inv, StreamsOwned
  <1>3. StreamsOwned'
    BY <1>0, <1>2 DEF Inv, StreamsOwned
  <1>4. HandInv' /\ WriteInv'
    BY <1>0, <1>2 DEF Inv, HandInv, WriteInv
  <1> QED  BY <1>1, <1>3, <1>4 DEF Inv

LEMMA OpenFailsKeeps == ASSUME Inv, OpenFails PROVE Inv'
  <1> USE DEF OpenFails
  <1>1. UdpTypeOK'
    BY DEF Inv, UdpTypeOK, ListenerPc
  <1>2. StreamsOwned'
    BY DEF Inv, StreamsOwned
  <1>3. HandInv' /\ WriteInv'
    BY DEF Inv, HandInv, WriteInv
  <1> QED  BY <1>1, <1>2, <1>3 DEF Inv

LEMMA AddPeerKeeps == ASSUME Inv, AddPeer PROVE Inv'
  <1> USE DEF AddPeer
  <1>0. /\ key \in Keys /\ cur \in Streams /\ st[cur] \in {"open", "dead"}
        /\ \A k \in Keys : peers[k] # cur
        /\ peers[key] = None
        /\ peers \in [Keys -> Streams \union {None}]
    BY DEF Inv, HandInv, UdpTypeOK
  <1>1. UdpTypeOK'
    BY <1>0 DEF Inv, UdpTypeOK, ListenerPc
  <1>2. StreamsOwned'
    <2>1. \A x \in Streams : st'[x] \in {"open", "dead"} => \E k \in Keys : peers'[k] = x
      <3> SUFFICES ASSUME NEW x \in Streams, st[x] \in {"open", "dead"}
                   PROVE  \E k \in Keys : peers'[k] = x
        OBVIOUS
      <3>1. CASE x = cur
        BY <1>0, <3>1
      <3>2. CASE x # cur
        <4>1. PICK k \in Keys : peers[k] = x
          BY <3>2 DEF Inv, StreamsOwned
        <4>2. k # key
          BY <1>0, <4>1, UdpAssumption
        <4> QED  BY <1>0, <4>1, <4>2
      <3> QED  BY <3>1, <3>2
    <2>2. \A k, l \in Keys : peers'[k] = peers'[l] /\ peers'[k] # None => k = l
      BY <1>0 DEF Inv, StreamsOwned
    <2>3. \A k \in Keys : peers'[k] # None => st'[peers'[k]] \in {"open", "dead"}
      BY <1>0 DEF Inv, StreamsOwned
    <2> QED  BY <2>1, <2>2, <2>3 DEF StreamsOwned
  <1>3. HandInv' /\ WriteInv'
    BY <1>0 DEF Inv, HandInv, WriteInv
  <1> QED  BY <1>1, <1>2, <1>3 DEF Inv

LEMMA SendFailsKeeps == ASSUME Inv, SendFails PROVE Inv'
  <1> USE DEF SendFails
  <1>0. /\ cur \in Streams /\ \A k \in Keys : peers[k] # cur
        /\ st \in [Streams -> {"free", "open", "dead", "closed"}]
    BY DEF Inv, HandInv, UdpTypeOK
  <1>1. UdpTypeOK'
    BY <1>0 DEF Inv, UdpTypeOK, ListenerPc
  <1>2. StreamsOwned'
    BY <1>0, UdpAssumption DEF Inv, StreamsOwned, UdpTypeOK
  <1>3. HandInv' /\ WriteInv'
    BY DEF Inv, HandInv, WriteInv
  <1> QED  BY <1>1, <1>2, <1>3 DEF Inv

(* The wait begins as lastSeen is set, and the stream is the peer's.       *)
LEMMA SeenKeeps == ASSUME Inv, Seen PROVE Inv'
  <1> USE DEF Seen
  <1>0. key \in Keys /\ lastSeen \in [Keys -> Nat]
    BY DEF Inv, HandInv, UdpTypeOK
  <1>1. UdpTypeOK'
    BY <1>0 DEF Inv, UdpTypeOK, ListenerPc
  <1>2. StreamsOwned'
    BY DEF Inv, StreamsOwned
  <1>3. HandInv'
    BY DEF Inv, HandInv
  <1>4. WriteInv'
    BY <1>0 DEF Inv, HandInv, WriteInv
  <1> QED  BY <1>1, <1>2, <1>3, <1>4 DEF Inv

LEMMA WriteKeeps == ASSUME Inv, Write PROVE Inv'
  <1> USE DEF Write
  <1>1. UdpTypeOK'
    BY DEF Inv, UdpTypeOK, ListenerPc
  <1>2. StreamsOwned'
    BY DEF Inv, StreamsOwned
  <1>3. HandInv' /\ WriteInv'
    BY DEF Inv, HandInv, WriteInv
  <1> QED  BY <1>1, <1>2, <1>3 DEF Inv

(***************************************************************************)
(* The sweep: it closes a peer's stream and deletes the peer in one        *)
(* section, and the listener is not inside mu then.                        *)
(***************************************************************************)
LEMMA CleanKeeps == ASSUME Inv, Clean PROVE Inv'
  <1> USE DEF Clean
  <1>0. /\ lpc \notin {"open", "send", "seen"}
        /\ peers \in [Keys -> Streams \union {None}]
        /\ lastSeen \in [Keys -> Nat] /\ lag \in Nat /\ waited \in Nat
        /\ st \in [Streams -> {"free", "open", "dead", "closed"}]
    BY DEF Inv, UdpTypeOK
  <1>1. UdpTypeOK'
    BY <1>0 DEF Inv, UdpTypeOK, ListenerPc
  <1>2. StreamsOwned'
    <2>1. \A x \in Streams : st'[x] \in {"open", "dead"} => \E k \in Keys : peers'[k] = x
      <3> SUFFICES ASSUME NEW x \in Streams, st'[x] \in {"open", "dead"}
                   PROVE  \E k \in Keys : peers'[k] = x
        OBVIOUS
      <3>1. st[x] \in {"open", "dead"} /\ \A k \in Keys : peers[k] = x => ~Stale(k)
        BY <1>0
      <3>2. PICK k \in Keys : peers[k] = x
        BY <1>0, <3>1 DEF Inv, StreamsOwned
      <3> QED  BY <3>1, <3>2
    <2>2. \A k, l \in Keys : peers'[k] = peers'[l] /\ peers'[k] # None => k = l
      BY DEF Inv, StreamsOwned
    <2>3. \A k \in Keys : peers'[k] # None => st'[peers'[k]] \in {"open", "dead"}
      <3> SUFFICES ASSUME NEW k \in Keys, peers'[k] # None
                   PROVE  st'[peers'[k]] \in {"open", "dead"}
        OBVIOUS
      <3>1. ~Stale(k) /\ peers'[k] = peers[k] /\ peers[k] \in Streams
        BY <1>0
      <3>2. \A l \in Keys : peers[l] = peers[k] => ~Stale(l)
        BY <3>1 DEF Inv, StreamsOwned
      <3>3. st'[peers[k]] = st[peers[k]]
        BY <3>1, <3>2
      <3> QED  BY <3>1, <3>3 DEF Inv, StreamsOwned
    <2> QED  BY <2>1, <2>2, <2>3 DEF StreamsOwned
  <1>3. HandInv'
    BY <1>0 DEF Inv, HandInv
  <1>4. WriteInv'
    <2> SUFFICES ASSUME lpc = "write", waited <= Timeout
                 PROVE  peers'[key] = cur /\ lastSeen'[key] <= waited
      BY DEF WriteInv
    <2>1. key \in Keys /\ peers[key] = cur /\ lastSeen[key] <= waited
      BY DEF Inv, HandInv, WriteInv
    <2>2. ~Stale(key)
      BY <1>0, <2>1, UdpAssumption DEF Stale
    <2> QED  BY <2>1, <2>2
  <1> QED  BY <1>1, <1>2, <1>3, <1>4 DEF Inv

(* Streams that die or are collected: a peer's stream is never collected.  *)
LEMMA StreamDiesKeeps == ASSUME Inv, NEW s \in Streams, StreamDies(s) PROVE Inv'
  <1> USE DEF StreamDies
  <1>0. /\ st \in [Streams -> {"free", "open", "dead", "closed"}]
        /\ peers \in [Keys -> Streams \union {None}]
    BY DEF Inv, UdpTypeOK
  <1>1. UdpTypeOK'
    BY <1>0 DEF Inv, UdpTypeOK, ListenerPc
  <1>2. StreamsOwned'
    BY <1>0 DEF Inv, StreamsOwned
  <1>3. HandInv' /\ WriteInv'
    BY <1>0 DEF Inv, HandInv, WriteInv
  <1> QED  BY <1>1, <1>2, <1>3 DEF Inv

LEMMA CollectKeeps == ASSUME Inv, NEW s \in Streams, Collect(s) PROVE Inv'
  <1> USE DEF Collect
  <1>0. /\ st \in [Streams -> {"free", "open", "dead", "closed"}]
        /\ peers \in [Keys -> Streams \union {None}]
    BY DEF Inv, UdpTypeOK
  <1>1. UdpTypeOK'
    BY <1>0 DEF Inv, UdpTypeOK, ListenerPc
  <1>2. StreamsOwned'
    BY <1>0 DEF Inv, StreamsOwned
  <1>3. HandInv' /\ WriteInv'
    BY <1>0 DEF Inv, HandInv, WriteInv
  <1> QED  BY <1>1, <1>2, <1>3 DEF Inv

(* Time passes: the peer in hand and the wait grow old together.           *)
LEMMA TickKeeps == ASSUME Inv, Tick PROVE Inv'
  <1> USE DEF Tick
  <1>0. /\ lastSeen \in [Keys -> Nat] /\ lag \in Nat /\ waited \in Nat
        /\ MaxAge \in Nat
    BY UdpAssumption DEF Inv, UdpTypeOK, MaxAge
  <1>1. UdpTypeOK'
    <2>1. lastSeen' \in [Keys -> Nat] /\ lag' \in Nat /\ waited' \in Nat
      BY <1>0 DEF Older
    <2> QED  BY <2>1 DEF Inv, UdpTypeOK, ListenerPc
  <1>2. StreamsOwned'
    BY DEF Inv, StreamsOwned
  <1>3. HandInv'
    BY DEF Inv, HandInv
  <1>4. WriteInv'
    <2> SUFFICES ASSUME lpc = "write", waited' <= Timeout
                 PROVE  peers[key] = cur /\ lastSeen'[key] <= waited'
      BY DEF WriteInv
    <2>1. waited <= Timeout /\ waited' = Older(waited, MaxAge)
      BY <1>0, UdpAssumption DEF Older
    <2>2. key \in Keys /\ peers[key] = cur /\ lastSeen[key] <= waited
      BY <2>1 DEF Inv, HandInv, WriteInv
    <2>3. lastSeen'[key] <= Older(lastSeen[key], MaxAge)
      BY <1>0, <2>2 DEF Older
    <2> QED  BY <1>0, <2>1, <2>2, <2>3 DEF Older
  <1> QED  BY <1>1, <1>2, <1>3, <1>4 DEF Inv

(* The other steps touch neither the map nor what the listener holds.      *)
LEMMA OthersKeep ==
    ASSUME Inv,
           \/ CleanTick \/ CleanStops \/ Cancel \/ UNCHANGED vars
           \/ \E k \in Keys : SenderQuits(k)
           \/ \E s \in Streams : ReaderEnds(s) \/ WindowChanges(s)
    PROVE  Inv'
  <1> DEFINE Quiet == /\ UNCHANGED <<mu, lpc, key, cur, peers, lastSeen, st, waited>>
                      /\ cpc' \in {"idle", "lock", "stopped"} /\ lag' \in Nat
                      /\ ctxDone' \in BOOLEAN
                      /\ stalled' \in SUBSET Streams /\ sending' \in SUBSET Keys
                      /\ reader' \in [Streams -> {"none", "run", "done"}]
  <1>1. Quiet
    <2> USE DEF Inv, UdpTypeOK
    <2>1. CASE CleanTick \/ CleanStops
      BY <2>1 DEF CleanTick, CleanStops
    <2>2. CASE UNCHANGED vars
      BY <2>2 DEF vars
    <2>3. ASSUME NEW k \in Keys, SenderQuits(k) PROVE Quiet
      BY <2>3 DEF SenderQuits
    <2>4. ASSUME NEW s \in Streams, ReaderEnds(s) PROVE Quiet
      BY <2>4 DEF ReaderEnds
    <2>5. ASSUME NEW s \in Streams, WindowChanges(s) PROVE Quiet
      BY <2>5 DEF WindowChanges
    <2>6. CASE Cancel
      BY <2>6 DEF Cancel
    <2> QED  BY <2>1, <2>2, <2>3, <2>4, <2>5, <2>6
  <1>2. UdpTypeOK'
    BY <1>1 DEF Inv, UdpTypeOK, ListenerPc
  <1>3. StreamsOwned' /\ HandInv' /\ WriteInv'
    BY <1>1 DEF Inv, StreamsOwned, HandInv, WriteInv
  <1> QED  BY <1>2, <1>3 DEF Inv

LEMMA NextInv == ASSUME Inv, [Next]_vars PROVE Inv'
  <1>1. ASSUME NEW k \in Keys, Receive(k) PROVE Inv'
    BY <1>1, ReceiveKeeps
  <1>2. CASE Listener
    BY <1>2, ListenerStopsKeeps, LockKeeps, OpenStreamKeeps, OpenFailsKeeps,
       AddPeerKeeps, SendFailsKeeps, SeenKeeps, WriteKeeps DEF Listener
  <1>3. CASE Clean
    BY <1>3, CleanKeeps
  <1>4. ASSUME NEW s \in Streams, StreamDies(s) \/ Collect(s) PROVE Inv'
    BY <1>4, StreamDiesKeeps, CollectKeeps
  <1>5. CASE Tick
    BY <1>5, TickKeeps
  <1> QED  BY <1>1, <1>2, <1>3, <1>4, <1>5, OthersKeep DEF Next

(* The listener and its cleanup keep the invariant.                        *)
LEMMA InvCorrect == Spec => []Inv
  BY InitInv, NextInv, PTL DEF Spec

(* startReverseUDP's variables keep their types, and the listener holds mu *)
(* exactly between its Lock and its Unlock, on every path through it.      *)
THEOREM UdpTypeCorrect == Spec => []UdpTypeOK
  <1>1. Inv => UdpTypeOK
    BY DEF Inv
  <1> QED  BY <1>1, InvCorrect, PTL

(* No error path of the listener and no sweep loses a stream that is not   *)
(* closed, shares one between two peers or leaves a closed one in the map. *)
THEOREM StreamsOwnedCorrect == Spec => []StreamsOwned
  <1>1. Inv => StreamsOwned
    BY DEF Inv
  <1> QED  BY <1>1, InvCorrect, PTL

(* The Write that follows the Unlock goes to a stream the cleanup has not  *)
(* closed, for every timeout and however late the cleanup gets the lock.   *)
THEOREM FreshWriteCorrect == Spec => []FreshWrite
  BY InvFresh, InvCorrect, PTL
=============================================================================
