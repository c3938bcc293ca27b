--------------------------- MODULE HandshakeProofs --------------------------
(***************************************************************************)
(* Proofs about Handshake: neither of the two readers that read ahead      *)
(* loses, repeats or reorders a frame of the tunnel.                       *)
(***************************************************************************)
EXTENDS Handshake, SequenceTheorems, TLAPS

(* What the server of an accepted request writes at a position: the head   *)
(* of the response at 0, then the frames.  Those of the client are at the  *)
(* same positions.                                                         *)
Frame(p) == IF p = 0 THEN Resp ELSE p - 1

(* s holds what is written from position p on, without a gap.              *)
From(s, p) == \A i \in 1..Len(s) : s[i] = Frame(p + i - 1)

LEMMA FrameInt == ASSUME NEW p \in Nat PROVE Frame(p) \in Int
  BY DEF Frame, Resp

LEMMA FromEmpty == ASSUME NEW p \in Nat PROVE From(<<>>, p)
  BY DEF From

(* A sequence grows at its end by what is written next.                    *)
LEMMA FromAppend ==
  ASSUME NEW s \in Seq(Int), NEW p \in Nat, From(s, p)
  PROVE  /\ Append(s, Frame(p + Len(s))) \in Seq(Int)
         /\ Len(Append(s, Frame(p + Len(s)))) = Len(s) + 1
         /\ From(Append(s, Frame(p + Len(s))), p)
<1> DEFINE f == Frame(p + Len(s))
<1>1. f \in Int
  BY FrameInt
<1> HIDE DEF f
<1>2. Append(s, f) \in Seq(Int) /\ Len(Append(s, f)) = Len(s) + 1
  BY <1>1
<1>3. ASSUME NEW i \in 1..(Len(s) + 1) PROVE Append(s, f)[i] = Frame(p + i - 1)
  <2>1. CASE i <= Len(s)
    BY <1>1, <2>1 DEF From
  <2>2. CASE i = Len(s) + 1
    BY <1>1, <2>2 DEF f
  <2> QED BY <2>1, <2>2
<1> QED BY <1>2, <1>3 DEF From, f

(* It shrinks at its front by what comes first.                            *)
LEMMA FromTail ==
  ASSUME NEW s \in Seq(Int), NEW p \in Nat, From(s, p), s # <<>>
  PROVE  /\ Head(s) = Frame(p)
         /\ Tail(s) \in Seq(Int) /\ Len(Tail(s)) = Len(s) - 1
         /\ Len(s) \in Nat /\ Len(s) > 0
         /\ From(Tail(s), p + 1)
<1>1. Len(s) \in Nat /\ Len(s) > 0
  BY EmptySeq, LenProperties
<1>2. Head(s) = s[1] /\ Tail(s) \in Seq(Int) /\ Len(Tail(s)) = Len(s) - 1
  BY HeadTailProperties
<1>3. \A i \in 1..Len(Tail(s)) : Tail(s)[i] = s[i + 1]
  BY HeadTailProperties
<1>4. s[1] = Frame(p)
  BY <1>1 DEF From
<1>5. \A i \in 1..Len(Tail(s)) : s[i + 1] = Frame(p + 1 + i - 1)
  BY <1>1, <1>2 DEF From
<1> QED BY <1>1, <1>2, <1>3, <1>4, <1>5 DEF From

(* A cut leaves two such sequences.                                        *)
LEMMA FromCut ==
  ASSUME NEW s \in Seq(Int), NEW p \in Nat, From(s, p), NEW k \in 0..Len(s)
  PROVE  /\ SubSeq(s, 1, k) \in Seq(Int) /\ Len(SubSeq(s, 1, k)) = k
         /\ From(SubSeq(s, 1, k), p)
         /\ SubSeq(s, k + 1, Len(s)) \in Seq(Int)
         /\ Len(SubSeq(s, k + 1, Len(s))) = Len(s) - k
         /\ From(SubSeq(s, k + 1, Len(s)), p + k)
<1>1. Len(s) \in Nat
  BY LenProperties
<1>2. SubSeq(s, 1, k) \in Seq(Int) /\ Len(SubSeq(s, 1, k)) = k
  BY <1>1
<1>3. \A i \in 1..k : SubSeq(s, 1, k)[i] = s[i]
  BY <1>1
<1>4. SubSeq(s, k + 1, Len(s)) \in Seq(Int) /\ Len(SubSeq(s, k + 1, Len(s))) = Len(s) - k
  BY <1>1
<1>5. \A i \in 1..(Len(s) - k) : SubSeq(s, k + 1, Len(s))[i] = s[k + i]
  BY <1>1
<1>6. \A i \in 1..(Len(s) - k) : s[k + i] = Frame(p + k + i - 1)
  BY <1>1 DEF From
<1> QED BY <1>1, <1>2, <1>3, <1>4, <1>5, <1>6 DEF From

(* Two that meet make one.                                                 *)
LEMMA FromConcat ==
  ASSUME NEW s \in Seq(Int), NEW t \in Seq(Int), NEW p \in Nat,
         From(s, p), From(t, p + Len(s))
  PROVE  /\ s \o t \in Seq(Int) /\ Len(s \o t) = Len(s) + Len(t)
         /\ From(s \o t, p)
<1>1. Len(s) \in Nat /\ Len(t) \in Nat
  BY LenProperties
<1>2. s \o t \in Seq(Int) /\ Len(s \o t) = Len(s) + Len(t)
  BY ConcatProperties
<1>3. ASSUME NEW i \in 1..(Len(s) + Len(t)) PROVE (s \o t)[i] = Frame(p + i - 1)
  <2>1. (s \o t)[i] = IF i <= Len(s) THEN s[i] ELSE t[i - Len(s)]
    BY ConcatProperties
  <2>2. CASE i <= Len(s)
    BY <1>1, <2>1, <2>2 DEF From
  <2>3. CASE i > Len(s)
    <3>1. i - Len(s) \in 1..Len(t)
      BY <1>1, <2>3
    <3>2. t[i - Len(s)] = Frame(p + Len(s) + (i - Len(s)) - 1)
      BY <3>1 DEF From
    <3>3. p + Len(s) + (i - Len(s)) - 1 = p + i - 1
      BY <1>1
    <3> QED BY <1>1, <2>1, <2>3, <3>2, <3>3
  <2> QED BY <1>1, <2>2, <2>3
<1> QED BY <1>2, <1>3 DEF From

(* All frames from the first on.                                           *)
LEMMA FromUpto ==
  ASSUME NEW s \in Seq(Int), NEW n \in Nat, From(s, 1), Len(s) = n
  PROVE  s = Upto(n)
<1>1. \A i \in 1..n : s[i] = i - 1
  BY DEF From, Frame
<1>2. s = [i \in 1..n |-> s[i]]
  BY LenProperties
<1> QED BY <1>1, <1>2 DEF Upto
-----------------------------------------------------------------------------
HSType ==
    /\ asks \in Requests
    /\ c2s \in Seq(Int) /\ s2c \in Seq(Int) /\ rbuf \in Seq(Int)
    /\ cGot \in Seq(Int) /\ sGot \in Seq(Int)
    /\ cSent \in Nat /\ sSent \in Nat
    /\ cpc \in {"dial", "sent", "resp", "tunnel", "failed"}
    /\ spc \in {"http", "hijacked", "tunnel", "decoy", "closed"}
    /\ rpc \in {"off", "call", "blocked", "done"}
    /\ close \in {"no", "conn", "put", "nil"}

(* The order of the client's life: the receive loop and Close belong to    *)
(* the tunnel, and the loop waits on the connection with an empty reader.  *)
ClientOrder ==
    /\ cpc \in {"dial", "sent"} => rbuf = <<>>
    /\ rpc # "off" => cpc = "tunnel"
    /\ close # "no" => cpc = "tunnel"
    /\ rpc = "blocked" => rbuf = <<>>
    /\ cpc = "tunnel" => Accepted

(* While the HTTP server reads, the request is all that was sent.          *)
HttpClean ==
    spc = "http" =>
        /\ c2s = <<>> \/ c2s = <<Req>>
        /\ cSent = 0 /\ sSent = 0
        /\ s2c = <<>> /\ rbuf = <<>> /\ sGot = <<>>
        /\ cpc # "tunnel"
        /\ cpc = "dial" => c2s = <<>>

HijackedClean ==
    spc = "hijacked" =>
        /\ asks = "tunnel"
        /\ c2s = <<>> /\ cSent = 0 /\ sSent = 0
        /\ s2c = <<>> /\ rbuf = <<>> /\ sGot = <<>>
        /\ cpc \notin {"dial", "tunnel"}

UpPos ==
    spc = "tunnel" =>
        /\ asks = "tunnel" /\ cpc # "dial"
        /\ From(sGot, 1) /\ From(c2s, 1 + Len(sGot))
        /\ Len(sGot) + Len(c2s) = cSent

(* Before the client's tunnel: the 101 and the frames after it are in the  *)
(* reader and under way, or the server has not answered.                   *)
ShakePos ==
    asks = "tunnel" /\ cpc \in {"dial", "sent", "resp"} =>
        /\ From(rbuf, 0) /\ From(s2c, Len(rbuf))
        /\ \/ spc \in {"tunnel", "closed"} /\ Len(rbuf) + Len(s2c) = sSent + 1
           \/ spc # "tunnel" /\ rbuf = <<>> /\ s2c = <<>> /\ sSent = 0

DownPos ==
    asks = "tunnel" /\ cpc = "tunnel" /\ close = "no" =>
        /\ spc \in {"tunnel", "closed"}
        /\ From(cGot, 1) /\ From(rbuf, 1 + Len(cGot))
        /\ From(s2c, 1 + Len(cGot) + Len(rbuf))
        /\ Len(cGot) + Len(rbuf) + Len(s2c) = sSent

Quiet == cpc # "tunnel" => cGot = <<>>

DecoyAsks == spc = "decoy" => asks # "tunnel"

HSInv ==
    /\ HSType /\ ClientOrder /\ HttpClean /\ HijackedClean
    /\ UpPos /\ ShakePos /\ DownPos /\ Quiet /\ DecoyAsks
-----------------------------------------------------------------------------
LEMMA NonEmpty ==
  ASSUME NEW s \in Seq(Int), s # <<>>
  PROVE  Head(s) \in Int /\ Tail(s) \in Seq(Int) /\ Len(s) \in Nat \ {0}
  BY HeadTailProperties, EmptySeq, LenProperties

LEMMA SubSeqType ==
  ASSUME NEW s \in Seq(Int), NEW k \in 0..Len(s)
  PROVE  SubSeq(s, 1, k) \in Seq(Int) /\ SubSeq(s, k + 1, Len(s)) \in Seq(Int)
  BY LenProperties

LEMMA EmptyType == <<>> \in Seq(Int)
  OBVIOUS

LEMMA HSTypeStep == ASSUME HSType, Next PROVE HSType'
<1> USE DEF HSType
<1>1. CASE SendRequest
  BY <1>1 DEF SendRequest, Req
<1>2. CASE GetReader
  BY <1>2 DEF GetReader
<1>3. CASE Fill
  <2>1. PICK k \in 1..BufCap :
          /\ k <= Len(s2c)
          /\ rbuf' = rbuf \o SubSeq(s2c, 1, k)
          /\ s2c' = SubSeq(s2c, k + 1, Len(s2c))
    BY <1>3 DEF Fill
  <2>2. k \in 0..Len(s2c)
    BY <2>1, LenProperties
  <2>3. rbuf' \in Seq(Int) /\ s2c' \in Seq(Int)
    BY <2>1, <2>2, SubSeqType, ConcatProperties
  <2> QED BY <1>3, <2>3 DEF Fill
<1>4. CASE Tunnel
  <2>1. Len(rbuf) >= Body
    <3>1. Len(rbuf) \in Nat \ {0}
      BY <1>4, NonEmpty DEF Tunnel, NeedsMore, Accepted
    <3>2. asks = "tunnel" \/ Len(rbuf) # 1
      BY <1>4 DEF Tunnel, NeedsMore
    <3>3. CASE asks = "tunnel"
      BY <3>1, <3>3 DEF Body
    <3>4. CASE asks # "tunnel"
      <4>1. \A n \in Nat \ {0} : n # 1 => n >= 2
        OBVIOUS
      <4> QED BY <3>1, <3>2, <3>4, <4>1, Zenon DEF Body
    <3> QED BY <3>3, <3>4
  <2>2. rbuf' \in Seq(Int)
    BY <1>4, <2>1, SubSeqType, LenProperties DEF Tunnel, Body
  <2> QED BY <1>4, <2>2 DEF Tunnel
<1>5. CASE HandshakeFails
  <2>1. rbuf' = rbuf \/ rbuf' = <<>>
    BY <1>5 DEF HandshakeFails
  <2>2. /\ cpc' = "failed"
        /\ UNCHANGED <<asks, c2s, s2c, spc, cSent, sSent, cGot, sGot, rpc, close>>
    BY <1>5 DEF HandshakeFails
  <2>3. rbuf' \in Seq(Int)
    BY <2>1, EmptyType, Zenon
  <2> QED BY <2>2, <2>3
<1>6. CASE ReadCall
  <2>1. \/ UNCHANGED <<rbuf, cGot, rpc>>
        \/ rbuf # <<>> /\ cGot' = Append(cGot, Head(rbuf)) /\ rbuf' = Tail(rbuf) /\ rpc' = rpc
        \/ UNCHANGED <<rbuf, cGot>> /\ rpc' \in {"done", "blocked"}
    BY <1>6 DEF ReadCall
  <2>2. UNCHANGED <<asks, c2s, s2c, cpc, spc, cSent, sSent, sGot, close>>
    BY <1>6 DEF ReadCall
  <2>3. rbuf' \in Seq(Int) /\ cGot' \in Seq(Int)
    <3>1. CASE UNCHANGED <<rbuf, cGot>>
      BY <3>1
    <3>2. CASE rbuf # <<>> /\ cGot' = Append(cGot, Head(rbuf)) /\ rbuf' = Tail(rbuf)
      BY <3>2, NonEmpty
    <3> QED BY <2>1, <3>1, <3>2
  <2> QED BY <2>1, <2>2, <2>3
<1>7. CASE ReadReturns
  <2>1. /\ s2c # <<>> /\ cGot' = Append(cGot, Head(s2c)) /\ rpc' = "call"
        /\ UNCHANGED <<asks, c2s, cpc, spc, r, cSent, sSent, sGot, close, crashed>>
    BY <1>7 DEF ReadReturns
  <2>2. PICK k \in 0..(BufCap - 1) :
          /\ k <= Len(Tail(s2c))
          /\ rbuf' = SubSeq(Tail(s2c), 1, k)
          /\ s2c' = SubSeq(Tail(s2c), k + 1, Len(Tail(s2c)))
    BY <1>7 DEF ReadReturns
  <2>3. Head(s2c) \in Int /\ Tail(s2c) \in Seq(Int)
    BY <2>1, NonEmpty
  <2>4. rbuf' \in Seq(Int) /\ s2c' \in Seq(Int)
    BY <2>2, <2>3, SubSeqType, LenProperties, HandshakeAssumption
  <2> QED BY <2>1, <2>3, <2>4
<1>8. CASE ReadFails
  BY <1>8 DEF ReadFails
<1>9. CASE Hijack
  <2>1. c2s' \in Seq(Int)
    BY <1>9, SubSeqType, LenProperties DEF Hijack
  <2> QED BY <1>9, <2>1 DEF Hijack
<1>10. CASE SwitchProtocols
  BY <1>10 DEF SwitchProtocols, Resp
<1>11. CASE Decoy
  <2>1. <<Resp, Page>> \in Seq(Int)
    BY DEF Resp, Page
  <2>2. s2c' \in Seq(Int)
    BY <1>11, <2>1, ConcatProperties DEF Decoy
  <2> QED BY <1>11, <2>2, NonEmpty DEF Decoy
<1>12. CASE BadRequest
  BY <1>12 DEF BadRequest, Page
<1>13. CASE ServerSends
  BY <1>13 DEF ServerSends
<1>14. CASE ServerReads
  BY <1>14, NonEmpty DEF ServerReads
<1>15. CASE ServerCloses
  BY <1>15 DEF ServerCloses
<1>16. CASE ClientSends
  BY <1>16 DEF ClientSends
<1>17. CASE CloseConn
  BY <1>17 DEF CloseConn
<1>18. CASE PutReader
  BY <1>18 DEF PutReader
<1>19. CASE NilReader
  BY <1>19 DEF NilReader
<1> QED
  BY <1>1, <1>2, <1>3, <1>4, <1>5, <1>6, <1>7, <1>8, <1>9, <1>10, <1>11, <1>12, <1>13,
     <1>14, <1>15, <1>16, <1>17, <1>18, <1>19 DEF Next, Client, Loop, Server
-----------------------------------------------------------------------------
(* What holds of the order in which the two sides go on.                   *)
Control == ClientOrder /\ HttpClean /\ HijackedClean /\ Quiet /\ DecoyAsks

LEMMA HSControlStep ==
  ASSUME HSType, Control, Next
  PROVE  Control'
<1> USE DEF Control, ClientOrder, HttpClean, HijackedClean, Quiet, DecoyAsks, Accepted
<1>1. CASE SendRequest
  <2>1. spc = "http" => c2s' = <<Req>>
    <3>1. Append(<<>>, Req) = <<Req>>
      OBVIOUS
    <3> QED BY <1>1, <3>1, Zenon DEF SendRequest
  <2> QED BY <1>1, <2>1 DEF SendRequest
<1>2. CASE GetReader
  BY <1>2 DEF HSType, GetReader
<1>3. CASE Fill
  BY <1>3 DEF HSType, Fill
<1>4. CASE Tunnel
  BY <1>4 DEF HSType, Tunnel, NeedsMore
<1>5. CASE HandshakeFails
  BY <1>5 DEF HSType, HandshakeFails
<1>6. CASE ReadCall
  BY <1>6 DEF HSType, ReadCall
<1>7. CASE ReadReturns
  BY <1>7 DEF HSType, ReadReturns
<1>8. CASE ReadFails
  BY <1>8 DEF HSType, ReadFails
<1>9. CASE Hijack
  <2>1. c2s = <<Req>> /\ cpc # "dial"
    BY <1>9 DEF Hijack
  <2>2. c2s' = <<>>
    <3>1. PICK k \in 1..Len(c2s) : c2s' = SubSeq(c2s, k + 1, Len(c2s))
      BY <1>9 DEF Hijack
    <3>2. Len(c2s) = 1
      BY <2>1
    <3>3. k = 1
      BY <3>1, <3>2
    <3>4. SubSeq(<<Req>>, 2, 1) = <<>>
      BY DEF Req
    <3> QED BY <2>1, <3>1, <3>2, <3>3, <3>4
  <2> QED BY <1>9, <2>1, <2>2 DEF Hijack, validate
<1>10. CASE SwitchProtocols
  BY <1>10 DEF HSType, SwitchProtocols
<1>11. CASE Decoy
  BY <1>11 DEF HSType, Decoy, validate
<1>12. CASE BadRequest
  BY <1>12 DEF HSType, BadRequest
<1>13. CASE ServerSends
  BY <1>13 DEF HSType, ServerSends
<1>14. CASE ServerReads
  BY <1>14 DEF HSType, ServerReads
<1>15. CASE ServerCloses
  BY <1>15 DEF HSType, ServerCloses
<1>16. CASE ClientSends
  BY <1>16 DEF HSType, ClientSends
<1>17. CASE CloseConn
  BY <1>17 DEF HSType, CloseConn
<1>18. CASE PutReader
  BY <1>18 DEF HSType, PutReader
<1>19. CASE NilReader
  BY <1>19 DEF HSType, NilReader
<1> QED
  BY <1>1, <1>2, <1>3, <1>4, <1>5, <1>6, <1>7, <1>8, <1>9, <1>10, <1>11, <1>12, <1>13,
     <1>14, <1>15, <1>16, <1>17, <1>18, <1>19 DEF Next, Client, Loop, Server

LEMMA HSUpStep ==
  ASSUME HSType, Control, UpPos, Next
  PROVE  UpPos'
<1> SUFFICES ASSUME spc' = "tunnel"
             PROVE  /\ asks' = "tunnel" /\ cpc' # "dial"
                    /\ From(sGot', 1) /\ From(c2s', 1 + Len(sGot'))
                    /\ Len(sGot') + Len(c2s') = cSent'
  BY DEF UpPos, From
<1>1. CASE SwitchProtocols
  <2>1. asks = "tunnel" /\ cpc # "dial" /\ c2s = <<>> /\ sGot = <<>> /\ cSent = 0
    BY <1>1 DEF SwitchProtocols, Control, HijackedClean
  <2>2. asks' = asks /\ cpc' = cpc /\ c2s' = <<>> /\ sGot' = <<>> /\ cSent' = 0
    BY <1>1, <2>1 DEF SwitchProtocols
  <2> QED BY <2>1, <2>2, FromEmpty
<1>2. CASE ServerReads
  <2>1. /\ asks = "tunnel" /\ cpc # "dial"
        /\ From(sGot, 1) /\ From(c2s, 1 + Len(sGot))
        /\ Len(sGot) + Len(c2s) = cSent
    BY <1>2 DEF ServerReads, UpPos
  <2>2. /\ c2s # <<>> /\ sGot' = Append(sGot, Head(c2s)) /\ c2s' = Tail(c2s)
        /\ asks' = asks /\ cpc' = cpc /\ cSent' = cSent
    BY <1>2 DEF ServerReads
  <2>3. /\ Head(c2s) = Frame(1 + Len(sGot)) /\ From(c2s', 1 + Len(sGot) + 1)
        /\ Len(c2s') = Len(c2s) - 1
    BY <2>1, <2>2, FromTail, LenProperties DEF HSType
  <2>4. From(sGot', 1) /\ Len(sGot') = Len(sGot) + 1
    BY <2>1, <2>2, <2>3, FromAppend DEF HSType
  <2>5. Len(sGot) \in Nat /\ Len(c2s) \in Nat
    BY LenProperties DEF HSType
  <2> QED BY <2>1, <2>2, <2>3, <2>4, <2>5
<1>3. CASE ClientSends
  <2>1. /\ asks = "tunnel"
        /\ From(sGot, 1) /\ From(c2s, 1 + Len(sGot))
        /\ Len(sGot) + Len(c2s) = cSent
    BY <1>3 DEF ClientSends, UpPos
  <2>2. /\ c2s' = Append(c2s, cSent) /\ cSent' = cSent + 1
        /\ asks' = asks /\ sGot' = sGot /\ cpc' = "tunnel"
    BY <1>3 DEF ClientSends
  <2>3. Len(sGot) \in Nat /\ Len(c2s) \in Nat
    BY LenProperties DEF HSType
  <2>4. cSent = Frame(1 + Len(sGot) + Len(c2s))
    BY <2>1, <2>3 DEF Frame
  <2>5. From(c2s', 1 + Len(sGot)) /\ Len(c2s') = Len(c2s) + 1
    BY <2>1, <2>2, <2>3, <2>4, FromAppend DEF HSType
  <2> QED BY <2>1, <2>2, <2>3, <2>5
<1>4. CASE UNCHANGED <<asks, c2s, spc, cSent, sGot>> /\ cpc' # "dial"
  BY <1>4 DEF UpPos
<1>5. ASSUME ~SwitchProtocols, ~ServerReads, ~ClientSends
      PROVE  UNCHANGED <<asks, c2s, spc, cSent, sGot>> /\ cpc' # "dial"
  <2>1. CASE SendRequest
    BY <2>1 DEF SendRequest, UpPos
  <2>2. CASE GetReader \/ Fill \/ Tunnel \/ HandshakeFails
    BY <2>2 DEF GetReader, Fill, Tunnel, HandshakeFails
  <2>3. CASE Loop
    BY <2>3 DEF Loop, ReadCall, ReadReturns, ReadFails, UpPos
  <2>4. CASE Hijack \/ Decoy \/ BadRequest \/ ServerCloses
    BY <2>4 DEF Hijack, Decoy, BadRequest, ServerCloses
  <2>5. CASE ServerSends
    BY <2>5 DEF ServerSends, UpPos
  <2>6. CASE CloseConn \/ PutReader \/ NilReader
    BY <2>6 DEF CloseConn, PutReader, NilReader, UpPos
  <2> QED BY <1>5, <2>1, <2>2, <2>3, <2>4, <2>5, <2>6 DEF Next, Client, Server
<1> QED BY <1>1, <1>2, <1>3, <1>4, <1>5

LEMMA HSDownStep ==
  ASSUME HSType, Control, ShakePos, DownPos, Next
  PROVE  ShakePos' /\ DownPos'
<1>0. asks' = asks
  BY DEF Next, Client, Loop, Server, SendRequest, GetReader, Fill, Tunnel, HandshakeFails,
     ReadCall, ReadReturns, ReadFails, Hijack, SwitchProtocols, Decoy, BadRequest, ServerSends,
     ServerReads, ServerCloses, ClientSends, CloseConn, PutReader, NilReader
<1> SUFFICES ASSUME asks = "tunnel" PROVE ShakePos' /\ DownPos'
  BY <1>0 DEF ShakePos, DownPos
<1>len. /\ Len(s2c) \in Nat /\ Len(rbuf) \in Nat /\ Len(cGot) \in Nat
  BY LenProperties DEF HSType
<1>1. CASE Fill
  <2>1. PICK k \in 1..BufCap :
          /\ k <= Len(s2c)
          /\ rbuf' = rbuf \o SubSeq(s2c, 1, k)
          /\ s2c' = SubSeq(s2c, k + 1, Len(s2c))
    BY <1>1 DEF Fill
  <2>2. /\ cpc = "resp" /\ cpc' = cpc /\ spc' = spc /\ sSent' = sSent
    BY <1>1 DEF Fill
  <2>3. k \in 0..Len(s2c) /\ k > 0
    BY <1>len, <2>1
  <2>4. From(rbuf, 0) /\ From(s2c, Len(rbuf))
    BY <2>2 DEF ShakePos
  <2>5. Len(s2c) > 0 => s2c # <<>>
    OBVIOUS
  <2>6. spc \in {"tunnel", "closed"} /\ Len(rbuf) + Len(s2c) = sSent + 1
    BY <2>2, <2>3, <2>5, <1>len DEF ShakePos
  <2> DEFINE a == SubSeq(s2c, 1, k)
             b == SubSeq(s2c, k + 1, Len(s2c))
  <2>7. /\ a \in Seq(Int) /\ Len(a) = k /\ From(a, Len(rbuf))
        /\ Len(b) = Len(s2c) - k /\ From(b, Len(rbuf) + k)
    BY <1>len, <2>3, <2>4, FromCut DEF HSType
  <2> HIDE DEF a, b
  <2>8. From(rbuf \o a, 0) /\ Len(rbuf \o a) = Len(rbuf) + k
    <3>1. rbuf \in Seq(Int) /\ From(a, 0 + Len(rbuf))
      BY <1>len, <2>7 DEF HSType
    <3> QED BY <2>4, <2>7, <3>1, FromConcat
  <2>9. rbuf' = rbuf \o a /\ s2c' = b
    BY <2>1 DEF a, b
  <2>10. /\ From(rbuf', 0) /\ From(s2c', Len(rbuf'))
         /\ Len(rbuf') + Len(s2c') = sSent' + 1
    <3>1. Len(rbuf') = Len(rbuf) + k /\ Len(s2c') = Len(s2c) - k
      BY <2>7, <2>8, <2>9
    <3>2. Len(rbuf') + Len(s2c') = sSent' + 1
      BY <1>len, <2>2, <2>3, <2>6, <3>1
    <3> QED BY <2>7, <2>8, <2>9, <3>1, <3>2
  <2> QED BY <2>2, <2>6, <2>10 DEF ShakePos, DownPos, From
<1>2. CASE Tunnel
  <2>1. /\ cpc = "resp" /\ rbuf # <<>> /\ rbuf' = SubSeq(rbuf, 1 + 1, Len(rbuf))
        /\ cpc' = "tunnel" /\ UNCHANGED <<s2c, spc, sSent, cGot, close>>
    BY <1>2 DEF Tunnel, NeedsMore, Body
  <2>2. /\ From(rbuf, 0) /\ From(s2c, Len(rbuf))
        /\ spc \in {"tunnel", "closed"} /\ Len(rbuf) + Len(s2c) = sSent + 1
    BY <2>1 DEF ShakePos
  <2>3. cGot = <<>>
    BY <2>1 DEF Control, Quiet
  <2>4. 1 \in 0..Len(rbuf)
    BY <1>len, <2>1, EmptySeq DEF HSType
  <2>5. Len(rbuf') = Len(rbuf) - 1 /\ From(rbuf', 0 + 1)
    BY <2>1, <2>2, <2>4, FromCut DEF HSType
  <2>6. /\ From(cGot', 1) /\ From(rbuf', 1 + Len(cGot'))
        /\ From(s2c', 1 + Len(cGot') + Len(rbuf'))
        /\ Len(cGot') + Len(rbuf') + Len(s2c') = sSent'
    <3>1. cGot' = <<>> /\ Len(cGot') = 0 /\ From(<<>>, 1)
      BY <2>1, <2>3, FromEmpty
    <3>2. 1 + Len(cGot') + Len(rbuf') = Len(rbuf) /\ 1 + Len(cGot') = 0 + 1
      BY <1>len, <2>5, <3>1
    <3>3. From(s2c', 1 + Len(cGot') + Len(rbuf'))
      BY <2>1, <2>2, <3>2
    <3>4. Len(cGot') + Len(rbuf') + Len(s2c') = sSent'
      <4>1. s2c' = s2c /\ sSent' = sSent
        BY <2>1
      <4> QED BY <1>len, <2>2, <2>5, <3>1, <4>1 DEF HSType
    <3>5. From(rbuf', 1 + Len(cGot'))
      BY <2>5, <3>2
    <3> QED BY <3>1, <3>3, <3>4, <3>5
  <2> QED BY <2>1, <2>2, <2>6 DEF ShakePos, DownPos, From
<1>3. CASE ReadCall
  <2>1. cpc = "tunnel"
    BY <1>3 DEF ReadCall, Control, ClientOrder
  <2>2. UNCHANGED <<cpc, spc, sSent, close, s2c>>
    BY <1>3 DEF ReadCall
  <2>3. CASE UNCHANGED <<rbuf, cGot>>
    BY <2>1, <2>2, <2>3 DEF ShakePos, DownPos, From
  <2>4. CASE rbuf # <<>> /\ cGot' = Append(cGot, Head(rbuf)) /\ rbuf' = Tail(rbuf)
    <3> SUFFICES ASSUME close = "no"
                 PROVE  /\ From(cGot', 1) /\ From(rbuf', 1 + Len(cGot'))
                        /\ From(s2c', 1 + Len(cGot') + Len(rbuf'))
                        /\ Len(cGot') + Len(rbuf') + Len(s2c') = sSent'
      BY <2>1, <2>2 DEF ShakePos, DownPos, From
    <3>1. /\ From(cGot, 1) /\ From(rbuf, 1 + Len(cGot))
          /\ From(s2c, 1 + Len(cGot) + Len(rbuf))
          /\ Len(cGot) + Len(rbuf) + Len(s2c) = sSent
      BY <2>1 DEF DownPos
    <3>2. /\ Head(rbuf) = Frame(1 + Len(cGot)) /\ From(rbuf', 1 + Len(cGot) + 1)
          /\ Len(rbuf') = Len(rbuf) - 1
      BY <1>len, <2>4, <3>1, FromTail DEF HSType
    <3>3. From(cGot', 1) /\ Len(cGot') = Len(cGot) + 1
      BY <2>4, <3>1, <3>2, FromAppend DEF HSType
    <3>4. 1 + Len(cGot') + Len(rbuf') = 1 + Len(cGot) + Len(rbuf)
      BY <1>len, <3>2, <3>3
    <3> QED BY <1>len, <2>2, <3>1, <3>2, <3>3, <3>4
  <2> QED BY <1>3, <2>3, <2>4 DEF ReadCall
<1>4. CASE ReadReturns
  <2>1. /\ cpc = "tunnel" /\ close = "no" /\ rbuf = <<>>
        /\ s2c # <<>> /\ cGot' = Append(cGot, Head(s2c))
        /\ UNCHANGED <<cpc, spc, sSent, close>>
    BY <1>4 DEF ReadReturns, Control, ClientOrder
  <2> DEFINE t == Tail(s2c)
  <2>2. PICK k \in 0..(BufCap - 1) :
          k <= Len(t) /\ rbuf' = SubSeq(t, 1, k) /\ s2c' = SubSeq(t, k + 1, Len(t))
    BY <1>4 DEF ReadReturns
  <2>3. /\ spc \in {"tunnel", "closed"}
        /\ From(cGot, 1) /\ From(s2c, 1 + Len(cGot))
        /\ Len(cGot) + Len(s2c) = sSent
    BY <1>len, <2>1 DEF DownPos
  <2>4. /\ Head(s2c) = Frame(1 + Len(cGot))
        /\ t \in Seq(Int) /\ Len(t) = Len(s2c) - 1 /\ From(t, 2 + Len(cGot))
    BY <1>len, <2>1, <2>3, FromTail DEF HSType
  <2>5. From(cGot', 1) /\ Len(cGot') = Len(cGot) + 1
    BY <2>1, <2>3, <2>4, FromAppend DEF HSType
  <2> HIDE DEF t
  <2>6. k \in 0..Len(t)
    BY <2>2, <2>4, LenProperties, HandshakeAssumption
  <2>7. /\ Len(rbuf') = k /\ From(rbuf', 2 + Len(cGot))
        /\ Len(s2c') = Len(t) - k /\ From(s2c', 2 + Len(cGot) + k)
    <3> DEFINE p == 2 + Len(cGot)
    <3>1. p \in Nat /\ From(t, p)
      BY <1>len, <2>4
    <3> HIDE DEF p
    <3>2. /\ Len(SubSeq(t, 1, k)) = k /\ From(SubSeq(t, 1, k), p)
          /\ Len(SubSeq(t, k + 1, Len(t))) = Len(t) - k
          /\ From(SubSeq(t, k + 1, Len(t)), p + k)
      BY <2>4, <2>6, <3>1, FromCut
    <3> QED BY <2>2, <3>2 DEF p
  <2>8. /\ From(rbuf', 1 + Len(cGot')) /\ From(s2c', 1 + Len(cGot') + Len(rbuf'))
        /\ Len(cGot') + Len(rbuf') + Len(s2c') = sSent'
    BY <1>len, <2>1, <2>3, <2>4, <2>5, <2>6, <2>7
  <2> QED BY <2>1, <2>3, <2>5, <2>8 DEF ShakePos, DownPos
<1>5. CASE SwitchProtocols
  <2>1. /\ cpc # "tunnel" /\ s2c = <<>> /\ rbuf = <<>> /\ sSent = 0
    BY <1>5 DEF SwitchProtocols, Control, HijackedClean
  <2>2. /\ s2c' = Append(s2c, Resp) /\ spc' = "tunnel"
        /\ UNCHANGED <<cpc, rbuf, sSent>>
    BY <1>5 DEF SwitchProtocols
  <2>3. From(s2c, 0) /\ Len(s2c) = 0 /\ Resp = Frame(0 + Len(s2c))
    BY <2>1, FromEmpty DEF Frame
  <2>4. From(s2c', 0) /\ Len(s2c') = 1
    <3>1. s2c \in Seq(Int) /\ 0 \in Nat
      BY DEF HSType
    <3>2. s2c' = Append(s2c, Frame(0 + Len(s2c)))
      BY <2>2, <2>3
    <3>3. From(s2c', 0) /\ Len(s2c') = Len(s2c) + 1
      BY <2>3, <3>1, <3>2, FromAppend
    <3> QED BY <2>3, <3>3
  <2>5. From(rbuf', 0) /\ Len(rbuf') = 0
    BY <2>1, <2>2, FromEmpty
  <2>6. From(s2c', Len(rbuf')) /\ Len(rbuf') + Len(s2c') = sSent' + 1
    BY <2>1, <2>2, <2>4, <2>5
  <2> QED BY <2>1, <2>2, <2>5, <2>6 DEF ShakePos, DownPos, From
<1>6. CASE ServerSends
  <2>1. /\ spc = "tunnel" /\ s2c' = Append(s2c, sSent) /\ sSent' = sSent + 1
        /\ UNCHANGED <<cpc, spc, rbuf, cGot, close>>
    BY <1>6 DEF ServerSends
  <2>2. CASE cpc \in {"dial", "sent", "resp"}
    <3>1. From(rbuf, 0) /\ From(s2c, Len(rbuf)) /\ Len(rbuf) + Len(s2c) = sSent + 1
      BY <2>1, <2>2 DEF ShakePos
    <3>2. sSent = Frame(Len(rbuf) + Len(s2c))
      BY <1>len, <3>1 DEF Frame, HSType
    <3>3. From(s2c', Len(rbuf)) /\ Len(s2c') = Len(s2c) + 1
      BY <1>len, <2>1, <3>1, <3>2, FromAppend DEF HSType
    <3>4. Len(rbuf') + Len(s2c') = sSent' + 1
      BY <1>len, <2>1, <3>1, <3>3 DEF HSType
    <3> QED BY <2>1, <2>2, <3>1, <3>3, <3>4 DEF ShakePos, DownPos, From
  <2>3. CASE cpc = "tunnel" /\ close = "no"
    <3>1. /\ From(cGot, 1) /\ From(rbuf, 1 + Len(cGot))
          /\ From(s2c, 1 + Len(cGot) + Len(rbuf))
          /\ Len(cGot) + Len(rbuf) + Len(s2c) = sSent
      BY <2>3 DEF DownPos
    <3>2. sSent = Frame(1 + Len(cGot) + Len(rbuf) + Len(s2c))
      BY <1>len, <3>1 DEF Frame
    <3>3. From(s2c', 1 + Len(cGot) + Len(rbuf)) /\ Len(s2c') = Len(s2c) + 1
      BY <1>len, <2>1, <3>1, <3>2, FromAppend DEF HSType
    <3>4. Len(cGot') + Len(rbuf') + Len(s2c') = sSent'
      <4>1. cGot' = cGot /\ rbuf' = rbuf /\ sSent' = sSent + 1 /\ sSent \in Nat
        BY <2>1 DEF HSType
      <4> QED BY <1>len, <3>1, <3>3, <4>1
    <3> QED BY <2>1, <2>3, <3>1, <3>3, <3>4 DEF ShakePos, DownPos, From
  <2> QED BY <2>1, <2>2, <2>3 DEF ShakePos, DownPos
<1>7. CASE GetReader
  <2>1. rbuf = <<>>
    BY <1>7 DEF GetReader, Control, ClientOrder
  <2> QED BY <1>7, <2>1 DEF GetReader, ShakePos, DownPos, From
<1>8. CASE HandshakeFails \/ CloseConn
  BY <1>8 DEF HandshakeFails, CloseConn, ShakePos, DownPos
<1>9. CASE PutReader \/ NilReader
  BY <1>9 DEF PutReader, NilReader, ShakePos, DownPos, Control, ClientOrder
<1>10. CASE ServerCloses
  BY <1>10 DEF ServerCloses, ShakePos, DownPos, From
<1>11. CASE Hijack
  <2>1. /\ spc = "http" /\ spc' = "hijacked" /\ UNCHANGED <<s2c, cpc, rbuf, sSent>>
    BY <1>11 DEF Hijack
  <2>2. cpc # "tunnel" /\ s2c = <<>> /\ rbuf = <<>> /\ sSent = 0
    BY <2>1 DEF Control, HttpClean
  <2> QED BY <2>1, <2>2 DEF ShakePos, DownPos, From
<1>12. CASE Decoy \/ BadRequest
  BY <1>12 DEF Decoy, BadRequest, validate, Control, DecoyAsks
<1>13. CASE SendRequest \/ ReadFails \/ ServerReads \/ ClientSends
  <2>1. /\ UNCHANGED <<s2c, spc, rbuf, sSent, cGot, close>>
        /\ cpc' = cpc \/ (cpc = "dial" /\ cpc' = "sent")
    BY <1>13 DEF SendRequest, ReadFails, ServerReads, ClientSends
  <2>2. CASE cpc' = cpc
    BY <2>1, <2>2 DEF ShakePos, DownPos, From
  <2>3. CASE cpc = "dial" /\ cpc' = "sent"
    BY <2>1, <2>3 DEF ShakePos, DownPos, From
  <2> QED BY <2>1, <2>2, <2>3
<1> QED
  BY <1>1, <1>2, <1>3, <1>4, <1>5, <1>6, <1>7, <1>8, <1>9, <1>10, <1>11, <1>12, <1>13
     DEF Next, Client, Loop, Server
-----------------------------------------------------------------------------
(* The inductive invariant of the handshake: where each stream stands, for *)
(* every size of the reader's buffer and every number of frames.           *)
THEOREM HandshakeInvariant == Spec => []HSInv
<1>1. Init => HSInv
  BY FromEmpty, HandshakeAssumption
     DEF Init, HSInv, HSType, ClientOrder, HttpClean, HijackedClean, UpPos, ShakePos, DownPos,
         Quiet, DecoyAsks, Accepted
<1>2. HSInv /\ [Next]_vars => HSInv'
  <2> SUFFICES ASSUME HSInv, [Next]_vars PROVE HSInv'
    OBVIOUS
  <2>1. CASE Next
    BY <2>1, HSTypeStep, HSControlStep, HSUpStep, HSDownStep DEF HSInv, Control
  <2>2. CASE UNCHANGED vars
    BY <2>2 DEF vars, HSInv, HSType, ClientOrder, HttpClean, HijackedClean, UpPos, ShakePos,
                DownPos, Quiet, DecoyAsks, Accepted, From
  <2> QED BY <2>1, <2>2
<1> QED BY <1>1, <1>2, PTL DEF Spec

(* upgrade loses nothing of the tunnel with the HTTP server's buffer.      *)
THEOREM UpKeptAlways == Spec => []UpKept
<1>1. HSInv => UpKept
  <2> SUFFICES ASSUME HSInv, spc = "tunnel" PROVE sGot \o c2s = Upto(cSent)
    BY DEF UpKept
  <2>1. /\ sGot \in Seq(Int) /\ c2s \in Seq(Int) /\ cSent \in Nat
        /\ From(sGot, 1) /\ From(c2s, 1 + Len(sGot)) /\ Len(sGot) + Len(c2s) = cSent
    BY DEF HSInv, HSType, UpPos
  <2>2. sGot \o c2s \in Seq(Int) /\ Len(sGot \o c2s) = cSent /\ From(sGot \o c2s, 1)
    BY <2>1, FromConcat
  <2> QED BY <2>1, <2>2, FromUpto
<1> QED BY <1>1, HandshakeInvariant, PTL

(* bufferedConn hands over all that the client's reader read ahead.        *)
THEOREM DownKeptAlways == Spec => []DownKept
<1>1. HSInv => DownKept
  <2> SUFFICES ASSUME HSInv, cpc = "tunnel", close = "no", asks # "root"
               PROVE  cGot \o rbuf \o s2c = Upto(sSent)
    BY DEF DownKept
  <2>1. asks = "tunnel"
    BY DEF HSInv, ClientOrder, Accepted
  <2>2. /\ cGot \in Seq(Int) /\ rbuf \in Seq(Int) /\ s2c \in Seq(Int) /\ sSent \in Nat
        /\ From(cGot, 1) /\ From(rbuf, 1 + Len(cGot))
        /\ From(s2c, 1 + Len(cGot) + Len(rbuf))
        /\ Len(cGot) + Len(rbuf) + Len(s2c) = sSent
    BY <2>1 DEF HSInv, HSType, DownPos
  <2>3. /\ cGot \o rbuf \in Seq(Int) /\ Len(cGot \o rbuf) = Len(cGot) + Len(rbuf)
        /\ From(cGot \o rbuf, 1)
    BY <2>2, FromConcat
  <2> DEFINE a == cGot \o rbuf
  <2> HIDE DEF a
  <2>4. From(s2c, 1 + Len(a))
    <3>1. 1 + Len(a) = 1 + Len(cGot) + Len(rbuf)
      BY <2>2, <2>3, LenProperties DEF a
    <3> QED BY <2>2, <3>1
  <2>5. /\ a \o s2c \in Seq(Int) /\ Len(a \o s2c) = sSent /\ From(a \o s2c, 1)
    BY <2>2, <2>3, <2>4, FromConcat DEF a
  <2> QED BY <2>2, <2>5, FromUpto DEF a
<1> QED BY <1>1, HandshakeInvariant, PTL
=============================================================================
