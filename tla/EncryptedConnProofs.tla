------------------------ MODULE EncryptedConnProofs -------------------------
(***************************************************************************)
(* Up to the first slice beyond the limits an EncryptedConn is a byte      *)
(* stream, for all sizes, paddings and buffers; with none it is one.       *)
(***************************************************************************)
EXTENDS EncryptedConn, SequenceTheorems, TLAPS

(***************************************************************************)
(* The inductive invariant.  The packets in flight are adjacent pieces of  *)
(* the stream, and those of its exact part are within the limits.  As long *)
(* as the reader is Clean, its leftover buffer lies in the exact part and  *)
(* the first packet follows it; while the connection works, the last       *)
(* packet ends where the stream does.                                      *)
(***************************************************************************)
BufferNext ==
    Clean => got + readBuf.n <= exact /\ (readBuf.n > 0 => readBuf.from = got)

PacketFits(p, s, e) ==
    /\ p.from + p.n <= s
    /\ p.from < e => p.from + p.n <= e /\ (Obfs => p.n + 2 < LenMod)
    /\ p.len \in 1..BufSize

Chained ==
    \A i \in 1..Len(wire) :
        /\ i > 1 => wire[i].from = wire[i - 1].from + wire[i - 1].n
        /\ PacketFits(wire[i], sent, exact)

FrontNext == Clean /\ wire # <<>> => wire[1].from = got + readBuf.n

LastEnd == wire[Len(wire)].from + wire[Len(wire)].n

EndsAtSent ==
    up => IF wire = <<>> THEN Clean => got + readBuf.n = sent ELSE LastEnd = sent

ConnInv ==
    /\ TypeOK /\ BufferNext /\ Chained /\ FrontNext /\ EndsAtSent
    /\ NoConversionFails
-----------------------------------------------------------------------------
(* What removePadding returns for a slice within the limits is the slice.  *)
LEMMA RoundTrip ==
  ASSUME NEW n \in Nat, Obfs => n + 2 < LenMod
  PROVE  ~StripPanics(n) /\ Stripped(n) = n
<1> USE ConnAssumption
<1>1. CASE ~Obfs
  BY <1>1 DEF StripPanics, Stripped
<1>2. CASE Obfs
  <2>1. n < LenMod /\ 2 + n < LenMod /\ LenMod \in Nat \ {0}
    BY <1>2
  <2>2. OrigLen(n) = n
    BY <2>1 DEF OrigLen
  <2>3. SliceEnd(n) = 2 + n
    BY <2>1, <2>2 DEF SliceEnd
  <2> QED BY <1>2, <2>3 DEF StripPanics, Stripped
<1> QED BY <1>1, <1>2

(* Whatever was sent, a slice that does not panic has a length.            *)
LEMMA StrippedNat ==
  ASSUME NEW n \in Nat, ~StripPanics(n)
  PROVE  Stripped(n) \in Nat
<1> USE ConnAssumption
<1>1. LenMod \in Nat \ {0}
  OBVIOUS
<1>2. OrigLen(n) \in Nat
  BY <1>1 DEF OrigLen
<1>3. SliceEnd(n) \in Nat
  BY <1>1, <1>2 DEF SliceEnd
<1> QED BY <1>3 DEF StripPanics, Stripped

(* Hand returns the front of a chunk and keeps the rest of it.             *)
LEMMA HandFacts ==
  ASSUME NEW c, c \in [from : Nat, n : Nat], NEW q \in ReadSizes,
         got \in Nat, Hand(c, q)
  PROVE  /\ out' \in [from : Nat, n : Nat]
         /\ readBuf' \in [from : Nat, n : Nat]
         /\ got' \in Nat /\ got' >= got /\ (c.n > 0 => got' > got)
         /\ out' = [from |-> c.from, n |-> got' - got]
         /\ readBuf'.from = c.from + (got' - got)
         /\ got' + readBuf'.n = got + c.n
<1>1. c.from \in Nat /\ c.n \in Nat /\ q \in Nat \ {0}
  BY ConnAssumption
<1>2. Fits(q, c.n) \in Nat /\ Fits(q, c.n) <= c.n /\ (c.n > 0 => Fits(q, c.n) > 0)
  BY <1>1 DEF Fits
<1> HIDE DEF Fits
<1>3. /\ out' = [from |-> c.from, n |-> Fits(q, c.n)] /\ got' = got + Fits(q, c.n)
      /\ readBuf' = [from |-> c.from + Fits(q, c.n), n |-> c.n - Fits(q, c.n)]
  BY DEF Hand, Chunk
<1>4. got' - got = Fits(q, c.n)
  BY <1>2, <1>3
<1>5. out' \in [from : Nat, n : Nat] /\ readBuf' \in [from : Nat, n : Nat]
  <2>1. c.from + Fits(q, c.n) \in Nat /\ c.n - Fits(q, c.n) \in Nat
    BY <1>1, <1>2
  <2> QED BY <1>1, <1>2, <1>3, <2>1
<1>6. got' \in Nat /\ got' >= got /\ (c.n > 0 => got' > got)
  BY <1>2, <1>3
<1>7. out' = [from |-> c.from, n |-> got' - got]
  BY <1>3, <1>4
<1>8. readBuf'.from = c.from + (got' - got)
  BY <1>3, <1>4
<1>9. got' + readBuf'.n = got + c.n
  <2>1. readBuf'.n = c.n - Fits(q, c.n)
    BY <1>3
  <2> QED BY <1>1, <1>2, <1>3, <2>1
<1> QED BY <1>5, <1>6, <1>7, <1>8, <1>9

(* A packet keeps its place when the stream grows behind it.               *)
LEMMA PacketStays ==
  ASSUME NEW p \in Packet, NEW s \in Nat, NEW e \in Nat, NEW t \in Nat, NEW f \in Nat,
         PacketFits(p, s, e), s <= t, f = e \/ (e = s /\ f = t)
  PROVE  PacketFits(p, t, f)
<1>1. p.from \in Nat /\ p.n \in Nat /\ p.n > 0
  BY DEF Packet
<1>2. p.from + p.n <= t /\ (p.from < f => p.from < e /\ e <= f)
  BY <1>1 DEF PacketFits
<1>3. p.from < f => p.from + p.n <= f
  BY <1>1, <1>2 DEF PacketFits
<1> QED BY <1>2, <1>3 DEF PacketFits

(* Write adds the next piece, and the exact part ends with the first one   *)
(* beyond the limits.                                                      *)
LEMMA WriteStep ==
  ASSUME ConnInv, NEW n \in Sizes, NEW pad \in Pads, Write(n, pad)
  PROVE  ConnInv'
<1> USE ConnAssumption
<1>1. n \in Nat \ {0} /\ pad \in Nat /\ PktLen(n, pad) \in Nat \ {0}
  BY DEF PktLen, Pads
<1>2. UNCHANGED <<readBuf, got, out, up, rState>>
  BY DEF Write
<1>3. CASE UNCHANGED <<sent, exact, wire>>
  <2>1. wState' \in {"ok", "error", "panic"}
    BY <1>3 DEF Write, ConnInv, TypeOK
  <2> QED
    BY <1>2, <1>3, <2>1 DEF ConnInv, TypeOK, BufferNext, Chained, PacketFits, FrontNext,
                            EndsAtSent, LastEnd, NoConversionFails, Clean
<1>4. CASE up /\ 4 + PktLen(n, pad) <= BufSize
  <2> DEFINE p == [from |-> sent, n |-> n, len |-> PktLen(n, pad)]
  <2>1. /\ wire' = Append(wire, p) /\ sent' = sent + n /\ UNCHANGED wState
        /\ exact' = IF exact = sent /\ Within(n, pad) THEN sent' ELSE exact
    BY <1>1, <1>4 DEF Write
  <2>2. p \in Packet /\ wire \in Seq(Packet) /\ sent \in Nat /\ exact \in Nat /\ exact <= sent
        /\ got \in Nat /\ readBuf.n \in Nat
    BY <1>1 DEF ConnInv, TypeOK, Packet
  <2>3. /\ wire' \in Seq(Packet) /\ Len(wire') = Len(wire) + 1
        /\ \A i \in 1..Len(wire) : wire'[i] = wire[i]
        /\ wire'[Len(wire) + 1] = p
        /\ wire' # <<>>
    BY <2>1, <2>2
  <2>4. /\ sent' \in Nat /\ sent' > sent /\ exact' \in 0..sent'
        /\ exact' = exact \/ (exact = sent /\ exact' = sent' /\ Within(n, pad))
    BY <1>1, <2>1, <2>2
  <2>5. TypeOK'
    BY <1>2, <2>1, <2>3, <2>4 DEF ConnInv, TypeOK
  <2>6. Clean' => Clean
    BY <1>2, <2>2, <2>4 DEF Clean
  <2>7. BufferNext'
    BY <1>2, <2>2, <2>4, <2>6 DEF ConnInv, BufferNext
  <2>8. Chained'
    <3> SUFFICES ASSUME NEW i \in 1..(Len(wire) + 1)
                 PROVE  /\ i > 1 => wire'[i].from = wire'[i - 1].from + wire'[i - 1].n
                        /\ PacketFits(wire'[i], sent', exact')
      BY <2>3 DEF Chained
    <3>1. CASE i \in 1..Len(wire)
      <4>1. wire'[i] = wire[i] /\ (i > 1 => wire'[i - 1] = wire[i - 1])
        BY <2>2, <2>3, <3>1
      <4>2. wire[i] \in Packet
        BY <2>2, <3>1
      <4>3. /\ i > 1 => wire[i].from = wire[i - 1].from + wire[i - 1].n
            /\ PacketFits(wire[i], sent, exact)
        BY <3>1 DEF ConnInv, Chained
      <4>4. PacketFits(wire'[i], sent', exact')
        BY <2>2, <2>4, <4>1, <4>2, <4>3, PacketStays
      <4> QED BY <4>1, <4>3, <4>4
    <3>2. CASE i = Len(wire) + 1
      <4>1. wire'[i] = p
        BY <2>3, <3>2
      <4>2. PacketFits(wire'[i], sent', exact')
        <5>1. p.from = sent /\ p.n = n /\ p.len = PktLen(n, pad)
          OBVIOUS
        <5> HIDE DEF p
        <5>2. p.len \in 1..BufSize
          BY <1>1, <1>4, <5>1
        <5>3. p.from + p.n <= sent'
          BY <1>1, <2>1, <2>2, <5>1
        <5>4. p.from < exact' => exact' = sent' /\ Within(n, pad)
          BY <1>1, <2>2, <2>4, <5>1
        <5>5. p.from < exact' => p.from + p.n <= exact' /\ (Obfs => p.n + 2 < LenMod)
          BY <5>1, <5>3, <5>4 DEF Within
        <5> QED BY <4>1, <5>2, <5>3, <5>5 DEF PacketFits
      <4>3. i > 1 => Len(wire) \in 1..Len(wire) /\ wire # <<>> /\ i - 1 = Len(wire)
        BY <2>2, <3>2
      <4>4. i > 1 => LastEnd = sent
        BY <1>4, <4>3 DEF ConnInv, EndsAtSent
      <4>5. i > 1 => wire'[i - 1] = wire[Len(wire)]
        BY <2>3, <4>3
      <4> QED BY <4>1, <4>2, <4>4, <4>5 DEF LastEnd
    <3> QED BY <2>2, <3>1, <3>2
  <2>9. FrontNext'
    <3> SUFFICES ASSUME Clean PROVE wire'[1].from = got + readBuf.n
      BY <1>2, <2>6 DEF FrontNext
    <3>1. CASE wire = <<>>
      BY <1>4, <2>3, <3>1 DEF ConnInv, EndsAtSent
    <3>2. CASE wire # <<>>
      <4>1. 1 \in 1..Len(wire)
        BY <2>2, <3>2
      <4> QED BY <2>3, <3>2, <4>1 DEF ConnInv, FrontNext
    <3> QED BY <3>1, <3>2
  <2>10. EndsAtSent'
    BY <2>1, <2>3 DEF EndsAtSent, LastEnd
  <2>11. NoConversionFails'
    BY <1>2, <2>2, <2>4 DEF ConnInv, NoConversionFails
  <2> QED BY <2>5, <2>7, <2>8, <2>9, <2>10, <2>11 DEF ConnInv
<1> QED BY <1>1, <1>3, <1>4 DEF Write, ConnInv, TypeOK

(* Read from the leftover buffer.                                          *)
LEMMA BufferedStep ==
  ASSUME ConnInv, NEW q \in ReadSizes, ReadBuffered(q)
  PROVE  ConnInv'
<1> USE ConnAssumption
<1>1. /\ readBuf \in [from : Nat, n : Nat] /\ readBuf.n > 0 /\ rState = "ok"
      /\ got \in Nat /\ sent \in Nat /\ exact \in Nat /\ exact <= sent
  BY DEF ReadBuffered, ConnInv, TypeOK
<1>2. Hand(readBuf, q) /\ UNCHANGED <<sent, exact, wire, up, wState, rState>>
  BY DEF ReadBuffered
<1>3. /\ out' \in [from : Nat, n : Nat] /\ readBuf' \in [from : Nat, n : Nat]
      /\ got' \in Nat /\ got' >= got
      /\ readBuf'.from = readBuf.from + (got' - got)
      /\ got' + readBuf'.n = got + readBuf.n
  BY <1>1, <1>2, HandFacts
<1>4. Clean' => Clean
  BY <1>1, <1>2, <1>3 DEF Clean
<1>5. TypeOK' /\ NoConversionFails'
  BY <1>1, <1>2, <1>3 DEF ConnInv, TypeOK, NoConversionFails
<1>6. BufferNext'
  BY <1>1, <1>2, <1>3, <1>4 DEF ConnInv, BufferNext
<1>7. Chained' /\ FrontNext' /\ EndsAtSent'
  BY <1>2, <1>3, <1>4 DEF ConnInv, Chained, PacketFits, FrontNext, EndsAtSent, LastEnd
<1> QED BY <1>5, <1>6, <1>7 DEF ConnInv

(* The first packet, as a clean reader finds it: it follows the bytes      *)
(* handed out and is handed out whole.                                     *)
LEMMA CleanFront ==
  ASSUME ConnInv, NEW q \in ReadSizes, ReadPacket(q), Clean
  PROVE  /\ Head(wire).from = got /\ Head(wire).from + Head(wire).n <= exact
         /\ Hand(Chunk(Head(wire).from, Head(wire).n), q) /\ UNCHANGED rState
<1> USE ConnAssumption
<1> DEFINE p == Head(wire)
<1>1. readBuf.n = 0 /\ wire # <<>>
  BY DEF ReadPacket
<1>2. wire \in Seq(Packet) /\ 1 \in 1..Len(wire) /\ p = wire[1]
  BY <1>1 DEF ConnInv, TypeOK
<1>3. p \in Packet /\ PacketFits(p, sent, exact)
  BY <1>2 DEF ConnInv, Chained
<1>4. p.from = got /\ got \in Nat /\ sent \in Nat /\ exact \in Nat
  BY <1>1, <1>2 DEF ConnInv, FrontNext, TypeOK
<1>5. p.from < exact
  BY <1>3, <1>4 DEF PacketFits, Packet, Clean
<1>6. /\ p.n \in Nat /\ p.from + p.n <= exact /\ (Obfs => p.n + 2 < LenMod)
      /\ p.len \in 1..BufSize
  BY <1>3, <1>5 DEF PacketFits, Packet
<1>7. ~StripPanics(p.n) /\ Stripped(p.n) = p.n
  BY <1>6, RoundTrip
<1>8. ~(p.len = 0 \/ p.len > MaxPkt) /\ ~(p.len > BufSize \/ StripPanics(p.n))
  BY <1>6, <1>7
<1>9. Hand(Chunk(p.from, p.n), q) /\ UNCHANGED rState
  BY <1>7, <1>8 DEF ReadPacket
<1> QED BY <1>4, <1>6, <1>9

(* Read of a packet.                                                       *)
LEMMA PacketStep ==
  ASSUME ConnInv, NEW q \in ReadSizes, ReadPacket(q)
  PROVE  ConnInv'
<1> USE ConnAssumption
<1> DEFINE p == Head(wire)
<1>1. /\ rState = "ok" /\ readBuf.n = 0 /\ wire # <<>> /\ wire' = Tail(wire)
      /\ UNCHANGED <<sent, exact, up, wState>>
  BY DEF ReadPacket
<1>2. /\ wire \in Seq(Packet) /\ Len(wire) \in Nat /\ Len(wire) > 0
      /\ p = wire[1] /\ 1 \in 1..Len(wire) /\ p \in Packet
  BY <1>1 DEF ConnInv, TypeOK
<1>3. /\ got \in Nat /\ sent \in Nat /\ exact \in Nat /\ exact <= sent
      /\ readBuf \in [from : Nat, n : Nat] /\ out \in [from : Nat, n : Nat]
  BY DEF ConnInv, TypeOK
<1>4. /\ wire' \in Seq(Packet) /\ Len(wire') = Len(wire) - 1
      /\ \A i \in 1..(Len(wire) - 1) : wire'[i] = wire[i + 1]
  BY <1>1, <1>2
<1>5. /\ got' \in Nat /\ got' >= got /\ rState' \in {"ok", "error", "panic"}
      /\ readBuf' \in [from : Nat, n : Nat] /\ out' \in [from : Nat, n : Nat]
  <2>1. CASE UNCHANGED <<readBuf, got, out>> /\ rState' \in {"error", "panic"}
    BY <1>3, <2>1
  <2>2. CASE /\ Hand(Chunk(p.from, Stripped(p.n)), q) /\ UNCHANGED rState
             /\ ~StripPanics(p.n)
    <3>1. p.from \in Nat /\ p.n \in Nat
      BY <1>2 DEF Packet
    <3>2. Chunk(p.from, Stripped(p.n)) \in [from : Nat, n : Nat]
      BY <2>2, <3>1, StrippedNat DEF Chunk
    <3> QED BY <1>1, <1>3, <2>2, <3>2, HandFacts
  <2>3. \/ UNCHANGED <<readBuf, got, out>> /\ rState' \in {"error", "panic"}
        \/ /\ Hand(Chunk(p.from, Stripped(p.n)), q) /\ UNCHANGED rState
           /\ ~StripPanics(p.n)
    <3>1. CASE p.len = 0 \/ p.len > MaxPkt
      BY <3>1 DEF ReadPacket
    <3>2. CASE ~(p.len = 0 \/ p.len > MaxPkt) /\ (p.len > BufSize \/ StripPanics(p.n))
      <4>1. p.len \in 1..MaxPkt
        BY <1>2, <3>2 DEF Packet
      <4> QED BY <3>2, <4>1 DEF ReadPacket
    <3>3. CASE ~(p.len = 0 \/ p.len > MaxPkt) /\ ~(p.len > BufSize \/ StripPanics(p.n))
      BY <3>3 DEF ReadPacket
    <3> QED BY <3>1, <3>2, <3>3
  <2> QED BY <2>1, <2>2, <2>3
<1>6. TypeOK'
  BY <1>1, <1>3, <1>4, <1>5 DEF ConnInv, TypeOK
<1>7. Clean' => Clean
  BY <1>1, <1>3, <1>5 DEF Clean
<1>8. Chained'
  <2> SUFFICES ASSUME NEW i \in 1..(Len(wire) - 1)
               PROVE  /\ i > 1 => wire'[i].from = wire'[i - 1].from + wire'[i - 1].n
                      /\ PacketFits(wire'[i], sent', exact')
    BY <1>4 DEF Chained
  <2>1. i + 1 \in 1..Len(wire) /\ i + 1 > 1 /\ (i + 1) - 1 = i
    BY <1>2
  <2>2. wire[i + 1].from = wire[i].from + wire[i].n /\ PacketFits(wire[i + 1], sent, exact)
    BY <2>1 DEF ConnInv, Chained
  <2>3. wire'[i] = wire[i + 1] /\ (i > 1 => wire'[i - 1] = wire[i])
    BY <1>2, <1>4
  <2> QED BY <1>1, <2>2, <2>3 DEF PacketFits
<1>9. Clean => /\ got' + readBuf'.n = p.from + p.n /\ p.from + p.n <= exact
               /\ readBuf'.from = got' /\ UNCHANGED rState
  <2> SUFFICES ASSUME Clean
               PROVE  /\ got' + readBuf'.n = p.from + p.n /\ p.from + p.n <= exact
                      /\ readBuf'.from = got' /\ UNCHANGED rState
    OBVIOUS
  <2> DEFINE c == Chunk(p.from, p.n)
  <2>1. p.from = got /\ p.from + p.n <= exact /\ Hand(c, q) /\ UNCHANGED rState
    BY CleanFront
  <2>2. c \in [from : Nat, n : Nat] /\ c.from = p.from /\ c.n = p.n
    BY <1>2 DEF Chunk, Packet
  <2> HIDE DEF c
  <2>3. /\ got' \in Nat /\ readBuf'.from = c.from + (got' - got)
        /\ got' + readBuf'.n = got + c.n
    BY <1>3, <2>1, <2>2, HandFacts
  <2> QED BY <1>3, <2>1, <2>2, <2>3
<1> HIDE DEF p
<1>10. BufferNext'
  BY <1>1, <1>7, <1>9 DEF BufferNext
<1>11. NoConversionFails'
  BY <1>1, <1>3, <1>5, <1>9 DEF ConnInv, NoConversionFails, Clean
<1>12. Len(wire) = 1 \/ Len(wire) > 1
  <2>1. Len(wire) \in Nat /\ Len(wire) > 0
    BY <1>2
  <2>2. \A k \in Nat : k > 0 => k = 1 \/ k > 1
    OBVIOUS
  <2> QED BY <2>1, <2>2, Zenon
<1>13. Len(wire) > 1 => wire' # <<>> /\ wire'[1] = wire[2] /\ wire'[Len(wire')] = wire[Len(wire)]
  BY <1>2, <1>4
<1>14. Len(wire) = 1 => wire' = <<>>
  BY <1>2, <1>4
<1>15. FrontNext'
  <2> SUFFICES ASSUME Clean, Len(wire) > 1 PROVE wire[2].from = got' + readBuf'.n
    BY <1>7, <1>12, <1>13, <1>14 DEF FrontNext
  <2>1. 2 \in 1..Len(wire) /\ 2 - 1 = 1 /\ 2 > 1
    BY <1>2
  <2>2. wire[2].from = wire[1].from + wire[1].n
    BY <2>1 DEF ConnInv, Chained
  <2> QED BY <1>2, <1>9, <2>2
<1>16. EndsAtSent'
  <2>1. up => LastEnd = sent
    BY <1>1 DEF ConnInv, EndsAtSent
  <2>2. CASE Len(wire) = 1
    <3>1. LastEnd = p.from + p.n
      BY <1>2, <2>2 DEF LastEnd
    <3> QED BY <1>1, <1>7, <1>9, <1>14, <2>1, <2>2, <3>1 DEF EndsAtSent
  <2>3. CASE Len(wire) > 1
    BY <1>1, <1>13, <2>1, <2>3 DEF EndsAtSent, LastEnd
  <2> QED BY <1>12, <2>2, <2>3
<1> QED BY <1>6, <1>8, <1>10, <1>11, <1>15, <1>16 DEF ConnInv

(* Every step keeps the pieces of the stream adjacent.                     *)
LEMMA ConnStep == ConnInv /\ [Next]_vars => ConnInv'
<1> SUFFICES ASSUME ConnInv, [Next]_vars PROVE ConnInv'
  OBVIOUS
<1>1. CASE ReadFails
  BY <1>1 DEF ReadFails, ConnInv, TypeOK, BufferNext, Chained, PacketFits, FrontNext,
              EndsAtSent, LastEnd, NoConversionFails, Clean
<1>2. CASE LinkFails
  <2>1. PICK i \in 0..Len(wire) : wire' = SubSeq(wire, 1, i)
    BY <1>2 DEF LinkFails
  <2>2. ~up' /\ UNCHANGED <<sent, exact, readBuf, got, out, wState, rState>>
    BY <1>2 DEF LinkFails
  <2>3. /\ wire' \in Seq(Packet) /\ Len(wire') = i /\ i <= Len(wire)
        /\ \A j \in 1..i : wire'[j] = wire[j]
        /\ wire' # <<>> => 1 \in 1..i /\ wire # <<>>
    BY <2>1 DEF ConnInv, TypeOK
  <2>4. TypeOK' /\ NoConversionFails'
    <3>1. up' \in BOOLEAN
      BY <1>2, Zenon DEF LinkFails
    <3> QED BY <2>2, <2>3, <3>1 DEF ConnInv, TypeOK, NoConversionFails
  <2>5. BufferNext' /\ FrontNext' /\ EndsAtSent'
    BY <2>2, <2>3 DEF ConnInv, BufferNext, FrontNext, EndsAtSent, Clean
  <2>6. Chained'
    <3> SUFFICES ASSUME NEW j \in 1..i
                 PROVE  /\ j > 1 => wire'[j].from = wire'[j - 1].from + wire'[j - 1].n
                        /\ PacketFits(wire'[j], sent', exact')
      BY <2>3 DEF Chained
    <3>1. j \in 1..Len(wire) /\ wire'[j] = wire[j] /\ (j > 1 => wire'[j - 1] = wire[j - 1])
      BY <2>3
    <3> QED BY <2>2, <3>1 DEF ConnInv, Chained, PacketFits
  <2> QED BY <2>4, <2>5, <2>6 DEF ConnInv
<1>3. CASE UNCHANGED vars
  BY <1>3 DEF vars, ConnInv, TypeOK, BufferNext, Chained, PacketFits, FrontNext,
              EndsAtSent, LastEnd, NoConversionFails, Clean
<1> QED
  BY <1>1, <1>2, <1>3, WriteStep, BufferedStep, PacketStep DEF Next, Read

(* The invariant holds in every reachable state.                           *)
LEMMA ConnInvCorrect == Spec => []ConnInv
<1>1. Init => ConnInv
  <2> SUFFICES ASSUME Init PROVE ConnInv
    OBVIOUS
  <2>1. up \in BOOLEAN
    BY Zenon DEF Init
  <2> QED BY <2>1 DEF Init, ConnInv, TypeOK, BufferNext, Chained, FrontNext, EndsAtSent,
                      NoConversionFails, Chunk
<1> QED BY <1>1, ConnStep, PTL DEF Spec

(* Whatever sizes, paddings and buffers there are, a Read fails only on a  *)
(* slice beyond the limits and after all bytes before it were handed out.  *)
THEOREM NoConversionFailsCorrect == Spec => []NoConversionFails
<1>1. ConnInv => NoConversionFails
  BY DEF ConnInv
<1> QED BY <1>1, ConnInvCorrect, PTL
-----------------------------------------------------------------------------
(* A step of the connection is a step of the byte stream, or none of it.   *)
LEMMA StreamStep ==
  ASSUME ConnInv, ConnInv', [Next]_vars, Clean
  PROVE  [Stream!Next]_(Stream!vars)
<1> USE ConnAssumption DEF Stream!vars
<1>1. ASSUME NEW n \in Sizes, NEW pad \in Pads, Write(n, pad)
      PROVE  Stream!Send \/ UNCHANGED Stream!vars
  <2>1. n \in Nat \ {0} /\ sent \in Nat
    BY DEF ConnInv, TypeOK
  <2> QED BY <1>1, <2>1 DEF Write, Stream!Send
<1>2. ASSUME NEW q \in ReadSizes, ReadBuffered(q) PROVE Stream!Deliver
  <2>1. /\ readBuf \in [from : Nat, n : Nat] /\ readBuf.n > 0 /\ readBuf.from = got
        /\ got \in Nat /\ got + readBuf.n <= exact /\ exact <= sent /\ sent \in Nat /\ exact \in Nat
    BY <1>2 DEF ReadBuffered, ConnInv, TypeOK, BufferNext
  <2>2. Hand(readBuf, q) /\ UNCHANGED <<sent, rState>> /\ rState = "ok"
    BY <1>2 DEF ReadBuffered
  <2>3. /\ got' \in Nat /\ got' > got /\ out' = [from |-> got, n |-> got' - got]
        /\ readBuf' \in [from : Nat, n : Nat] /\ got' + readBuf'.n = got + readBuf.n
    BY <2>1, <2>2, HandFacts
  <2>4. got' <= sent
    BY <2>1, <2>3
  <2> QED BY <2>2, <2>3, <2>4 DEF Stream!Deliver
<1>3. ASSUME NEW q \in ReadSizes, ReadPacket(q) PROVE Stream!Deliver
  <2> DEFINE p == Head(wire)
             c == Chunk(p.from, p.n)
  <2>1. rState = "ok" /\ wire # <<>> /\ UNCHANGED sent
    BY <1>3 DEF ReadPacket
  <2>2. p \in Packet /\ got \in Nat /\ sent \in Nat /\ exact \in Nat /\ exact <= sent
    BY <2>1 DEF ConnInv, TypeOK
  <2>3. p.from = got /\ p.from + p.n <= exact /\ Hand(c, q) /\ UNCHANGED rState
    BY <1>3, CleanFront
  <2>4. c \in [from : Nat, n : Nat] /\ c.from = got /\ c.n = p.n /\ c.n > 0 /\ p.n \in Nat
    BY <2>2, <2>3 DEF Chunk, Packet
  <2> HIDE DEF c, p
  <2>5. /\ got' \in Nat /\ got' > got /\ out' = [from |-> got, n |-> got' - got]
        /\ readBuf' \in [from : Nat, n : Nat] /\ got' + readBuf'.n = got + c.n
    BY <2>2, <2>3, <2>4, HandFacts
  <2>6. got' <= sent
    BY <2>2, <2>3, <2>4, <2>5
  <2> QED BY <2>1, <2>3, <2>5, <2>6 DEF Stream!Deliver
<1>4. CASE ReadFails
  <2>1. rState' = "error" /\ "error" # "ok"
    BY <1>4 DEF ReadFails
  <2>2. (rState' # "ok") = TRUE
    BY <2>1, Zenon
  <2>3. UNCHANGED <<sent, got, out>>
    BY <1>4 DEF ReadFails
  <2> QED BY <2>2, <2>3, Zenon DEF Stream!End, Stream!Next
<1>5. CASE LinkFails
  BY <1>5 DEF LinkFails
<1>6. CASE UNCHANGED vars
  BY <1>6 DEF vars
<1> QED
  BY <1>1, <1>2, <1>3, <1>4, <1>5, <1>6 DEF Next, Read, Stream!Next

(* One direction of an EncryptedConn is the byte stream its users, smux    *)
(* and snappy, take it for, until the reader has reached the first slice   *)
(* beyond the limits.                                                      *)
THEOREM StreamCorrect == Spec => IsByteStream
<1>1. Init => Stream!Init
  BY DEF Init, Stream!Init, Chunk
<1>2. ConnInv /\ ConnInv' /\ [Next]_vars => [Clean => Stream!Next]_(Stream!vars)
  BY StreamStep
<1> QED
  BY <1>1, <1>2, ConnInvCorrect, PTL DEF Spec, IsByteStream

(***************************************************************************)
(* What a client writes without compression, smux frames of at most 32768  *)
(* bytes (frameSizes) and their 8-byte header, is within the limits as     *)
(* long as the padding is below 64 KB: its connection is a byte stream.    *)
(***************************************************************************)
THEOREM ClientStream ==
  ASSUME LenMod = 65536, BufSize = 131072, Overhead <= 28,
         MinPad <= 65535, MaxPad <= 65535, \A n \in Sizes : n <= 32776
  PROVE  Spec => Stream!Spec
<1> USE ConnAssumption
<1>1. \A n \in Sizes, pad \in Pads : Within(n, pad)
  <2> SUFFICES ASSUME NEW n \in Sizes, NEW pad \in Pads PROVE Within(n, pad)
    OBVIOUS
  <2>1. n \in Nat /\ n <= 32776 /\ pad \in Nat /\ pad <= 65535
    BY DEF Pads
  <2>2. PktLen(n, pad) <= 98341
    BY <2>1 DEF PktLen
  <2> QED BY <2>1, <2>2 DEF Within, PktLen
<1>2. Init => exact = sent
  BY DEF Init
<1>3. exact = sent /\ [Next]_vars => (exact = sent)'
  <2> SUFFICES ASSUME exact = sent, [Next]_vars PROVE exact' = sent'
    OBVIOUS
  <2>1. ASSUME NEW n \in Sizes, NEW pad \in Pads, Write(n, pad) PROVE exact' = sent'
    BY <1>1, <2>1 DEF Write
  <2>2. ASSUME NEW q \in ReadSizes, Read(q) PROVE exact' = sent'
    BY <2>2 DEF Read, ReadBuffered, ReadPacket
  <2> QED BY <2>1, <2>2 DEF Next, ReadFails, LinkFails, vars
<1>4. exact = sent /\ [Clean => Stream!Next]_(Stream!vars) => [Stream!Next]_(Stream!vars)
  BY DEF Clean
<1> QED
  BY <1>2, <1>3, <1>4, StreamCorrect, PTL DEF Spec, IsByteStream, Stream!Spec
=============================================================================
