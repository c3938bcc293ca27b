--------------------------- MODULE EncryptedConn ----------------------------
(***************************************************************************)
(* One direction of encrypted_conn.go: Write pads, encrypts and frames a   *)
(* slice into one packet; Read takes one packet from the wire, strips the  *)
(* padding and keeps what did not fit into the caller's slice in readBuf.  *)
(*                                                                         *)
(* Bytes are offsets in the stream, as in ByteStream.  Encryption adds     *)
(* Overhead bytes and is otherwise transparent.  Lengths keep the width    *)
(* the code gives them: the length in the padding header is a uint16, and  *)
(* so is the sum removePadding slices with.                                *)
(***************************************************************************)
EXTENDS Naturals, Sequences

CONSTANTS
    LenMod,     \* 2^16: values of the padding header's length
    BufSize,    \* bufferSize, 128 KB
    MaxPkt,     \* 2 MB, the limit Read puts on a packet
    Overhead,   \* nonce and tag: 28, or 0 when the PSK is empty
    Obfs,       \* padding is enabled
    MinPad,     \* obfs.MinPadding
    MaxPad,     \* obfs.MaxPadding
    Sizes,      \* lengths of the slices given to Write
    ReadSizes,  \* lengths of the slices given to Read
    MaxBytes    \* bound of the model on the bytes written

ASSUME ConnAssumption ==
    /\ LenMod \in Nat /\ LenMod > 2
    /\ BufSize \in Nat /\ MaxPkt \in Nat /\ BufSize <= MaxPkt /\ Overhead \in Nat
    /\ MinPad \in Nat /\ MaxPad \in Nat
    /\ Obfs \in BOOLEAN
    /\ Sizes \subseteq Nat \ {0}
    /\ ReadSizes \subseteq Nat \ {0}
    /\ MaxBytes \in Nat

VARIABLES
    sent,     \* bytes Write has put on the wire
    exact,    \* history: of them, those before the first slice beyond the limits
    wire,     \* packets in flight: offset and length of the data, packet length
    readBuf,  \* the chunk kept for the next Read
    got,      \* bytes Read has returned
    out,      \* the chunk the last Read returned
    up,       \* the connection below works
    wState,   \* "ok", "error", or "panic" of the writing side
    rState    \* the same of the reading side

vars == <<sent, exact, wire, readBuf, got, out, up, wState, rState>>

Chunk(from, n) == [from |-> from, n |-> n]

Init ==
    /\ sent = 0 /\ exact = 0 /\ got = 0
    /\ wire = <<>>
    /\ readBuf = Chunk(0, 0) /\ out = Chunk(0, 0)
    /\ up = TRUE
    /\ wState = "ok" /\ rState = "ok"
-----------------------------------------------------------------------------
(* addPaddingBuf: MinPadding plus a random number below the difference.    *)
Pads == IF Obfs /\ MaxPad > MinPad THEN MinPad..(MaxPad - 1) ELSE {MinPad}

(* Length of a packet after its 4-byte header: [2B len][data][padding],    *)
(* sealed.                                                                 *)
PktLen(n, pad) == (IF Obfs THEN 2 + n + pad ELSE n) + Overhead

(***************************************************************************)
(* The slices for which the conversions are exact: with padding, below     *)
(* 65534 bytes, and small enough with padding and overhead for the pooled  *)
(* buffer.  A frame of a client, at most 32 KB and an 8-byte header, is;   *)
(* a server takes smux.frame_size up to 65535 and any padding.             *)
(***************************************************************************)
Within(n, pad) == (Obfs => n + 2 < LenMod) /\ 4 + PktLen(n, pad) <= BufSize

(***************************************************************************)
(* Write.  The packet is assembled in a pooled buffer: slicing that buffer *)
(* beyond its end panics, also when addPaddingBuf took its fallback.       *)
(***************************************************************************)
Write(n, pad) ==
    /\ wState = "ok"
    /\ sent + n <= MaxBytes
    /\ IF 4 + PktLen(n, pad) > BufSize
         THEN wState' = "panic" /\ UNCHANGED <<sent, exact, wire>>
         ELSE IF up
           THEN /\ wire' = Append(wire, [from |-> sent, n |-> n, len |-> PktLen(n, pad)])
                /\ sent' = sent + n
                /\ exact' = IF exact = sent /\ Within(n, pad) THEN sent' ELSE exact
                /\ UNCHANGED wState
           ELSE wState' = "error" /\ UNCHANGED <<sent, exact, wire>>
    /\ UNCHANGED <<readBuf, got, out, up, rState>>

(* Variant for the mutation checks: the length counts its own header.      *)
OrigLenOfAll(n) == (2 + n) % LenMod

(* removePadding: the header's length, and the end of the slice it takes.  *)
OrigLen(n)  == n % LenMod
SliceEnd(n) == (2 + OrigLen(n)) % LenMod

(* data[2 : SliceEnd] panics when the sum has wrapped.                     *)
StripPanics(n) == Obfs /\ SliceEnd(n) < 2

Stripped(n) == IF Obfs THEN SliceEnd(n) - 2 ELSE n

Fits(q, n) == IF q < n THEN q ELSE n

(* Variant for the mutation checks: the rest starts where the packet did.  *)
HandRepeats(chunk, q) ==
    /\ out' = Chunk(chunk.from, Fits(q, chunk.n))
    /\ got' = got + Fits(q, chunk.n)
    /\ readBuf' = Chunk(chunk.from, chunk.n - Fits(q, chunk.n))

(* Read copies what fits and keeps the rest.                               *)
Hand(chunk, q) ==
    /\ out' = Chunk(chunk.from, Fits(q, chunk.n))
    /\ got' = got + Fits(q, chunk.n)
    /\ readBuf' = Chunk(chunk.from + Fits(q, chunk.n), chunk.n - Fits(q, chunk.n))

(* Read, when the last packet left something over.                         *)
ReadBuffered(q) ==
    /\ rState = "ok"
    /\ readBuf.n > 0
    /\ Hand(readBuf, q)
    /\ UNCHANGED <<sent, exact, wire, up, wState, rState>>

(* Variant for the mutation checks: waits for the next packet's header.    *)
ReadPacketAhead(q) ==
    /\ rState = "ok"
    /\ readBuf.n = 0
    /\ Len(wire) > 1
    /\ wire' = Tail(wire)
    /\ Hand(Chunk(Head(wire).from, Stripped(Head(wire).n)), q)
    /\ UNCHANGED <<sent, exact, up, wState, rState>>

(* Read, taking the next packet from the wire.                             *)
ReadPacket(q) ==
    /\ rState = "ok"
    /\ readBuf.n = 0
    /\ wire # <<>>
    /\ wire' = Tail(wire)
    /\ LET p == Head(wire) IN
         CASE p.len = 0 \/ p.len > MaxPkt ->
                rState' = "error" /\ UNCHANGED <<readBuf, got, out>>
           [] p.len \in 1..MaxPkt /\ (p.len > BufSize \/ StripPanics(p.n)) ->
                rState' = "panic" /\ UNCHANGED <<readBuf, got, out>>
           [] OTHER -> Hand(Chunk(p.from, Stripped(p.n)), q) /\ UNCHANGED rState
    /\ UNCHANGED <<sent, exact, up, wState>>

(* The connection ended: io.ReadFull fails, in a header or in a packet.    *)
ReadFails ==
    /\ rState = "ok"
    /\ readBuf.n = 0
    /\ wire = <<>> /\ ~up
    /\ rState' = "error"
    /\ UNCHANGED <<sent, exact, wire, readBuf, got, out, up, wState>>

(* The connection below fails; what was in flight arrives up to a point.   *)
LinkFails ==
    /\ up
    /\ up' = FALSE
    /\ \E i \in 0..Len(wire) : wire' = SubSeq(wire, 1, i)
    /\ UNCHANGED <<sent, exact, readBuf, got, out, wState, rState>>
-----------------------------------------------------------------------------
Read(q) == ReadBuffered(q) \/ ReadPacket(q)

Next ==
    \/ \E n \in Sizes, pad \in Pads : Write(n, pad)
    \/ \E q \in ReadSizes : Read(q)
    \/ ReadFails
    \/ LinkFails

Spec == Init /\ [][Next]_vars

(* smux's receive loop always reads again.                                 *)
FairSpec == Spec /\ WF_vars(\E q \in ReadSizes : Read(q)) /\ WF_vars(ReadFails)
-----------------------------------------------------------------------------
Packet == [from : Nat, n : Nat \ {0}, len : Nat]

(* Every variable of the connection has its type.                          *)
TypeOK ==
    /\ sent \in Nat /\ exact \in 0..sent /\ got \in Nat
    /\ wire \in Seq(Packet)
    /\ readBuf \in [from : Nat, n : Nat]
    /\ out \in [from : Nat, n : Nat]
    /\ up \in BOOLEAN
    /\ wState \in {"ok", "error", "panic"}
    /\ rState \in {"ok", "error", "panic"}

(***************************************************************************)
(* A Read that panics, or rejects a packet while the connection works,     *)
(* has met the first slice beyond the limits or a later one, and has       *)
(* handed out all bytes before that slice: no length, padding or buffer    *)
(* boundary costs a byte of a slice within them.                           *)
(***************************************************************************)
NoConversionFails ==
    rState = "panic" \/ (rState = "error" /\ up) => exact < sent /\ got >= exact

Stream == INSTANCE ByteStream WITH ended <- (rState # "ok")

(* No slice beyond the limits was sent, or the reader is not there yet.    *)
Clean == exact = sent \/ got < exact

(***************************************************************************)
(* Up to the first slice beyond the limits the connection is a byte        *)
(* stream: it implements ByteStream through packets, partial reads, the    *)
(* leftover buffer and a failing link.  From that slice on it is none: one *)
(* of 65534 or 65535 bytes makes the reader panic, a longer one arrives    *)
(* cut to its length modulo 65536.                                         *)
(***************************************************************************)
IsByteStream == Stream!Init /\ [][Clean => Stream!Next]_(Stream!vars)

(* While the connection below works, whatever Write accepted before a      *)
(* slice beyond the limits comes out, however small the slices given to    *)
(* Read are, and whatever comes behind it.                                 *)
Drains == got < exact ~> got >= exact \/ ~up
=============================================================================
