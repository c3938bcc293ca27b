----------------------------- MODULE Handshake ------------------------------
(***************************************************************************)
(* One connection from the client's fake HTTP request to the tunnel, and   *)
(* the bufferedConn that carries it (mimic.go, and upgrade in server.go).  *)
(*                                                                         *)
(* Both sides read the handshake through a buffer that may read ahead: the *)
(* client's bufio.Reader, which bufferedConn keeps for the tunnel, and the *)
(* HTTP server's, which upgrade drops when it hijacks the connection.      *)
(* Tunnel frames are numbered in the order in which they are sent.         *)
(***************************************************************************)
EXTENDS Integers, Sequences

CONSTANTS
    Requests,  \* what the client's settings may make it ask for
    BufCap,    \* what the client's reader holds: 4096 bytes
    MaxFrames  \* bound of the model on the frames each side sends

ASSUME HandshakeAssumption ==
    /\ Requests \subseteq {"tunnel", "root", "elsewhere"}
    /\ BufCap \in Nat \ {0} /\ MaxFrames \in Nat

Req  == -1   \* the request
Resp == -2   \* the head of the response
Page == -3   \* its body, or the answer to what is no request

VARIABLES
    asks,    \* the request: for the tunnel, for "/", or for another page
    c2s,     \* bytes on their way to the server
    s2c,     \* bytes on their way to the client
    cpc,     \* the client: "dial", "sent", "resp", "tunnel" or "failed"
    spc,     \* the server: "http", "hijacked", "tunnel", "decoy" or "closed"
    r,       \* the reader: "pool", "held" or "nil" (bufferedConn.r after Close)
    rbuf,    \* what it has read ahead
    cSent, sSent,  \* tunnel frames each side has sent
    cGot, sGot,    \* what each side's tunnel has read
    rpc,     \* smux's receive loop: "off", "call", "blocked" or "done"
    close,   \* the goroutine in Close: "no", "conn", "put" or "nil"
    crashed  \* a nil reader was used

vars == <<asks, c2s, s2c, cpc, spc, r, rbuf, cSent, sSent, cGot, sGot, rpc, close, crashed>>

Init ==
    /\ asks \in Requests
    /\ c2s = <<>> /\ s2c = <<>>
    /\ cpc = "dial" /\ spc = "http"
    /\ r = "pool" /\ rbuf = <<>>
    /\ cSent = 0 /\ sSent = 0
    /\ cGot = <<>> /\ sGot = <<>>
    /\ rpc = "off" /\ close = "no"
    /\ crashed = FALSE
-----------------------------------------------------------------------------
(* ClientHandshake.                                                        *)

SendRequest ==
    /\ cpc = "dial" /\ spc # "closed"
    /\ c2s' = Append(c2s, Req)
    /\ cpc' = "sent"
    /\ UNCHANGED <<asks, s2c, spc, r, rbuf, cSent, sSent, cGot, sGot, rpc, close, crashed>>

(* Variant for the mutation checks: the tunnel starts before the answer.    *)
GetReaderLate ==
    /\ cpc = "sent" /\ cSent < MaxFrames
    /\ c2s' = Append(c2s, cSent) /\ cSent' = cSent + 1
    /\ r' = "held" /\ rbuf' = <<>>
    /\ cpc' = "resp"
    /\ UNCHANGED <<asks, s2c, spc, sSent, cGot, sGot, rpc, close, crashed>>

(* A reader comes from the pool and is reset to the connection.            *)
GetReader ==
    /\ cpc = "sent"
    /\ r' = "held" /\ rbuf' = <<>>
    /\ cpc' = "resp"
    /\ UNCHANGED <<asks, c2s, s2c, spc, cSent, sSent, cGot, sGot, rpc, close, crashed>>

(* http.ReadResponse, and the body's Close, need more: the reader takes    *)
(* what has arrived, up to its size.                                       *)
NeedsMore == rbuf = <<>> \/ (asks # "tunnel" /\ Len(rbuf) = 1)

Fill ==
    /\ cpc = "resp" /\ NeedsMore
    /\ s2c # <<>>
    /\ \E k \in 1..BufCap :
         /\ k <= Len(s2c) /\ Len(rbuf) + k <= BufCap
         /\ rbuf' = rbuf \o SubSeq(s2c, 1, k)
         /\ s2c' = SubSeq(s2c, k + 1, Len(s2c))
    /\ UNCHANGED <<asks, c2s, cpc, spc, r, cSent, sSent, cGot, sGot, rpc, close, crashed>>

(* The response is 101, 200 for "/", or 404; a page is its body.           *)
Body == IF asks = "tunnel" THEN 1 ELSE 2

Accepted == asks \in {"tunnel", "root"}

(* Variant for the mutation checks: the bare connection is returned.       *)
TunnelRaw ==
    /\ cpc = "resp" /\ ~NeedsMore /\ Accepted
    /\ rbuf' = <<>>
    /\ cpc' = "tunnel" /\ rpc' = "call"
    /\ UNCHANGED <<asks, c2s, s2c, spc, r, cSent, sSent, cGot, sGot, close, crashed>>

(* The connection is wrapped together with its reader; smux starts.        *)
Tunnel ==
    /\ cpc = "resp" /\ ~NeedsMore /\ Accepted
    /\ rbuf' = SubSeq(rbuf, Body + 1, Len(rbuf))
    /\ cpc' = "tunnel" /\ rpc' = "call"
    /\ UNCHANGED <<asks, c2s, s2c, spc, r, cSent, sSent, cGot, sGot, close, crashed>>

(* Another status, or no response: the reader goes back to the pool.       *)
HandshakeFails ==
    /\ \/ cpc = "dial" /\ spc = "closed" /\ UNCHANGED <<r, rbuf>>
       \/ /\ cpc = "resp"
          /\ (~NeedsMore /\ ~Accepted) \/ (NeedsMore /\ s2c = <<>> /\ spc = "closed")
          /\ r' = "pool" /\ rbuf' = <<>>
    /\ cpc' = "failed"
    /\ UNCHANGED <<asks, c2s, s2c, spc, cSent, sSent, cGot, sGot, rpc, close, crashed>>
-----------------------------------------------------------------------------
(* The server.  The HTTP server has read the request and perhaps more.     *)

(* The tunnel's path with the headers the settings demand.                 *)
validate == asks = "tunnel"

(* The request is valid: the connection is hijacked, the HTTP server's     *)
(* buffer and with it what it had read beyond the request is dropped.      *)
Hijack ==
    /\ spc = "http" /\ validate
    /\ c2s # <<>> /\ Head(c2s) = Req
    /\ \E k \in 1..Len(c2s) : c2s' = SubSeq(c2s, k + 1, Len(c2s))
    /\ spc' = "hijacked"
    /\ UNCHANGED <<asks, s2c, cpc, r, rbuf, cSent, sSent, cGot, sGot, rpc, close, crashed>>

(* 101 is written; smux starts.                                            *)
SwitchProtocols ==
    /\ spc = "hijacked"
    /\ s2c' = Append(s2c, Resp)
    /\ spc' = "tunnel"
    /\ UNCHANGED <<asks, c2s, cpc, r, rbuf, cSent, sSent, cGot, sGot, rpc, close, crashed>>

(* Another path or a failed check: writeDecoy.                             *)
Decoy ==
    /\ spc = "http" /\ ~validate
    /\ c2s # <<>> /\ Head(c2s) = Req
    /\ c2s' = Tail(c2s)
    /\ s2c' = s2c \o <<Resp, Page>>
    /\ spc' = "decoy"
    /\ UNCHANGED <<asks, cpc, r, rbuf, cSent, sSent, cGot, sGot, rpc, close, crashed>>

(* What follows a decoy is no request: the HTTP server answers 400 and     *)
(* closes.                                                                 *)
BadRequest ==
    /\ spc = "decoy" /\ c2s # <<>>
    /\ c2s' = <<>> /\ s2c' = Append(s2c, Page)
    /\ spc' = "closed"
    /\ UNCHANGED <<asks, cpc, r, rbuf, cSent, sSent, cGot, sGot, rpc, close, crashed>>

ServerSends ==
    /\ spc = "tunnel" /\ sSent < MaxFrames
    /\ s2c' = Append(s2c, sSent) /\ sSent' = sSent + 1
    /\ UNCHANGED <<asks, c2s, cpc, spc, r, rbuf, cSent, cGot, sGot, rpc, close, crashed>>

ServerReads ==
    /\ spc = "tunnel" /\ c2s # <<>>
    /\ sGot' = Append(sGot, Head(c2s)) /\ c2s' = Tail(c2s)
    /\ UNCHANGED <<asks, s2c, cpc, spc, r, rbuf, cSent, sSent, cGot, rpc, close, crashed>>

ServerCloses ==
    /\ spc # "closed" /\ spc' = "closed"
    /\ UNCHANGED <<asks, c2s, s2c, cpc, r, rbuf, cSent, sSent, cGot, sGot, rpc, close, crashed>>
-----------------------------------------------------------------------------
(* The client's tunnel: smux sends, its receive loop reads, and another    *)
(* goroutine closes.                                                       *)
ClientSends ==
    /\ cpc = "tunnel" /\ close = "no" /\ spc # "closed"
    /\ cSent < MaxFrames
    /\ c2s' = Append(c2s, cSent) /\ cSent' = cSent + 1
    /\ UNCHANGED <<asks, s2c, cpc, spc, r, rbuf, sSent, cGot, sGot, rpc, close, crashed>>

(* Variant for the mutation checks: Read goes to the connection.           *)
ReadCallPastBuffer ==
    /\ rpc = "call" /\ r = "held"
    /\ rpc' = "blocked"
    /\ UNCHANGED <<asks, c2s, s2c, cpc, spc, r, rbuf, cSent, sSent, cGot, sGot, close, crashed>>

(* bufferedConn.Read: from the buffer, or it waits for the connection.     *)
ReadCall ==
    /\ rpc = "call" /\ ~crashed
    /\ \/ r = "nil" /\ crashed' = TRUE /\ UNCHANGED <<rbuf, cGot, rpc>>
       \/ /\ r # "nil" /\ rbuf # <<>>
          /\ cGot' = Append(cGot, Head(rbuf)) /\ rbuf' = Tail(rbuf)
          /\ UNCHANGED <<rpc, crashed>>
       \/ /\ r # "nil" /\ rbuf = <<>>
          /\ rpc' = (IF r = "pool" THEN "done" ELSE "blocked")
          /\ UNCHANGED <<rbuf, cGot, crashed>>
    /\ UNCHANGED <<asks, c2s, s2c, cpc, spc, r, cSent, sSent, sGot, close>>

(* The connection's Read returns what has arrived, up to the reader's      *)
(* size: the first frame is handed on, the reader keeps the others, and    *)
(* the loop comes back.                                                    *)
ReadReturns ==
    /\ rpc = "blocked" /\ close = "no" /\ s2c # <<>>
    /\ cGot' = Append(cGot, Head(s2c))
    /\ \E k \in 0..(BufCap - 1) :
         /\ k <= Len(Tail(s2c))
         /\ rbuf' = SubSeq(Tail(s2c), 1, k)
         /\ s2c' = SubSeq(Tail(s2c), k + 1, Len(Tail(s2c)))
    /\ rpc' = "call"
    /\ UNCHANGED <<asks, c2s, cpc, spc, r, cSent, sSent, sGot, close, crashed>>

ReadFails ==
    /\ rpc = "blocked"
    /\ close # "no" \/ (s2c = <<>> /\ spc = "closed")
    /\ rpc' = "done"
    /\ UNCHANGED <<asks, c2s, s2c, cpc, spc, r, rbuf, cSent, sSent, cGot, sGot, close, crashed>>

(* bufferedConn.Close: the connection, then the reader is reset and put    *)
(* back, then r is set to nil.  smux calls it from any goroutine.          *)
CloseConn ==
    /\ cpc = "tunnel" /\ close = "no"
    /\ close' = "conn" /\ s2c' = <<>>
    /\ UNCHANGED <<asks, c2s, cpc, spc, r, rbuf, cSent, sSent, cGot, sGot, rpc, crashed>>

PutReader ==
    /\ close = "conn"
    /\ close' = "put" /\ r' = "pool" /\ rbuf' = <<>>
    /\ UNCHANGED <<asks, c2s, s2c, cpc, spc, cSent, sSent, cGot, sGot, rpc, crashed>>

NilReader ==
    /\ close = "put"
    /\ close' = "nil" /\ r' = "nil"
    /\ UNCHANGED <<asks, c2s, s2c, cpc, spc, rbuf, cSent, sSent, cGot, sGot, rpc, crashed>>

Client == SendRequest \/ GetReader \/ Fill \/ Tunnel \/ HandshakeFails
Loop   == ReadCall \/ ReadReturns \/ ReadFails
Server == Hijack \/ SwitchProtocols \/ Decoy \/ BadRequest \/ ServerSends \/ ServerReads

Next ==
    \/ Client \/ Loop \/ Server
    \/ ServerCloses \/ ClientSends
    \/ CloseConn \/ PutReader \/ NilReader

Spec == Init /\ [][Next]_vars

(* Each side goes on while it can; nobody has to close, and neither side   *)
(* has to send.                                                            *)
FairSpec ==
    Spec /\ WF_vars(Client) /\ WF_vars(Loop)
         /\ WF_vars(Hijack \/ SwitchProtocols \/ Decoy \/ BadRequest \/ ServerReads)
-----------------------------------------------------------------------------
Upto(n) == [i \in 1..n |-> i - 1]

(***************************************************************************)
(* bufferedConn preserves what the handshake read ahead: in a tunnel that  *)
(* nobody closed, what the client has read, what its reader holds and what *)
(* is under way are the frames the server sent, all of them, in order, and *)
(* nothing of the HTTP exchange.  (A client that asks for "/" takes the    *)
(* decoy page for a tunnel: it is left out.)                               *)
(***************************************************************************)
DownKept ==
    cpc = "tunnel" /\ close = "no" /\ asks # "root" => cGot \o rbuf \o s2c = Upto(sSent)

(***************************************************************************)
(* upgrade drops the HTTP server's read-ahead, but nothing of the tunnel   *)
(* is in it, because the client waits for the response: what the server    *)
(* has read and what is under way are the frames the client sent.          *)
(***************************************************************************)
UpKept == spc = "tunnel" => sGot \o c2s = Upto(cSent)

(***************************************************************************)
(* While both sides are there, a frame the server sent reaches the         *)
(* client's smux, also one that arrived with the 101 in one segment.       *)
(***************************************************************************)
DownArrives ==
    sSent > 0 ~> Len(cGot) > 0 \/ close # "no" \/ spc = "closed"

(***************************************************************************)
(* A Read that comes after Close fails like that of any net.Conn, and does *)
(* not take the process down.                                              *)
(***************************************************************************)
ReadSurvivesClose == ~crashed
=============================================================================
