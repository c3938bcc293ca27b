---------------------------- MODULE StreamRelay -----------------------------
(***************************************************************************)
(* One connection through the tunnel, end to end: a user connects to the   *)
(* server's reverse listener, handleReverseTCP opens a stream and sends    *)
(* the target's name on it, handleReverseStream at the client reads the    *)
(* name and dials the target, and a relay on each side copies both ways.   *)
(* handleForwardStream is handleReverseStream with the sides exchanged.    *)
(*                                                                         *)
(* Three links, each a pair of sockets: user - local, sstream - cstream    *)
(* (one smux stream) and remote - target.  A piece of data is its offset   *)
(* in what its sender sent, so that each direction can be compared with    *)
(* ByteStream; the two writes of sendTarget have tokens of their own.      *)
(***************************************************************************)
EXTENDS Integers, Sequences

CONSTANTS
    Window,      \* pieces a link holds before a Write blocks
    TargetLens,  \* lengths the target's name may have
    MaxSent      \* bound of the model on the pieces each end sends

ASSUME RelayAssumption ==
    /\ Window \in Nat \ {0}
    /\ TargetLens \subseteq 0..65535
    /\ MaxSent \in Nat

Ends    == {"user", "target"}
Streams == {"sstream", "cstream"}
Sockets == Ends \union Streams \union {"local", "remote"}
Sides   == {"server", "client"}

Peer == [user |-> "local", local |-> "user", sstream |-> "cstream",
         cstream |-> "sstream", remote |-> "target", target |-> "remote"]

Other == [user |-> "target", target |-> "user"]

LenTok  == -2
NameTok == -1

(* relay(a, b) starts cp(a, b) and cp(b, a): on the server a is the user's *)
(* connection and b the stream, on the client a is the stream.             *)
Copiers == {"sUp", "sDown", "cUp", "cDown"}
Src  == [sUp |-> "local",   sDown |-> "sstream", cUp |-> "cstream", cDown |-> "remote"]
Dst  == [sUp |-> "sstream", sDown |-> "local",   cUp |-> "remote",  cDown |-> "cstream"]
CpOf == [server |-> {"sUp", "sDown"}, client |-> {"cUp", "cDown"}]

VARIABLES
    tLen,    \* length of the configured target
    up,      \* the smux session works
    q,       \* what has arrived at a socket and was not read
    closed,  \* the socket was closed
    shut,    \* the socket sends no more
    pc,      \* where the handler of a side is
    cpc,     \* where a copying goroutine is
    buf,     \* the piece it has read
    bytes,   \* GlobalStats.BytesSent and BytesRecv: pieces a copier read
    active,  \* GlobalStats.ActiveConns of a side
    sent,    \* pieces the user and the target sent
    got,     \* pieces they received
    out,     \* the last one, as a chunk of ByteStream
    eof      \* they saw the end of the stream

conn == <<q, closed, shut>>
ends == <<sent, got, out, eof>>
vars == <<tLen, up, q, closed, shut, pc, cpc, buf, bytes, active, sent, got, out, eof>>

Init ==
    /\ tLen \in TargetLens
    /\ up = TRUE
    /\ q = [s \in Sockets |-> <<>>]
    /\ closed = [s \in Sockets |-> FALSE]
    /\ shut = [s \in Sockets |-> FALSE]
    /\ pc = [server |-> "open", client |-> "accept"]
    /\ cpc = [c \in Copiers |-> "off"]
    /\ buf = [c \in Copiers |-> 0]
    /\ bytes = [c \in Copiers |-> 0]
    /\ active = [h \in Sides |-> 0]
    /\ sent = [e \in Ends |-> 0]
    /\ got = [e \in Ends |-> 0]
    /\ out = [e \in Ends |-> [from |-> 0, n |-> 0]]
    /\ eof = [e \in Ends |-> FALSE]
-----------------------------------------------------------------------------
(* The sockets: TCP connections of the system, and smux streams.           *)

Broken(s) == s \in Streams /\ ~up

HasData(s) == ~closed[s] /\ q[s] # <<>>

(* Read returns io.EOF or an error; the relay treats both alike.           *)
AtEnd(s) == closed[s] \/ (q[s] = <<>> /\ (shut[Peer[s]] \/ Broken(s)))

CanFail(s) == closed[s] \/ closed[Peer[s]] \/ Broken(s)

(* Write returns without error.  What is sent to a socket that was closed  *)
(* vanishes.                                                               *)
Put(s, t) ==
    /\ ~closed[s] /\ ~Broken(s)
    /\ \/ closed[Peer[s]] /\ UNCHANGED q
       \/ ~closed[Peer[s]] /\ Len(q[Peer[s]]) < Window
          /\ q' = [q EXCEPT ![Peer[s]] = Append(@, t)]

(* Close drops what was not read; a TCP connection closed with such data   *)
(* is reset, which cuts what its peer has yet to read.                     *)
Cut(s, S, k) ==
    IF s \in S THEN <<>>
    ELSE IF Peer[s] \in S \ Streams /\ q[Peer[s]] # <<>> /\ k < Len(q[s])
           THEN SubSeq(q[s], 1, k)
           ELSE q[s]

Close(S) ==
    /\ closed' = [s \in Sockets |-> closed[s] \/ s \in S]
    /\ shut' = [s \in Sockets |-> shut[s] \/ s \in S]
    /\ \E k \in 0..Window : q' = [s \in Sockets |-> Cut(s, S, k)]

(* The session breaks: of what is under way a part arrives.                *)
SessionBreaks ==
    /\ up /\ up' = FALSE
    /\ \E i, j \in 0..Window :
         /\ i <= Len(q["sstream"]) /\ j <= Len(q["cstream"])
         /\ q' = [q EXCEPT !["sstream"] = SubSeq(@, 1, i), !["cstream"] = SubSeq(@, 1, j)]
    /\ UNCHANGED <<tLen, closed, shut, pc, cpc, buf, bytes, active, ends>>
-----------------------------------------------------------------------------
(* The handlers.                                                           *)

Goto(h, l) == pc' = [pc EXCEPT ![h] = l]

(* What a side's deferred Close calls close.                               *)
Owned(h) ==
    IF h = "server"
      THEN {"local"} \union (IF pc[h] \in {"open", "retry"} THEN {} ELSE {"sstream"})
      ELSE {"cstream"} \union (IF pc[h] = "relay" THEN {"remote"} ELSE {})

Return(h) == Goto(h, "end") /\ Close(Owned(h))

(* relay starts: the connection is counted and the copiers run.            *)
Relay(h) ==
    /\ Goto(h, "relay")
    /\ active' = [active EXCEPT ![h] = @ + 1]
    /\ cpc' = [c \in Copiers |-> IF c \in CpOf[h] THEN "read" ELSE cpc[c]]

(* openStream succeeds; it fails and is retried once, two seconds later.   *)
OpenStream ==
    /\ pc["server"] \in {"open", "retry"}
    /\ up
    /\ Goto("server", "len")
    /\ UNCHANGED <<tLen, up, conn, cpc, buf, bytes, active, ends>>

OpenFails ==
    /\ \/ pc["server"] = "open" /\ Goto("server", "retry") /\ UNCHANGED conn
       \/ pc["server"] = "retry" /\ Return("server")
    /\ UNCHANGED <<tLen, up, cpc, buf, bytes, active, ends>>

(* sendTarget: two writes; relay follows the second.                       *)
SendLen ==
    /\ pc["server"] = "len"
    /\ Put("sstream", LenTok)
    /\ Goto("server", "name")
    /\ UNCHANGED <<tLen, up, closed, shut, cpc, buf, bytes, active, ends>>

SendName ==
    /\ pc["server"] = "name"
    /\ Put("sstream", NameTok)
    /\ Relay("server")
    /\ UNCHANGED <<tLen, up, closed, shut, buf, bytes, ends>>

SendFails ==
    /\ pc["server"] \in {"len", "name"}
    /\ CanFail("sstream")
    /\ Return("server")
    /\ UNCHANGED <<tLen, up, cpc, buf, bytes, active, ends>>

(* There is a stream: the server has it, or has closed it.                 *)
Opened == pc["server"] \in {"len", "name", "relay"} \/ closed["sstream"]

(* The client accepts the stream.                                          *)
Accept ==
    /\ pc["client"] = "accept"
    /\ Opened
    /\ up
    /\ Goto("client", "len")
    /\ UNCHANGED <<tLen, up, conn, cpc, buf, bytes, active, ends>>

ValidLen == tLen > 0 /\ tLen <= 4096

(* io.ReadFull of the length, then of the name.                            *)
ReadHeader(l, next) ==
    /\ pc["client"] = l
    /\ HasData("cstream")
    /\ q' = [q EXCEPT !["cstream"] = Tail(@)]
    /\ Goto("client", next)
    /\ UNCHANGED <<tLen, up, closed, shut, cpc, buf, bytes, active, ends>>

(* Variant for the mutation checks: the name is left in the stream.        *)
ReadNameStays ==
    /\ pc["client"] = "name"
    /\ HasData("cstream")
    /\ Goto("client", "dial")
    /\ UNCHANGED <<tLen, up, conn, cpc, buf, bytes, active, ends>>

ReadLen  == ReadHeader("len", IF ValidLen THEN "name" ELSE "bad")
ReadName == ReadHeader("name", "dial")

(* The stream ends within the header, the deadline of 10 s passes, the     *)
(* length is out of range, or the dial fails: the stream is closed.        *)
HeaderFails ==
    /\ pc["client"] \in {"len", "name", "bad", "dial"}
    /\ Return("client")
    /\ UNCHANGED <<tLen, up, cpc, buf, bytes, active, ends>>

Dial ==
    /\ pc["client"] = "dial"
    /\ Relay("client")
    /\ UNCHANGED <<tLen, up, conn, buf, bytes, ends>>

(* relay returns when both copiers are done.                               *)
RelayEnds(h) ==
    /\ pc[h] = "relay"
    /\ \A c \in CpOf[h] : cpc[c] = "done"
    /\ active' = [active EXCEPT ![h] = @ - 1]
    /\ Return(h)
    /\ UNCHANGED <<tLen, up, cpc, buf, bytes, ends>>
-----------------------------------------------------------------------------
(* The copiers: io.CopyBuffer through a MeasuredReader, then Close.        *)

(* Variant for the mutation checks: the reader and cp both count.          *)
CpReadCountsTwice(c) ==
    /\ cpc[c] = "read"
    /\ HasData(Src[c])
    /\ buf' = [buf EXCEPT ![c] = Head(q[Src[c]])]
    /\ bytes' = [bytes EXCEPT ![c] = @ + 2]
    /\ q' = [q EXCEPT ![Src[c]] = Tail(@)]
    /\ cpc' = [cpc EXCEPT ![c] = "write"]
    /\ UNCHANGED <<tLen, up, closed, shut, pc, active, ends>>

CpRead(c) ==
    /\ cpc[c] = "read"
    /\ HasData(Src[c])
    /\ buf' = [buf EXCEPT ![c] = Head(q[Src[c]])]
    /\ bytes' = [bytes EXCEPT ![c] = @ + 1]
    /\ q' = [q EXCEPT ![Src[c]] = Tail(@)]
    /\ cpc' = [cpc EXCEPT ![c] = "write"]
    /\ UNCHANGED <<tLen, up, closed, shut, pc, active, ends>>

(* Variant for the mutation checks: the header's deadline is still set.    *)
CpReadEndDeadline(c) ==
    /\ cpc[c] = "read"
    /\ AtEnd(Src[c]) \/ Src[c] = "cstream"
    /\ cpc' = [cpc EXCEPT ![c] = "close"]
    /\ UNCHANGED <<tLen, up, conn, pc, buf, bytes, active, ends>>

CpReadEnd(c) ==
    /\ cpc[c] = "read"
    /\ AtEnd(Src[c])
    /\ cpc' = [cpc EXCEPT ![c] = "close"]
    /\ UNCHANGED <<tLen, up, conn, pc, buf, bytes, active, ends>>

CpWrite(c) ==
    /\ cpc[c] = "write"
    /\ Put(Dst[c], buf[c])
    /\ cpc' = [cpc EXCEPT ![c] = "read"]
    /\ UNCHANGED <<tLen, up, closed, shut, pc, buf, bytes, active, ends>>

CpWriteFails(c) ==
    /\ cpc[c] = "write"
    /\ CanFail(Dst[c])
    /\ cpc' = [cpc EXCEPT ![c] = "close"]
    /\ UNCHANGED <<tLen, up, conn, pc, buf, bytes, active, ends>>

(* Variant for the mutation checks: the destination is left to the caller. *)
CpCloseNot(c) ==
    /\ cpc[c] = "close"
    /\ cpc' = [cpc EXCEPT ![c] = "done"]
    /\ UNCHANGED <<tLen, up, conn, pc, buf, bytes, active, ends>>

CpClose(c) ==
    /\ cpc[c] = "close"
    /\ Close({Dst[c]})
    /\ cpc' = [cpc EXCEPT ![c] = "done"]
    /\ UNCHANGED <<tLen, up, pc, buf, bytes, active, ends>>

Cp(c) ==
    CpRead(c) \/ CpReadEnd(c) \/ CpWrite(c) \/ CpWriteFails(c) \/ CpClose(c)
-----------------------------------------------------------------------------
(* The user and the target.  There is no target before the dial.           *)

Connected(e) == e = "user" \/ cpc["cUp"] # "off"

Send(e) ==
    /\ Connected(e) /\ ~shut[e]
    /\ sent[e] < MaxSent
    /\ ~closed[Peer[e]] /\ Put(e, sent[e])
    /\ sent' = [sent EXCEPT ![e] = @ + 1]
    /\ UNCHANGED <<tLen, up, closed, shut, pc, cpc, buf, bytes, active, got, out, eof>>

Receive(e) ==
    /\ HasData(e) /\ ~eof[e]
    /\ got' = [got EXCEPT ![e] = @ + 1]
    /\ out' = [out EXCEPT ![e] = [from |-> Head(q[e]), n |-> 1]]
    /\ q' = [q EXCEPT ![e] = Tail(@)]
    /\ UNCHANGED <<tLen, up, closed, shut, pc, cpc, buf, bytes, active, sent, eof>>

SeeEnd(e) ==
    /\ Connected(e) /\ ~closed[e] /\ ~eof[e]
    /\ q[e] = <<>> /\ shut[Peer[e]]
    /\ eof' = [eof EXCEPT ![e] = TRUE]
    /\ UNCHANGED <<tLen, up, conn, pc, cpc, buf, bytes, active, sent, got, out>>

(* CloseWrite: no more is sent, the answer is still awaited.               *)
Finish(e) ==
    /\ Connected(e) /\ ~shut[e]
    /\ shut' = [shut EXCEPT ![e] = TRUE]
    /\ UNCHANGED <<tLen, up, q, closed, pc, cpc, buf, bytes, active, ends>>

HangUp(e) ==
    /\ Connected(e) /\ ~closed[e]
    /\ Close({e})
    /\ UNCHANGED <<tLen, up, pc, cpc, buf, bytes, active, ends>>
-----------------------------------------------------------------------------
Server == OpenStream \/ OpenFails \/ SendLen \/ SendName \/ SendFails \/ RelayEnds("server")
Client == Accept \/ ReadLen \/ ReadName \/ HeaderFails \/ Dial \/ RelayEnds("client")

Next ==
    \/ Server \/ Client
    \/ \E c \in Copiers : Cp(c)
    \/ \E e \in Ends : Send(e) \/ Receive(e) \/ SeeEnd(e) \/ Finish(e) \/ HangUp(e)
    \/ SessionBreaks

Spec == Init /\ [][Next]_vars

(* Goroutines that can go on do; user and target read what they are sent   *)
(* until it ends.  They need not send, finish or hang up.                  *)
FairSpec ==
    /\ Spec
    /\ WF_vars(Server) /\ WF_vars(Client)
    /\ \A c \in Copiers : WF_vars(Cp(c))
    /\ \A e \in Ends : WF_vars(Receive(e))
-----------------------------------------------------------------------------
(***************************************************************************)
(* Each direction is a byte stream from end to end: the target receives    *)
(* what the user sent, in order and without the header, whatever closes,   *)
(* resets or breaks, and so does the user what the target sent.            *)
(***************************************************************************)
Upward   == INSTANCE ByteStream WITH
    sent <- sent["user"], got <- got["target"], out <- out["target"], ended <- eof["target"]
Downward == INSTANCE ByteStream WITH
    sent <- sent["target"], got <- got["user"], out <- out["user"], ended <- eof["user"]
EndToEnd == Upward!Spec /\ Downward!Spec

(***************************************************************************)
(* An end of stream is true: while the session holds, an end that has sent *)
(* nothing that did not arrive and has not finished itself sees the end    *)
(* only after the other one finished, and after all it sent.               *)
(***************************************************************************)
EofIsTrue ==
    \A e \in Ends : LET f == Other[e] IN
        /\ eof[e] /\ up /\ ~shut[e] /\ got[f] = sent[e]
        /\ cpc["cUp"] # "off"
        => shut[f] /\ got[e] = sent[f]

(***************************************************************************)
(* The traffic counters of the two sides bracket what was delivered: a     *)
(* side never counts less than arrives behind it nor more than was sent.   *)
(***************************************************************************)
CountersBracket ==
    /\ got["target"] <= bytes["cUp"] /\ bytes["cUp"] <= bytes["sUp"] /\ bytes["sUp"] <= sent["user"]
    /\ got["user"] <= bytes["sDown"] /\ bytes["sDown"] <= bytes["cDown"] /\ bytes["cDown"] <= sent["target"]

(* Nothing of the connection is left on a side.                            *)
Released(h) ==
    /\ pc[h] \in {"accept", "end"} /\ active[h] = 0
    /\ \A c \in CpOf[h] : cpc[c] \in {"off", "done"}

(***************************************************************************)
(* Once an end has finished or hung up, or the session broke, both sides   *)
(* close their sockets, end their goroutines and stop counting the         *)
(* connection: relay, which waits for both directions, returns.            *)
(***************************************************************************)
RelayReturns ==
    (\E e \in Ends : shut[e]) \/ ~up ~> \A h \in Sides : Released(h)
=============================================================================
