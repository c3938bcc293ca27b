------------------------- MODULE StreamRelayProofs --------------------------
(***************************************************************************)
(* Proofs about StreamRelay: each direction is a byte stream from end to   *)
(* end, the counters bracket what is delivered, and an end of stream is    *)
(* true, for every window and every number of pieces.                      *)
(***************************************************************************)
EXTENDS StreamRelay, SequenceTheorems, TLAPS

(* A queue holds consecutive integers from r on: the two tokens of the     *)
(* header are the positions -2 and -1 of the user's stream.                *)
Counts(qs, r) == \A i \in 1..Len(qs) : qs[i] = r + i - 1

(* A link whose reader is at r and whose writer is at w: nothing is        *)
(* reordered or added, and nothing is missing while it flows.              *)
Link(qs, r, w, flows) ==
    /\ Counts(qs, r)
    /\ r + Len(qs) <= w
    /\ flows => r + Len(qs) = w

LEMMA LinkEmpty ==
  ASSUME NEW r \in Int, NEW w \in Int, r <= w
  PROVE  Link(<<>>, r, w, FALSE)
  BY DEF Link, Counts

LEMMA LinkWeak ==
  ASSUME NEW qs, NEW r, NEW w, NEW f \in BOOLEAN, NEW g \in BOOLEAN,
         g => f, Link(qs, r, w, f)
  PROVE  Link(qs, r, w, g)
  BY DEF Link

(* The writer goes on, and what it wrote is lost.                          *)
LEMMA LinkMiss ==
  ASSUME NEW qs \in Seq(Int), NEW r \in Int, NEW w \in Int, NEW f, Link(qs, r, w, f)
  PROVE  Link(qs, r, w + 1, FALSE) /\ r + Len(qs) # w + 1
<1>1. Len(qs) \in Nat
  BY LenProperties
<1> QED BY <1>1 DEF Link

LEMMA LinkAdd ==
  ASSUME NEW qs \in Seq(Int), NEW r \in Int, NEW w \in Int, NEW g, Link(qs, r, w, TRUE)
  PROVE  /\ Link(Append(qs, w), r, w + 1, g)
         /\ Append(qs, w) \in Seq(Int) /\ r + Len(Append(qs, w)) = w + 1
<1>1. Len(qs) \in Nat /\ r + Len(qs) = w
  BY LenProperties DEF Link
<1>2. Append(qs, w) \in Seq(Int) /\ Len(Append(qs, w)) = Len(qs) + 1
  OBVIOUS
<1>3. ASSUME NEW i \in 1..(Len(qs) + 1) PROVE Append(qs, w)[i] = r + i - 1
  <2>1. CASE i <= Len(qs)
    BY <1>1, <2>1 DEF Link, Counts
  <2>2. CASE i = Len(qs) + 1
    BY <1>1, <2>2
  <2> QED BY <1>1, <2>1, <2>2
<1>4. r + Len(Append(qs, w)) = w + 1
  BY <1>1, <1>2
<1>5. Counts(Append(qs, w), r)
  BY <1>2, <1>3 DEF Counts
<1> QED BY <1>2, <1>4, <1>5 DEF Link

LEMMA LinkTake ==
  ASSUME NEW qs \in Seq(Int), NEW r \in Int, NEW w \in Int, NEW f,
         Link(qs, r, w, f), qs # <<>>
  PROVE  /\ Head(qs) = r /\ Tail(qs) \in Seq(Int)
         /\ Len(qs) \in Nat \ {0} /\ Len(Tail(qs)) = Len(qs) - 1
         /\ r + 1 <= w
         /\ Link(Tail(qs), r + 1, w, f)
<1>1. Len(qs) \in Nat \ {0}
  BY EmptySeq, LenProperties
<1>2. Head(qs) = qs[1] /\ Tail(qs) \in Seq(Int) /\ Len(Tail(qs)) = Len(qs) - 1
  BY HeadTailProperties
<1>3. \A i \in 1..Len(Tail(qs)) : Tail(qs)[i] = qs[i + 1]
  BY HeadTailProperties
<1>4. qs[1] = r
  BY <1>1 DEF Link, Counts
<1>5. \A i \in 1..Len(Tail(qs)) : qs[i + 1] = r + 1 + i - 1
  BY <1>1, <1>2 DEF Link, Counts
<1>6. Counts(Tail(qs), r + 1)
  BY <1>3, <1>5 DEF Counts
<1>7. /\ r + 1 <= w
      /\ r + 1 + Len(Tail(qs)) = r + Len(qs)
  BY <1>1, <1>2 DEF Link
<1> QED BY <1>1, <1>2, <1>4, <1>6, <1>7 DEF Link

LEMMA LinkCut ==
  ASSUME NEW qs \in Seq(Int), NEW r \in Int, NEW w \in Int, NEW f,
         Link(qs, r, w, f), NEW k \in 0..Len(qs)
  PROVE  /\ SubSeq(qs, 1, k) \in Seq(Int) /\ Len(SubSeq(qs, 1, k)) = k
         /\ Link(SubSeq(qs, 1, k), r, w, FALSE)
<1>1. Len(qs) \in Nat
  BY LenProperties
<1>2. SubSeq(qs, 1, k) \in Seq(Int) /\ Len(SubSeq(qs, 1, k)) = k
  BY <1>1
<1>3. \A i \in 1..k : SubSeq(qs, 1, k)[i] = qs[i]
  BY <1>1
<1>4. Counts(SubSeq(qs, 1, k), r)
  BY <1>1, <1>2, <1>3 DEF Link, Counts
<1> QED BY <1>1, <1>2, <1>4 DEF Link
-----------------------------------------------------------------------------
(* Nothing on the link to s is closed or broken.                           *)
Flows(s) == ~closed[s] /\ ~closed[Peer[s]] /\ ~Broken(s)

(* What a copier has passed on, or tried to.                               *)
Passed(c) == IF cpc[c] = "write" THEN bytes[c] - 1 ELSE bytes[c]

(* The position that is read next at a socket ...                          *)
Rd(s) ==
    CASE s = "local"   -> bytes["sUp"]
      [] s = "cstream" -> IF pc["client"] = "dial" \/ cpc["cUp"] # "off" THEN bytes["cUp"]
                          ELSE IF pc["client"] \in {"name", "bad"} THEN NameTok ELSE LenTok
      [] s = "remote"  -> bytes["cDown"]
      [] s = "sstream" -> bytes["sDown"]
      [] OTHER         -> got[s]

(* ... and the one its peer writes next.                                   *)
Wr(s) ==
    CASE s = "local"   -> sent["user"]
      [] s = "cstream" -> IF cpc["sUp"] # "off" THEN Passed("sUp")
                          ELSE IF pc["server"] = "name" \/ closed["sstream"] THEN NameTok ELSE LenTok
      [] s = "target"  -> Passed("cUp")
      [] s = "remote"  -> sent["target"]
      [] s = "sstream" -> Passed("cDown")
      [] OTHER         -> Passed("sDown")

Links == \A s \in Sockets : Link(q[s], Rd(s), Wr(s), Flows(s))

Places == {"open", "retry", "accept", "len", "name", "bad", "dial", "relay", "end"}

RelayType ==
    /\ up \in BOOLEAN
    /\ q \in [Sockets -> Seq(Int)]
    /\ closed \in [Sockets -> BOOLEAN] /\ shut \in [Sockets -> BOOLEAN]
    /\ pc \in [Sides -> Places]
    /\ pc["server"] \in {"open", "retry", "len", "name", "relay", "end"}
    /\ cpc \in [Copiers -> {"off", "read", "write", "close", "done"}]
    /\ buf \in [Copiers -> Int] /\ bytes \in [Copiers -> Nat]
    /\ sent \in [Ends -> Nat] /\ got \in [Ends -> Nat]
    /\ out \in [Ends -> [from : Int, n : Nat]]
    /\ eof \in [Ends -> BOOLEAN]

(* A closed socket is shut and holds nothing; only an end half-closes.     *)
Sockets1 ==
    /\ \A s \in Sockets : closed[s] => q[s] = <<>> /\ shut[s]
    /\ \A s \in Sockets \ Ends : shut[s] => closed[s]
    /\ \A e \in Ends : eof[e] => shut[Peer[e]] /\ q[e] = <<>>

(* A copier counts from zero and holds the piece it counted last.          *)
Copying ==
    \A c \in Copiers :
        /\ cpc[c] = "off" => bytes[c] = 0
        /\ cpc[c] = "write" => bytes[c] > 0 /\ buf[c] = bytes[c] - 1

(* The copiers of a side start together, when relay is called, and before  *)
(* that the side closes a socket only to give up.                          *)
Starting ==
    /\ cpc["sUp"] = "off" <=> cpc["sDown"] = "off"
    /\ cpc["cUp"] = "off" <=> cpc["cDown"] = "off"
    /\ pc["server"] \in {"open", "retry", "len", "name"} => cpc["sUp"] = "off"
    /\ pc["server"] = "relay" => cpc["sUp"] # "off"
    /\ pc["client"] \notin {"relay", "end"} => cpc["cUp"] = "off"
    /\ pc["client"] = "relay" => cpc["cUp"] # "off"
    /\ cpc["sUp"] = "off" /\ pc["server"] # "end" => ~closed["sstream"] /\ ~closed["local"]
    /\ cpc["cUp"] = "off" => ~closed["remote"] /\ ~closed["target"] /\ ~shut["target"]
    /\ cpc["cUp"] = "off" /\ pc["client"] # "end" => ~closed["cstream"]

Basics == RelayType /\ Sockets1 /\ Copying /\ Starting
-----------------------------------------------------------------------------
(* The constants.                                                          *)
LEMMA PeerFacts ==
  /\ \A s \in Sockets : Peer[s] \in Sockets /\ Peer[Peer[s]] = s /\ Peer[s] # s
  /\ \A s \in Sockets : Peer[s] \in Streams <=> s \in Streams
  /\ \A e \in Ends : Peer[e] \in Sockets \ Ends /\ e \in Sockets
  BY DEF Peer, Sockets, Streams, Ends

LEMMA CopierFacts ==
  \A c \in Copiers : /\ Src[c] \in Sockets \ Ends /\ Dst[c] \in Sockets \ Ends
                     /\ Src[c] # Dst[c] /\ Peer[Dst[c]] # Src[c]
  BY DEF Copiers, Src, Dst, Sockets, Ends, Streams, Peer

(* What closing a set of sockets does to the queues.                       *)
LEMMA CloseEffect ==
  ASSUME RelayType, Sockets1, NEW S \in SUBSET Sockets, Close(S)
  PROVE  /\ closed' \in [Sockets -> BOOLEAN] /\ shut' \in [Sockets -> BOOLEAN]
         /\ q' \in [Sockets -> Seq(Int)]
         /\ \A s \in Sockets : closed'[s] <=> closed[s] \/ s \in S
         /\ \A s \in Sockets : shut'[s] <=> shut[s] \/ s \in S
         /\ \A s \in S : q'[s] = <<>>
         /\ \A s \in Sockets : q'[s] = q[s] \/ \E k \in 0..Len(q[s]) : q'[s] = SubSeq(q[s], 1, k)
         /\ \A s \in Sockets \ S :
               Peer[s] \notin S \/ s \in Streams \/ q[Peer[s]] = <<>> => q'[s] = q[s]
         /\ \A s \in Sockets : q[s] = <<>> => q'[s] = <<>>
<1>1. PICK k \in 0..Window : q' = [s \in Sockets |-> Cut(s, S, k)]
  BY DEF Close
<1>2. \A s \in Sockets : closed[s] \in BOOLEAN /\ shut[s] \in BOOLEAN
  BY DEF RelayType
<1>3. /\ closed' \in [Sockets -> BOOLEAN] /\ shut' \in [Sockets -> BOOLEAN]
      /\ \A s \in Sockets : closed'[s] <=> closed[s] \/ s \in S
      /\ \A s \in Sockets : shut'[s] <=> shut[s] \/ s \in S
  BY <1>2 DEF Close
<1>4. \A s \in Sockets : q[s] \in Seq(Int) /\ Len(q[s]) \in Nat
  BY LenProperties DEF RelayType
<1>5. ASSUME NEW s \in Sockets
      PROVE  /\ q'[s] \in Seq(Int)
             /\ s \in S => q'[s] = <<>>
             /\ q'[s] = q[s] \/ \E j \in 0..Len(q[s]) : q'[s] = SubSeq(q[s], 1, j)
             /\ s \notin S /\ (Peer[s] \notin S \/ s \in Streams \/ q[Peer[s]] = <<>>) => q'[s] = q[s]
             /\ q[s] = <<>> => q'[s] = <<>>
  <2>1. q'[s] = Cut(s, S, k)
    BY <1>1
  <2>2. CASE s \in S
    <3>1. q'[s] = <<>>
      BY <2>1, <2>2 DEF Cut
    <3>2. 0 \in 0..Len(q[s]) /\ SubSeq(q[s], 1, 0) = <<>>
      BY <1>4
    <3> QED BY <2>2, <3>1, <3>2
  <2>3. CASE s \notin S /\ Peer[s] \in S \ Streams /\ q[Peer[s]] # <<>> /\ k < Len(q[s])
    <3>1. q'[s] = SubSeq(q[s], 1, k) /\ k \in 0..Len(q[s])
      BY <1>4, <2>1, <2>3 DEF Cut
    <3>2. SubSeq(q[s], 1, k) \in Seq(Int)
      BY <1>4, <3>1
    <3>3. s \notin Streams
      BY <2>3, PeerFacts
    <3>4. q[s] # <<>>
      BY <1>4, <2>3
    <3> QED BY <2>3, <3>1, <3>2, <3>3, <3>4
  <2>4. CASE s \notin S /\ ~(Peer[s] \in S \ Streams /\ q[Peer[s]] # <<>> /\ k < Len(q[s]))
    <3>1. q'[s] = q[s]
      BY <2>1, <2>4 DEF Cut
    <3> QED BY <1>4, <2>4, <3>1
  <2> QED BY <2>2, <2>3, <2>4
<1>6. q' \in [Sockets -> Seq(Int)]
  <2>1. DOMAIN q' = Sockets /\ q' = [s \in Sockets |-> q'[s]]
    BY <1>1
  <2> QED BY <1>5, <2>1
<1> QED BY <1>3, <1>5, <1>6

(* What a successful Write does.                                           *)
LEMMA PutEffect ==
  ASSUME RelayType, NEW s \in Sockets, NEW t \in Int, Put(s, t)
  PROVE  /\ q' \in [Sockets -> Seq(Int)]
         /\ ~closed[s] /\ ~Broken(s)
         /\ \A x \in Sockets : x # Peer[s] => q'[x] = q[x]
         /\ \/ closed[Peer[s]] /\ q' = q
            \/ ~closed[Peer[s]] /\ q'[Peer[s]] = Append(q[Peer[s]], t)
<1>1. Peer[s] \in Sockets
  BY PeerFacts
<1>2. CASE closed[Peer[s]] /\ UNCHANGED q
  BY <1>2 DEF Put, RelayType
<1>3. CASE ~closed[Peer[s]] /\ q' = [q EXCEPT ![Peer[s]] = Append(@, t)]
  <2>1. Append(q[Peer[s]], t) \in Seq(Int)
    BY <1>1 DEF RelayType
  <2> QED BY <1>1, <1>3, <2>1 DEF Put, RelayType
<1> QED BY <1>2, <1>3 DEF Put

(* A running copier reads at one position and writes at another.           *)
LEMMA CopierAt ==
  ASSUME RelayType, NEW c \in Copiers, cpc[c] # "off"
  PROVE  Rd(Src[c]) = bytes[c] /\ Wr(Peer[Dst[c]]) = Passed(c)
<1>1. CASE c = "sUp"
  BY <1>1 DEF Src, Dst, Peer, Rd, Wr
<1>2. CASE c = "sDown"
  BY <1>2 DEF Src, Dst, Peer, Rd, Wr
<1>3. CASE c = "cUp"
  BY <1>3 DEF Src, Dst, Peer, Rd, Wr
<1>4. CASE c = "cDown"
  BY <1>4 DEF Src, Dst, Peer, Rd, Wr
<1> QED BY <1>1, <1>2, <1>3, <1>4 DEF Copiers

LEMMA EndAt ==
  ASSUME NEW e \in Ends
  PROVE  Rd(e) = got[e] /\ Wr(Peer[e]) = sent[e]
<1>1. CASE e = "user"
  BY <1>1 DEF Peer, Rd, Wr
<1>2. CASE e = "target"
  BY <1>2 DEF Peer, Rd, Wr
<1> QED BY <1>1, <1>2 DEF Ends

LEMMA AtInt ==
  ASSUME RelayType, NEW s \in Sockets
  PROVE  Rd(s) \in Int /\ Wr(s) \in Int
<1>1. \A c \in Copiers : bytes[c] \in Int /\ Passed(c) \in Int
  BY DEF RelayType, Passed
<1>2. \A e \in Ends : got[e] \in Int /\ sent[e] \in Int
  BY DEF RelayType
<1>3. NameTok \in Int /\ LenTok \in Int
  BY DEF NameTok, LenTok
<1>4. "sUp" \in Copiers /\ "sDown" \in Copiers /\ "cUp" \in Copiers /\ "cDown" \in Copiers
  BY DEF Copiers
<1>5. Rd(s) \in Int
  BY <1>1, <1>2, <1>3, <1>4 DEF Rd, Sockets, Ends, Streams
<1>6. Wr(s) \in Int
  BY <1>1, <1>2, <1>3, <1>4 DEF Wr, Sockets, Ends, Streams
<1> QED BY <1>5, <1>6
-----------------------------------------------------------------------------
LEMMA SocketsClose ==
  ASSUME RelayType, Sockets1, NEW S \in SUBSET Sockets, Close(S), UNCHANGED eof
  PROVE  Sockets1'
<1>1. \A s \in Sockets : closed'[s] => q'[s] = <<>> /\ shut'[s]
  BY CloseEffect DEF Sockets1
<1>2. \A s \in Sockets \ Ends : shut'[s] => closed'[s]
  BY CloseEffect DEF Sockets1
<1>3. \A e \in Ends : eof'[e] => shut'[Peer[e]] /\ q'[e] = <<>>
  BY CloseEffect, PeerFacts DEF Sockets1
<1> QED BY <1>1, <1>2, <1>3 DEF Sockets1

LEMMA SocketsPut ==
  ASSUME RelayType, Sockets1, NEW s \in Sockets, NEW t \in Int, Put(s, t),
         UNCHANGED <<closed, shut, eof>>
  PROVE  Sockets1'
<1>1. \A x \in Sockets : closed'[x] => q'[x] = <<>> /\ shut'[x]
  BY PutEffect DEF Sockets1
<1>2. \A x \in Sockets \ Ends : shut'[x] => closed'[x]
  BY DEF Sockets1
<1>3. ASSUME NEW e \in Ends, eof'[e] PROVE shut'[Peer[e]] /\ q'[e] = <<>>
  <2>1. shut[Peer[e]] /\ q[e] = <<>> /\ closed[Peer[e]]
    BY <1>3, PeerFacts DEF Sockets1
  <2>2. e # Peer[s]
    BY <2>1, PutEffect, PeerFacts
  <2> QED BY <2>1, <2>2, PutEffect, PeerFacts
<1> QED BY <1>1, <1>2, <1>3 DEF Sockets1

(* A read leaves what is closed, and what is empty, alone.                 *)
LEMMA SocketsTake ==
  ASSUME RelayType, Sockets1, NEW s \in Sockets, HasData(s),
         q' = [q EXCEPT ![s] = Tail(@)], UNCHANGED <<closed, shut, eof>>
  PROVE  /\ q' \in [Sockets -> Seq(Int)]
         /\ q[s] \in Seq(Int) /\ q[s] # <<>> /\ q'[s] = Tail(q[s])
         /\ \A x \in Sockets : x # s => q'[x] = q[x]
         /\ Sockets1'
<1>1. q[s] \in Seq(Int) /\ q[s] # <<>>
  BY DEF HasData, RelayType
<1>2. Tail(q[s]) \in Seq(Int)
  BY <1>1, HeadTailProperties
<1>3. /\ q' \in [Sockets -> Seq(Int)] /\ q'[s] = Tail(q[s])
      /\ \A x \in Sockets : x # s => q'[x] = q[x]
  BY <1>2 DEF RelayType
<1>4. Sockets1'
  BY <1>1, <1>3, PeerFacts DEF Sockets1, HasData
<1> QED BY <1>1, <1>3, <1>4
-----------------------------------------------------------------------------
LEMMA ServerBasics ==
  ASSUME Basics, Server
  PROVE  Basics'
<1> USE DEF Basics, Places
<1>0. "server" \in Sides /\ "client" \in Sides
  BY DEF Sides
<1>cp. {"sUp", "sDown", "cUp", "cDown"} = Copiers
  BY DEF Copiers
<1>1. CASE OpenStream
  BY <1>0, <1>1 DEF OpenStream, Goto, conn, ends, RelayType, Sockets1, Copying, Starting
<1>2. CASE pc["server"] = "open" /\ Goto("server", "retry") /\ UNCHANGED conn /\ OpenFails
  BY <1>0, <1>2 DEF OpenFails, Goto, conn, ends, RelayType, Sockets1, Copying, Starting
<1>3. CASE \/ pc["server"] = "retry" /\ Return("server") /\ OpenFails
           \/ SendFails
  <2> DEFINE S == Owned("server")
  <2>1. /\ pc["server"] \in {"retry", "len", "name"} /\ pc' = [pc EXCEPT !["server"] = "end"]
        /\ Close(S) /\ UNCHANGED <<up, cpc, buf, bytes, sent, got, out, eof>>
    BY <1>3 DEF OpenFails, SendFails, Return, Goto, ends
  <2>2. S \in SUBSET {"local", "sstream"}
    BY DEF Owned
  <2>3. S \in SUBSET Sockets
    BY <2>2 DEF Sockets, Streams
  <2> HIDE DEF S
  <2>4. RelayType'
    BY <1>0, <2>1, <2>3, CloseEffect DEF RelayType
  <2>5. Sockets1'
    BY <2>1, <2>3, SocketsClose
  <2>6. /\ "cstream" \in Sockets \ S /\ "remote" \in Sockets \ S /\ "target" \in Sockets \ S
    BY <2>2 DEF Sockets, Streams, Ends
  <2>7. Starting'
    <3>1. pc'["server"] = "end" /\ pc'["client"] = pc["client"]
      BY <1>0, <2>1 DEF RelayType
    <3>2. /\ closed'["cstream"] => closed["cstream"]
          /\ closed'["remote"] => closed["remote"]
          /\ closed'["target"] => closed["target"]
          /\ shut'["target"] => shut["target"]
      BY <2>1, <2>3, <2>6, CloseEffect DEF RelayType
    <3> QED BY <2>1, <3>1, <3>2 DEF Starting
  <2> QED BY <2>1, <2>4, <2>5, <2>7 DEF Copying
<1>4. CASE SendLen
  <2>1. "sstream" \in Sockets /\ LenTok \in Int
    BY DEF Sockets, Streams, LenTok
  <2>2. RelayType' /\ Sockets1'
    BY <1>0, <1>4, <2>1, PutEffect, SocketsPut DEF SendLen, Goto, ends, RelayType
  <2> QED BY <1>0, <1>4, <2>2 DEF SendLen, Goto, ends, RelayType, Copying, Starting
<1>5. CASE SendName
  <2>1. "sstream" \in Sockets /\ NameTok \in Int
    BY DEF Sockets, Streams, NameTok
  <2>2. /\ pc["server"] = "name" /\ pc' = [pc EXCEPT !["server"] = "relay"]
        /\ Put("sstream", NameTok) /\ UNCHANGED <<up, closed, shut, buf, bytes, sent, got, out, eof>>
        /\ cpc' = [c \in Copiers |-> IF c \in {"sUp", "sDown"} THEN "read" ELSE cpc[c]]
    BY <1>5 DEF SendName, Relay, Goto, ends, CpOf
  <2>3. RelayType'
    BY <1>0, <2>1, <2>2, PutEffect DEF RelayType
  <2>4. Sockets1'
    BY <2>1, <2>2, SocketsPut
  <2>5. /\ cpc'["sUp"] = "read" /\ cpc'["sDown"] = "read"
        /\ cpc'["cUp"] = cpc["cUp"] /\ cpc'["cDown"] = cpc["cDown"]
    BY <1>cp, <2>2
  <2>6. Copying'
    BY <2>2 DEF Copying, RelayType
  <2>7. Starting'
    BY <1>0, <2>2, <2>5 DEF Starting, RelayType
  <2> QED BY <2>3, <2>4, <2>6, <2>7
<1>6. CASE RelayEnds("server")
  <2> DEFINE S == {"local", "sstream"}
  <2>1. /\ pc["server"] = "relay" /\ pc' = [pc EXCEPT !["server"] = "end"]
        /\ Close(S) /\ UNCHANGED <<up, cpc, buf, bytes, sent, got, out, eof>>
    BY <1>6 DEF RelayEnds, Return, Goto, Owned, ends
  <2>2. /\ S \in SUBSET Sockets
        /\ "cstream" \in Sockets \ S /\ "remote" \in Sockets \ S /\ "target" \in Sockets \ S
    BY DEF Sockets, Streams, Ends
  <2> HIDE DEF S
  <2>3. RelayType'
    BY <1>0, <2>1, <2>2, CloseEffect DEF RelayType
  <2>4. Sockets1'
    BY <2>1, <2>2, SocketsClose
  <2>5. Starting'
    <3>1. pc'["server"] = "end" /\ pc'["client"] = pc["client"]
      BY <1>0, <2>1 DEF RelayType
    <3>2. /\ closed'["cstream"] => closed["cstream"]
          /\ closed'["remote"] => closed["remote"]
          /\ closed'["target"] => closed["target"]
          /\ shut'["target"] => shut["target"]
      BY <2>1, <2>2, CloseEffect DEF RelayType
    <3> QED BY <2>1, <3>1, <3>2 DEF Starting
  <2> QED BY <2>1, <2>3, <2>4, <2>5 DEF Copying
<1> QED BY <1>1, <1>2, <1>3, <1>4, <1>5, <1>6 DEF Server, OpenFails

LEMMA ClientBasics ==
  ASSUME Basics, Client
  PROVE  Basics'
<1> USE DEF Basics, Places
<1>0. "server" \in Sides /\ "client" \in Sides
  BY DEF Sides
<1>cp. {"sUp", "sDown", "cUp", "cDown"} = Copiers
  BY DEF Copiers
<1>1. CASE Accept
  BY <1>0, <1>1 DEF Accept, Goto, conn, ends, RelayType, Sockets1, Copying, Starting
<1>2. CASE ReadLen \/ ReadName
  <2>1. /\ pc["client"] \in {"len", "name"} /\ HasData("cstream")
        /\ q' = [q EXCEPT !["cstream"] = Tail(@)]
        /\ UNCHANGED <<up, closed, shut, cpc, buf, bytes, sent, got, out, eof>>
        /\ pc'["server"] = pc["server"] /\ pc'["client"] \in {"name", "bad", "dial"}
        /\ pc' \in [Sides -> Places]
    BY <1>0, <1>2 DEF ReadLen, ReadName, ReadHeader, Goto, ends, RelayType
  <2>2. "cstream" \in Sockets
    BY DEF Sockets, Streams
  <2>3. q' \in [Sockets -> Seq(Int)] /\ Sockets1'
    BY <2>1, <2>2, SocketsTake
  <2> QED BY <2>1, <2>3 DEF RelayType, Copying, Starting
<1>3. CASE HeaderFails
  <2> DEFINE S == {"cstream"}
  <2>1. /\ pc["client"] \in {"len", "name", "bad", "dial"} /\ pc' = [pc EXCEPT !["client"] = "end"]
        /\ Close(S) /\ UNCHANGED <<up, cpc, buf, bytes, sent, got, out, eof>>
    BY <1>3 DEF HeaderFails, Return, Goto, Owned, ends
  <2>2. /\ S \in SUBSET Sockets
        /\ "sstream" \in Sockets \ S /\ "local" \in Sockets \ S
        /\ "remote" \in Sockets \ S /\ "target" \in Sockets \ S
    BY DEF Sockets, Streams, Ends
  <2> HIDE DEF S
  <2>3. RelayType'
    <3>1. /\ pc'["server"] = pc["server"]
          /\ pc' \in [Sides -> Places]
      BY <1>0, <2>1 DEF RelayType
    <3> QED BY <2>1, <2>2, <3>1, CloseEffect DEF RelayType
  <2>4. Sockets1'
    BY <2>1, <2>2, SocketsClose
  <2>5. Starting'
    <3>1. pc'["client"] = "end" /\ pc'["server"] = pc["server"]
      BY <1>0, <2>1 DEF RelayType
    <3>2. /\ closed'["sstream"] => closed["sstream"]
          /\ closed'["local"] => closed["local"]
          /\ closed'["remote"] => closed["remote"]
          /\ closed'["target"] => closed["target"]
          /\ shut'["target"] => shut["target"]
      BY <2>1, <2>2, CloseEffect DEF RelayType
    <3> QED BY <2>1, <3>1, <3>2 DEF Starting
  <2> QED BY <2>1, <2>3, <2>4, <2>5 DEF Copying
<1>4. CASE Dial
  <2>1. /\ pc["client"] = "dial" /\ pc' = [pc EXCEPT !["client"] = "relay"]
        /\ UNCHANGED <<up, q, closed, shut, buf, bytes, sent, got, out, eof>>
        /\ cpc' = [c \in Copiers |-> IF c \in {"cUp", "cDown"} THEN "read" ELSE cpc[c]]
    BY <1>4 DEF Dial, Relay, Goto, conn, ends, CpOf
  <2>2. RelayType'
    BY <1>0, <2>1 DEF RelayType
  <2>3. /\ cpc'["cUp"] = "read" /\ cpc'["cDown"] = "read"
        /\ cpc'["sUp"] = cpc["sUp"] /\ cpc'["sDown"] = cpc["sDown"]
    BY <1>cp, <2>1
  <2>4. Sockets1'
    BY <2>1 DEF Sockets1
  <2>5. Copying'
    BY <2>1 DEF Copying, RelayType
  <2>6. Starting'
    BY <1>0, <2>1, <2>3 DEF Starting, RelayType
  <2> QED BY <2>2, <2>4, <2>5, <2>6
<1>5. CASE RelayEnds("client")
  <2> DEFINE S == {"cstream", "remote"}
  <2>1. /\ pc["client"] = "relay" /\ pc' = [pc EXCEPT !["client"] = "end"]
        /\ Close(S) /\ UNCHANGED <<up, cpc, buf, bytes, sent, got, out, eof>>
    BY <1>5 DEF RelayEnds, Return, Goto, Owned, ends
  <2>2. /\ S \in SUBSET Sockets
        /\ "sstream" \in Sockets \ S /\ "local" \in Sockets \ S
    BY DEF Sockets, Streams, Ends
  <2> HIDE DEF S
  <2>3. RelayType'
    BY <1>0, <2>1, <2>2, CloseEffect DEF RelayType
  <2>4. Sockets1'
    BY <2>1, <2>2, SocketsClose
  <2>5. Starting'
    <3>1. pc'["client"] = "end" /\ pc'["server"] = pc["server"]
      BY <1>0, <2>1 DEF RelayType
    <3>2. closed'["sstream"] => closed["sstream"]
      BY <2>1, <2>2, CloseEffect DEF RelayType
    <3>3. closed'["local"] => closed["local"]
      BY <2>1, <2>2, CloseEffect DEF RelayType
    <3> QED BY <2>1, <3>1, <3>2, <3>3 DEF Starting
  <2> QED BY <2>1, <2>3, <2>4, <2>5 DEF Copying
<1> QED BY <1>1, <1>2, <1>3, <1>4, <1>5 DEF Client

LEMMA CopierBasics ==
  ASSUME Basics, Links, NEW c \in Copiers, Cp(c)
  PROVE  Basics'
<1> USE DEF Basics
<1>0. Src[c] \in Sockets \ Ends /\ Dst[c] \in Sockets \ Ends
  BY CopierFacts
<1>1. cpc[c] \in {"read", "write", "close"}
  BY DEF Cp, CpRead, CpReadEnd, CpWrite, CpWriteFails, CpClose
<1>2. UNCHANGED <<up, pc, sent, got, out, eof>>
  BY DEF Cp, CpRead, CpReadEnd, CpWrite, CpWriteFails, CpClose, ends
<1>3. PICK l \in {"read", "write", "close", "done"} : cpc' = [cpc EXCEPT ![c] = l]
  BY DEF Cp, CpRead, CpReadEnd, CpWrite, CpWriteFails, CpClose
<1>4. /\ cpc' \in [Copiers -> {"off", "read", "write", "close", "done"}] /\ cpc'[c] = l
      /\ \A d \in Copiers : (cpc'[d] = "off" <=> cpc[d] = "off") /\ (d # c => cpc'[d] = cpc[d])
  BY <1>1, <1>3 DEF RelayType
<1>5. \A d \in {"sUp", "sDown", "cUp", "cDown"} : cpc'[d] = "off" <=> cpc[d] = "off"
  BY <1>4 DEF Copiers
<1>6. ASSUME UNCHANGED <<closed, shut>> PROVE Starting'
  BY <1>2, <1>5, <1>6 DEF Starting
<1>7. CASE CpRead(c)
  <2> DEFINE s == Src[c]
  <2>1. /\ cpc[c] = "read" /\ HasData(s) /\ q' = [q EXCEPT ![s] = Tail(@)]
        /\ buf' = [buf EXCEPT ![c] = Head(q[s])] /\ bytes' = [bytes EXCEPT ![c] = @ + 1]
        /\ UNCHANGED <<closed, shut>>
    BY <1>7 DEF CpRead
  <2>2. s \in Sockets
    BY <1>0
  <2>3. Rd(s) = bytes[c]
    BY <2>1, CopierAt
  <2> HIDE DEF s
  <2>4. /\ q' \in [Sockets -> Seq(Int)] /\ Sockets1' /\ q[s] \in Seq(Int) /\ q[s] # <<>>
    BY <1>2, <2>1, <2>2, SocketsTake
  <2>5. Head(q[s]) = bytes[c]
    BY <2>2, <2>3, <2>4, AtInt, LinkTake DEF Links
  <2>6. bytes[c] \in Nat
    BY DEF RelayType
  <2>7. RelayType'
    BY <1>2, <1>4, <2>1, <2>4, <2>5, <2>6 DEF RelayType
  <2>8. Copying'
    BY <1>1, <1>4, <2>1, <2>5, <2>6 DEF Copying, RelayType
  <2> QED BY <1>6, <2>1, <2>4, <2>7, <2>8
<1>8. CASE CpReadEnd(c) \/ CpWriteFails(c)
  <2>1. l = "close" /\ UNCHANGED <<q, closed, shut, buf, bytes>>
    BY <1>4, <1>8 DEF CpReadEnd, CpWriteFails, conn, RelayType
  <2>2. RelayType' /\ Sockets1'
    BY <1>2, <1>4, <2>1 DEF RelayType, Sockets1
  <2>3. Copying'
    BY <1>4, <2>1 DEF Copying
  <2> QED BY <1>6, <2>1, <2>2, <2>3
<1>9. CASE CpWrite(c)
  <2>1. /\ Put(Dst[c], buf[c]) /\ l = "read" /\ UNCHANGED <<closed, shut, buf, bytes>>
    BY <1>4, <1>9 DEF CpWrite, RelayType
  <2>2. buf[c] \in Int
    BY DEF RelayType
  <2>3. RelayType'
    BY <1>0, <1>2, <1>4, <2>1, <2>2, PutEffect DEF RelayType
  <2>4. Sockets1'
    BY <1>0, <1>2, <2>1, <2>2, SocketsPut
  <2>5. Copying'
    BY <1>4, <2>1 DEF Copying
  <2> QED BY <1>6, <2>1, <2>3, <2>4, <2>5
<1>10. CASE CpClose(c)
  <2> DEFINE S == {Dst[c]}
  <2>1. Close(S) /\ l = "done" /\ UNCHANGED <<buf, bytes>>
    BY <1>4, <1>10 DEF CpClose, RelayType
  <2>2. S \in SUBSET Sockets
    BY <1>0
  <2>3. \A s \in Sockets : s # Dst[c] => (closed'[s] => closed[s]) /\ (shut'[s] => shut[s])
    BY <2>1, <2>2, CloseEffect
  <2>4. RelayType'
    <3> HIDE DEF S
    <3> QED BY <1>2, <1>4, <2>1, <2>2, CloseEffect DEF RelayType
  <2>5. Sockets1'
    <3> HIDE DEF S
    <3> QED BY <1>2, <2>1, <2>2, SocketsClose
  <2>6. Copying'
    BY <1>4, <2>1 DEF Copying
  <2>7. {"sstream", "cstream", "local", "remote", "target"} \in SUBSET Sockets
    BY DEF Sockets, Streams, Ends
  <2>8. CASE c = "sUp" \/ c = "sDown"
    <3>1. Dst[c] \in {"sstream", "local"} /\ cpc["sUp"] # "off"
      BY <1>1, <2>8 DEF Dst, Starting
    <3>2. Starting'
      BY <1>2, <1>5, <2>3, <2>7, <3>1 DEF Starting
    <3> QED BY <2>4, <2>5, <2>6, <3>2
  <2>9. CASE c = "cUp" \/ c = "cDown"
    <3>1. Dst[c] \in {"remote", "cstream"} /\ cpc["cUp"] # "off"
      BY <1>1, <2>9 DEF Dst, Starting
    <3>2. Starting'
      BY <1>2, <1>5, <2>3, <2>7, <3>1 DEF Starting
    <3> QED BY <2>4, <2>5, <2>6, <3>2
  <2> QED BY <2>8, <2>9 DEF Copiers
<1> QED BY <1>7, <1>8, <1>9, <1>10 DEF Cp

LEMMA EndBasics ==
  ASSUME Basics, NEW e \in Ends, Send(e) \/ Receive(e) \/ SeeEnd(e) \/ Finish(e) \/ HangUp(e)
  PROVE  Basics'
<1> USE DEF Basics
<1>0. e \in Sockets /\ Peer[e] \in Sockets \ Ends /\ Peer[Peer[e]] = e
  BY PeerFacts
<1>1. UNCHANGED <<up, pc, cpc, buf, bytes>>
  BY DEF Send, Receive, SeeEnd, Finish, HangUp
<1>2. Copying'
  BY <1>1 DEF Copying
<1>3. ASSUME UNCHANGED <<closed, shut>> PROVE Starting'
  BY <1>1, <1>3 DEF Starting
<1>4. CASE Send(e)
  <2>1. /\ Put(e, sent[e]) /\ sent' = [sent EXCEPT ![e] = @ + 1]
        /\ UNCHANGED <<closed, shut, got, out, eof>>
    BY <1>4 DEF Send
  <2>2. sent[e] \in Nat
    BY DEF RelayType
  <2>3. RelayType'
    BY <1>0, <1>1, <2>1, <2>2, PutEffect DEF RelayType
  <2>4. Sockets1'
    BY <1>0, <2>1, <2>2, SocketsPut
  <2> QED BY <1>2, <1>3, <2>1, <2>3, <2>4
<1>5. CASE Receive(e)
  <2>1. /\ HasData(e) /\ q' = [q EXCEPT ![e] = Tail(@)]
        /\ got' = [got EXCEPT ![e] = @ + 1]
        /\ out' = [out EXCEPT ![e] = [from |-> Head(q[e]), n |-> 1]]
        /\ UNCHANGED <<closed, shut, sent, eof>>
    BY <1>5 DEF Receive
  <2>2. /\ q' \in [Sockets -> Seq(Int)] /\ Sockets1' /\ q[e] \in Seq(Int) /\ q[e] # <<>>
    BY <1>0, <2>1, SocketsTake
  <2>3. Head(q[e]) \in Int
    BY <2>2, HeadTailProperties
  <2>4. RelayType'
    BY <1>1, <2>1, <2>2, <2>3 DEF RelayType
  <2> QED BY <1>2, <1>3, <2>1, <2>2, <2>4
<1>6. CASE SeeEnd(e)
  <2>1. /\ q[e] = <<>> /\ shut[Peer[e]] /\ eof' = [eof EXCEPT ![e] = TRUE]
        /\ UNCHANGED <<q, closed, shut, sent, got, out>>
    BY <1>6 DEF SeeEnd, conn
  <2>2. RelayType'
    BY <1>1, <2>1 DEF RelayType
  <2>3. Sockets1'
    BY <2>1 DEF Sockets1, RelayType
  <2> QED BY <1>2, <1>3, <2>1, <2>2, <2>3
<1>7. CASE Finish(e)
  <2>1. /\ Connected(e) /\ shut' = [shut EXCEPT ![e] = TRUE]
        /\ UNCHANGED <<q, closed, sent, got, out, eof>>
    BY <1>7 DEF Finish, ends
  <2>2. RelayType'
    BY <1>0, <1>1, <2>1 DEF RelayType
  <2>3. Sockets1'
    BY <1>0, <2>1 DEF Sockets1, RelayType
  <2>4. cpc["cUp"] = "off" => (shut'["target"] => shut["target"])
    BY <2>1 DEF Connected, RelayType, Ends
  <2>5. Starting'
    BY <1>1, <2>1, <2>4 DEF Starting
  <2> QED BY <1>2, <2>2, <2>3, <2>5
<1>8. CASE HangUp(e)
  <2> DEFINE S == {e}
  <2>1. /\ Connected(e) /\ Close(S) /\ UNCHANGED <<sent, got, out, eof>>
    BY <1>8 DEF HangUp, ends
  <2>2. S \in SUBSET Sockets
    BY <1>0
  <2>3. \A s \in Sockets : s # e => (closed'[s] => closed[s]) /\ (shut'[s] => shut[s])
    BY <2>1, <2>2, CloseEffect
  <2>4. RelayType'
    <3> HIDE DEF S
    <3> QED BY <1>1, <2>1, <2>2, CloseEffect DEF RelayType
  <2>5. Sockets1'
    <3> HIDE DEF S
    <3> QED BY <2>1, <2>2, SocketsClose
  <2>6. {"sstream", "cstream", "local", "remote", "target"} \in SUBSET Sockets
    BY DEF Sockets, Streams, Ends
  <2>7. e \notin {"sstream", "cstream", "local", "remote"} /\ (e = "target" => cpc["cUp"] # "off")
    BY <2>1 DEF Connected, Ends
  <2>8. Starting'
    BY <1>1, <2>3, <2>6, <2>7 DEF Starting
  <2> QED BY <1>2, <2>4, <2>5, <2>8
<1> QED BY <1>4, <1>5, <1>6, <1>7, <1>8

(* What a break of the session does to the two streams.                    *)
LEMMA BreakEffect ==
  ASSUME RelayType, Sockets1, SessionBreaks
  PROVE  /\ q' \in [Sockets -> Seq(Int)]
         /\ \A s \in Sockets \ Streams : q'[s] = q[s]
         /\ \A s \in Streams : \E k \in 0..Len(q[s]) : q'[s] = SubSeq(q[s], 1, k)
         /\ \A s \in Sockets : q[s] = <<>> => q'[s] = <<>>
<1>1. PICK i \in 0..Window, j \in 0..Window :
         /\ i <= Len(q["sstream"]) /\ j <= Len(q["cstream"])
         /\ q' = [q EXCEPT !["sstream"] = SubSeq(@, 1, i), !["cstream"] = SubSeq(@, 1, j)]
  BY DEF SessionBreaks
<1>2. "sstream" \in Sockets /\ "cstream" \in Sockets /\ "sstream" # "cstream"
  BY DEF Sockets, Streams
<1>3. /\ q["sstream"] \in Seq(Int) /\ q["cstream"] \in Seq(Int)
      /\ i \in 0..Len(q["sstream"]) /\ j \in 0..Len(q["cstream"])
  <2>1. q["sstream"] \in Seq(Int) /\ q["cstream"] \in Seq(Int)
    BY <1>2 DEF RelayType
  <2>2. Len(q["sstream"]) \in Nat /\ Len(q["cstream"]) \in Nat
    BY <2>1, LenProperties
  <2>3. i \in Nat /\ j \in Nat
    BY <1>1, RelayAssumption
  <2> QED BY <1>1, <2>1, <2>2, <2>3
<1>4. SubSeq(q["sstream"], 1, i) \in Seq(Int) /\ SubSeq(q["cstream"], 1, j) \in Seq(Int)
  BY <1>3
<1>5. /\ q' \in [Sockets -> Seq(Int)]
      /\ q'["sstream"] = SubSeq(q["sstream"], 1, i) /\ q'["cstream"] = SubSeq(q["cstream"], 1, j)
      /\ \A s \in Sockets \ Streams : q'[s] = q[s]
  BY <1>1, <1>2, <1>4 DEF RelayType, Streams
<1>6. \A s \in Streams : \E k \in 0..Len(q[s]) : q'[s] = SubSeq(q[s], 1, k)
  BY <1>3, <1>5 DEF Streams
<1>7. ASSUME NEW s \in Sockets, q[s] = <<>> PROVE q'[s] = <<>>
  <2>1. CASE s \in Streams
    <3>1. PICK k \in 0..Len(q[s]) : q'[s] = SubSeq(q[s], 1, k)
      BY <1>6, <2>1
    <3>2. k = 0 /\ SubSeq(q[s], 1, 0) = <<>>
      BY <1>7, <3>1
    <3> QED BY <3>1, <3>2
  <2>2. CASE s \notin Streams
    BY <1>5, <1>7, <2>2
  <2> QED BY <2>1, <2>2
<1> QED BY <1>5, <1>6, <1>7

LEMMA BreakBasics ==
  ASSUME Basics, SessionBreaks
  PROVE  Basics'
<1> USE DEF Basics
<1>1. /\ up' = FALSE
      /\ UNCHANGED <<closed, shut, pc, cpc, buf, bytes, sent, got, out, eof>>
  BY DEF SessionBreaks, ends
<1>2. RelayType'
  BY <1>1, BreakEffect DEF RelayType
<1>3. Sockets1'
  BY <1>1, BreakEffect, PeerFacts DEF Sockets1
<1>4. Copying' /\ Starting'
  BY <1>1 DEF Copying, Starting
<1> QED BY <1>2, <1>3, <1>4

LEMMA BasicsStep ==
  ASSUME Basics, Links, Next
  PROVE  Basics'
  BY ServerBasics, ClientBasics, CopierBasics, EndBasics, BreakBasics DEF Next
-----------------------------------------------------------------------------
(* What a step may do to the link to s.                                    *)
Still(s)   == Rd(s)' = Rd(s) /\ Wr(s)' = Wr(s)
Same(s)    == q'[s] = q[s] /\ Still(s)
Took(s)    == q[s] # <<>> /\ q'[s] = Tail(q[s]) /\ Rd(s)' = Rd(s) + 1 /\ Wr(s)' = Wr(s)
Added(s)   == Flows(s) /\ q'[s] = Append(q[s], Wr(s)) /\ Rd(s)' = Rd(s) /\ Wr(s)' = Wr(s) + 1
Missed(s)  == ~Flows(s) /\ q'[s] = q[s] /\ Rd(s)' = Rd(s) /\ Wr(s)' = Wr(s) + 1
Dropped(s) ==
    /\ ~Flows(s)'
    /\ \E k \in 0..Len(q[s]) : q'[s] = SubSeq(q[s], 1, k)
    /\ Rd(s)' = Rd(s) \/ (q'[s] = <<>> /\ Rd(s)' \in Int /\ Rd(s)' <= Rd(s))
    /\ Wr(s)' = Wr(s)
Moved(s) == Same(s) \/ Took(s) \/ Added(s) \/ Missed(s) \/ Dropped(s)

(* The steps of a copier move only its own two positions.                  *)
LEMMA CopierMoves ==
  ASSUME Basics, NEW c \in Copiers, UNCHANGED <<pc, sent, got>>,
         \A d \in Copiers : d # c => bytes'[d] = bytes[d] /\ cpc'[d] = cpc[d],
         cpc[c] # "off", cpc'[c] # "off",
         cpc["sUp"] = "off" => (closed'["sstream"] <=> closed["sstream"])
  PROVE  /\ \A s \in Sockets : s # Src[c] => Rd(s)' = Rd(s)
         /\ \A s \in Sockets : s # Peer[Dst[c]] => Wr(s)' = Wr(s)
         /\ Rd(Src[c])' = bytes'[c]
         /\ Wr(Peer[Dst[c]])' = Passed(c)'
<1>0. {"sUp", "sDown", "cUp", "cDown"} = Copiers
  BY DEF Copiers
<1>1. CASE c = "sUp"
  BY <1>0, <1>1 DEF Src, Dst, Peer, Rd, Wr, Passed, Sockets, Streams, Ends
<1>2. CASE c = "sDown"
  BY <1>0, <1>2 DEF Src, Dst, Peer, Rd, Wr, Passed, Sockets, Streams, Ends
<1>3. CASE c = "cUp"
  BY <1>0, <1>3 DEF Src, Dst, Peer, Rd, Wr, Passed, Sockets, Streams, Ends
<1>4. CASE c = "cDown"
  BY <1>0, <1>4 DEF Src, Dst, Peer, Rd, Wr, Passed, Sockets, Streams, Ends
<1> QED BY <1>0, <1>1, <1>2, <1>3, <1>4

(* Both ends of a link flow or do not.                                     *)
LEMMA FlowsFacts ==
  ASSUME RelayType, NEW s \in Sockets
  PROVE  /\ Flows(Peer[s]) <=> ~CanFail(s)
         /\ Flows(s) <=> Flows(Peer[s])
         /\ Broken(Peer[s]) <=> Broken(s)
  BY PeerFacts DEF Flows, CanFail, Broken

LEMMA CpReadMoves ==
  ASSUME Basics, NEW c \in Copiers, CpRead(c)
  PROVE  Took(Src[c]) /\ \A s \in Sockets : s # Src[c] => Same(s)
<1> DEFINE x == Src[c]
           y == Peer[Dst[c]]
<1>0. x \in Sockets /\ y \in Sockets /\ x # y
  BY CopierFacts, PeerFacts
<1>1. /\ cpc[c] = "read" /\ HasData(x) /\ q' = [q EXCEPT ![x] = Tail(@)]
      /\ bytes' = [bytes EXCEPT ![c] = @ + 1] /\ cpc' = [cpc EXCEPT ![c] = "write"]
      /\ UNCHANGED <<up, closed, shut, pc, sent, got, eof>>
  BY DEF CpRead, ends
<1>2. /\ bytes'[c] = bytes[c] + 1 /\ bytes[c] \in Nat /\ cpc'[c] = "write"
      /\ \A d \in Copiers : d # c => bytes'[d] = bytes[d] /\ cpc'[d] = cpc[d]
  BY <1>1 DEF Basics, RelayType
<1>3. Rd(x) = bytes[c] /\ Wr(y) = Passed(c)
  BY <1>1, CopierAt DEF Basics
<1>4. /\ \A s \in Sockets : s # x => Rd(s)' = Rd(s)
      /\ \A s \in Sockets : s # y => Wr(s)' = Wr(s)
      /\ Rd(x)' = bytes'[c] /\ Wr(y)' = Passed(c)'
  BY <1>1, <1>2, CopierMoves
<1>5. Passed(c)' = Passed(c)
  BY <1>1, <1>2 DEF Passed
<1> HIDE DEF x, y
<1>6. /\ q[x] # <<>> /\ q'[x] = Tail(q[x]) /\ \A s \in Sockets : s # x => q'[s] = q[s]
  BY <1>0, <1>1, SocketsTake DEF Basics
<1>7. Took(x)
  BY <1>0, <1>2, <1>3, <1>4, <1>6 DEF Took
<1>8. ASSUME NEW s \in Sockets, s # x PROVE Same(s)
  <2>1. Wr(s)' = Wr(s)
    BY <1>3, <1>4, <1>5
  <2> QED BY <1>4, <1>6, <1>8, <2>1 DEF Same, Still
<1> QED BY <1>7, <1>8 DEF x

LEMMA CpReadEndMoves ==
  ASSUME Basics, NEW c \in Copiers, CpReadEnd(c)
  PROVE  \A s \in Sockets : Same(s)
<1> DEFINE x == Src[c]
           y == Peer[Dst[c]]
<1>1. /\ cpc[c] = "read" /\ cpc' = [cpc EXCEPT ![c] = "close"]
      /\ UNCHANGED <<q, closed, pc, bytes, sent, got>>
  BY DEF CpReadEnd, conn, ends
<1>2. /\ cpc'[c] = "close" /\ \A d \in Copiers : d # c => cpc'[d] = cpc[d]
  BY <1>1 DEF Basics, RelayType
<1>3. Rd(x) = bytes[c] /\ Wr(y) = Passed(c)
  BY <1>1, CopierAt DEF Basics
<1>4. /\ \A s \in Sockets : s # x => Rd(s)' = Rd(s)
      /\ \A s \in Sockets : s # y => Wr(s)' = Wr(s)
      /\ Rd(x)' = bytes'[c] /\ Wr(y)' = Passed(c)'
  BY <1>1, <1>2, CopierMoves
<1>5. Passed(c)' = Passed(c)
  BY <1>1, <1>2 DEF Passed
<1> HIDE DEF x, y
<1>6. ASSUME NEW s \in Sockets PROVE Rd(s)' = Rd(s) /\ Wr(s)' = Wr(s)
  BY <1>1, <1>3, <1>4, <1>5
<1> QED BY <1>1, <1>6 DEF Same, Still

(* The piece is added, or the peer was closed and it vanishes.             *)
LEMMA CpWriteMoves ==
  ASSUME Basics, NEW c \in Copiers, CpWrite(c)
  PROVE  /\ Added(Peer[Dst[c]]) \/ (closed[Peer[Dst[c]]] /\ Missed(Peer[Dst[c]]))
         /\ \A s \in Sockets : s # Peer[Dst[c]] => Same(s)
<1> DEFINE x == Src[c]
           y == Peer[Dst[c]]
<1>0. x \in Sockets /\ y \in Sockets /\ x # y /\ Dst[c] \in Sockets
  BY CopierFacts, PeerFacts
<1>1. /\ cpc[c] = "write" /\ Put(Dst[c], buf[c]) /\ cpc' = [cpc EXCEPT ![c] = "read"]
      /\ UNCHANGED <<closed, pc, bytes, sent, got>>
  BY DEF CpWrite, ends
<1>2. /\ cpc'[c] = "read" /\ \A d \in Copiers : d # c => cpc'[d] = cpc[d]
  BY <1>1 DEF Basics, RelayType
<1>3. Rd(x) = bytes[c] /\ Wr(y) = Passed(c)
  BY <1>1, CopierAt DEF Basics
<1>4. /\ \A s \in Sockets : s # x => Rd(s)' = Rd(s)
      /\ \A s \in Sockets : s # y => Wr(s)' = Wr(s)
      /\ Rd(x)' = bytes'[c] /\ Wr(y)' = Passed(c)'
  BY <1>1, <1>2, CopierMoves
<1>5. buf[c] \in Int /\ bytes[c] \in Nat /\ buf[c] = bytes[c] - 1
  BY <1>1 DEF Basics, RelayType, Copying
<1>6. buf[c] = Wr(y) /\ Wr(y)' = Wr(y) + 1
  BY <1>1, <1>2, <1>3, <1>4, <1>5 DEF Passed
<1>7. /\ ~closed[Dst[c]] /\ ~Broken(Dst[c])
      /\ \A s \in Sockets : s # y => q'[s] = q[s]
      /\ \/ closed[y] /\ q' = q
         \/ ~closed[y] /\ q'[y] = Append(q[y], buf[c])
  BY <1>0, <1>1, <1>5, PutEffect DEF Basics
<1>8. Flows(y) <=> ~closed[y]
  BY <1>0, <1>7, PeerFacts, FlowsFacts DEF Basics, Flows
<1> HIDE DEF x, y
<1>9. Rd(y)' = Rd(y)
  BY <1>0, <1>4
<1>10. Added(y) \/ (closed[y] /\ Missed(y))
  BY <1>6, <1>7, <1>8, <1>9 DEF Added, Missed
<1>11. ASSUME NEW s \in Sockets, s # y PROVE Same(s)
  <2>1. Rd(s)' = Rd(s)
    BY <1>1, <1>3, <1>4
  <2> QED BY <1>4, <1>7, <1>11, <2>1 DEF Same, Still
<1> QED BY <1>10, <1>11 DEF y

LEMMA CpWriteFailsMoves ==
  ASSUME Basics, NEW c \in Copiers, CpWriteFails(c)
  PROVE  /\ Missed(Peer[Dst[c]])
         /\ \A s \in Sockets : s # Peer[Dst[c]] => Same(s)
<1> DEFINE x == Src[c]
           y == Peer[Dst[c]]
<1>0. x \in Sockets /\ y \in Sockets /\ x # y /\ Dst[c] \in Sockets
  BY CopierFacts, PeerFacts
<1>1. /\ cpc[c] = "write" /\ CanFail(Dst[c]) /\ cpc' = [cpc EXCEPT ![c] = "close"]
      /\ UNCHANGED <<q, closed, pc, bytes, sent, got>>
  BY DEF CpWriteFails, conn, ends
<1>2. /\ cpc'[c] = "close" /\ \A d \in Copiers : d # c => cpc'[d] = cpc[d]
  BY <1>1 DEF Basics, RelayType
<1>3. Rd(x) = bytes[c] /\ Wr(y) = Passed(c)
  BY <1>1, CopierAt DEF Basics
<1>4. /\ \A s \in Sockets : s # x => Rd(s)' = Rd(s)
      /\ \A s \in Sockets : s # y => Wr(s)' = Wr(s)
      /\ Rd(x)' = bytes'[c] /\ Wr(y)' = Passed(c)'
  BY <1>1, <1>2, CopierMoves
<1>5. Wr(y)' = Wr(y) + 1
  BY <1>1, <1>2, <1>3, <1>4 DEF Passed, Basics, RelayType
<1>6. ~Flows(y)
  BY <1>0, <1>1, FlowsFacts DEF Basics
<1> HIDE DEF x, y
<1>7. Missed(y)
  BY <1>0, <1>1, <1>4, <1>5, <1>6 DEF Missed
<1>8. ASSUME NEW s \in Sockets, s # y PROVE Same(s)
  <2>1. Rd(s)' = Rd(s)
    BY <1>1, <1>3, <1>4
  <2> QED BY <1>1, <1>4, <1>8, <2>1 DEF Same, Still
<1> QED BY <1>7, <1>8 DEF y

LEMMA CpCloseMoves ==
  ASSUME Basics, NEW c \in Copiers, CpClose(c)
  PROVE  \A s \in Sockets : Still(s)
<1> DEFINE x == Src[c]
           y == Peer[Dst[c]]
           S == {Dst[c]}
<1>1. /\ cpc[c] = "close" /\ Close(S) /\ cpc' = [cpc EXCEPT ![c] = "done"]
      /\ UNCHANGED <<pc, bytes, sent, got>>
  BY DEF CpClose, ends
<1>2. /\ cpc'[c] = "done" /\ \A d \in Copiers : d # c => cpc'[d] = cpc[d]
  BY <1>1 DEF Basics, RelayType
<1>3. Rd(x) = bytes[c] /\ Wr(y) = Passed(c)
  BY <1>1, CopierAt DEF Basics
<1>4. cpc["sUp"] = "off" => Dst[c] # "sstream"
  BY <1>1 DEF Dst, Copiers
<1>5. /\ S \in SUBSET Sockets /\ "sstream" \in Sockets
  BY CopierFacts DEF Sockets, Streams
<1>6. cpc["sUp"] = "off" => (closed'["sstream"] <=> closed["sstream"])
  BY <1>1, <1>4, <1>5, CloseEffect DEF Basics
<1>7. /\ \A s \in Sockets : s # x => Rd(s)' = Rd(s)
      /\ \A s \in Sockets : s # y => Wr(s)' = Wr(s)
      /\ Rd(x)' = bytes'[c] /\ Wr(y)' = Passed(c)'
  BY <1>1, <1>2, <1>6, CopierMoves
<1>8. Passed(c)' = Passed(c)
  BY <1>1, <1>2 DEF Passed
<1> HIDE DEF x, y
<1>9. ASSUME NEW s \in Sockets PROVE Rd(s)' = Rd(s) /\ Wr(s)' = Wr(s)
  BY <1>1, <1>3, <1>7, <1>8
<1> QED BY <1>9 DEF Still

(* The ends.                                                               *)
LEMMA SendMoves ==
  ASSUME Basics, NEW e \in Ends, Send(e)
  PROVE  Added(Peer[e]) /\ \A s \in Sockets : s # Peer[e] => Same(s)
<1>0. e \in Sockets /\ Peer[e] \in Sockets /\ Peer[Peer[e]] = e
  BY PeerFacts
<1>1. /\ ~closed[Peer[e]] /\ Put(e, sent[e]) /\ sent' = [sent EXCEPT ![e] = @ + 1]
      /\ UNCHANGED <<closed, pc, cpc, bytes, got>>
  BY DEF Send
<1>2. /\ sent[e] \in Nat /\ sent'[e] = sent[e] + 1
      /\ \A f \in Ends : f # e => sent'[f] = sent[f]
  BY <1>1 DEF Basics, RelayType
<1>3. /\ \A s \in Sockets : Rd(s)' = Rd(s)
      /\ \A s \in Sockets : s # Peer[e] => Wr(s)' = Wr(s)
      /\ Wr(Peer[e]) = sent[e] /\ Wr(Peer[e])' = sent'[e]
  <2>1. CASE e = "user"
    BY <1>1, <1>2, <2>1 DEF Ends, Streams, Sockets, Peer, Rd, Wr, Passed
  <2>2. CASE e = "target"
    BY <1>1, <1>2, <2>2 DEF Ends, Streams, Sockets, Peer, Rd, Wr, Passed
  <2> QED BY <2>1, <2>2 DEF Ends
<1>4. /\ ~closed[e] /\ ~Broken(e)
      /\ \A s \in Sockets : s # Peer[e] => q'[s] = q[s]
      /\ q'[Peer[e]] = Append(q[Peer[e]], sent[e])
  BY <1>0, <1>1, <1>2, PutEffect DEF Basics
<1>5. Flows(Peer[e])
  BY <1>0, <1>1, <1>4, FlowsFacts DEF Basics, Flows
<1> QED BY <1>0, <1>2, <1>3, <1>4, <1>5 DEF Added, Same, Still

LEMMA ReceiveMoves ==
  ASSUME Basics, NEW e \in Ends, Receive(e)
  PROVE  Took(e) /\ \A s \in Sockets : s # e => Same(s)
<1>0. e \in Sockets
  BY PeerFacts
<1>1. /\ HasData(e) /\ q' = [q EXCEPT ![e] = Tail(@)] /\ got' = [got EXCEPT ![e] = @ + 1]
      /\ UNCHANGED <<closed, shut, pc, cpc, bytes, sent, eof>>
  BY DEF Receive
<1>2. /\ got[e] \in Nat /\ got'[e] = got[e] + 1
      /\ \A f \in Ends : f # e => got'[f] = got[f]
  BY <1>1 DEF Basics, RelayType
<1>3. /\ \A s \in Sockets : Wr(s)' = Wr(s)
      /\ \A s \in Sockets : s # e => Rd(s)' = Rd(s)
      /\ Rd(e) = got[e] /\ Rd(e)' = got'[e]
  <2>1. CASE e = "user"
    BY <1>1, <1>2, <2>1 DEF Ends, Streams, Sockets, Rd, Wr, Passed
  <2>2. CASE e = "target"
    BY <1>1, <1>2, <2>2 DEF Ends, Streams, Sockets, Rd, Wr, Passed
  <2> QED BY <2>1, <2>2 DEF Ends
<1>4. /\ q[e] # <<>> /\ q'[e] = Tail(q[e])
      /\ \A s \in Sockets : s # e => q'[s] = q[s]
  BY <1>0, <1>1, SocketsTake DEF Basics
<1>5. Took(e)
  BY <1>0, <1>2, <1>3, <1>4 DEF Took
<1>6. \A s \in Sockets : s # e => Same(s)
  BY <1>3, <1>4 DEF Same, Still
<1> QED BY <1>5, <1>6

(* The steps that leave the positions alone.                               *)
LEMMA StillIf ==
  ASSUME UNCHANGED <<pc, cpc, bytes, sent, got>>,
         cpc["sUp"] = "off" => (closed'["sstream"] <=> closed["sstream"])
  PROVE  \A s \in Sockets : Still(s)
  BY DEF Sockets, Streams, Ends, Still, Rd, Wr, Passed

LEMMA EndStill ==
  ASSUME Basics, NEW e \in Ends, SeeEnd(e) \/ Finish(e) \/ HangUp(e)
  PROVE  \A s \in Sockets : Still(s)
<1>1. UNCHANGED <<pc, cpc, bytes, sent, got>>
  BY DEF SeeEnd, Finish, HangUp, ends
<1>2. closed'["sstream"] <=> closed["sstream"]
  <2>1. CASE SeeEnd(e) \/ Finish(e)
    BY <2>1 DEF SeeEnd, Finish, conn
  <2>2. CASE HangUp(e)
    <3>1. {e} \in SUBSET Sockets /\ "sstream" \in Sockets /\ "sstream" \notin {e}
      BY DEF Sockets, Streams, Ends
    <3>2. Close({e})
      BY <2>2 DEF HangUp
    <3> QED BY <3>1, <3>2, CloseEffect DEF Basics
  <2> QED BY <2>1, <2>2
<1> QED BY <1>1, <1>2, StillIf

LEMMA BreakStill ==
  ASSUME SessionBreaks
  PROVE  \A s \in Sockets : Still(s)
  BY StillIf DEF SessionBreaks, ends

LEMMA RelayEndsStill ==
  ASSUME Basics, NEW h \in Sides, RelayEnds(h)
  PROVE  \A s \in Sockets : Still(s)
<1>1. /\ pc[h] = "relay" /\ pc' = [pc EXCEPT ![h] = "end"]
      /\ UNCHANGED <<cpc, bytes, sent, got>>
  BY DEF RelayEnds, Return, Goto, ends
<1>2. CASE h = "server"
  <2>1. cpc["sUp"] # "off" /\ pc'["client"] = pc["client"]
    BY <1>1, <1>2 DEF Basics, Starting, RelayType, Sides
  <2> QED BY <1>1, <2>1 DEF Sockets, Streams, Ends, Still, Rd, Wr, Passed
<1>3. CASE h = "client"
  <2>1. cpc["cUp"] # "off" /\ pc'["server"] = pc["server"]
    BY <1>1, <1>3 DEF Basics, Starting, RelayType, Sides
  <2> DEFINE S == {"cstream", "remote"}
  <2>2. closed'["sstream"] <=> closed["sstream"]
    <3>1. S \in SUBSET Sockets /\ "sstream" \in Sockets /\ "sstream" \notin S
      BY DEF Sockets, Streams, Ends
    <3>2. Close(S)
      BY <1>1, <1>3 DEF RelayEnds, Return, Owned
    <3> HIDE DEF S
    <3> QED BY <3>1, <3>2, CloseEffect DEF Basics
  <2> QED BY <1>1, <2>1, <2>2 DEF Sockets, Streams, Ends, Still, Rd, Wr, Passed
<1> QED BY <1>2, <1>3 DEF Sides

(* The handlers.                                                           *)
LEMMA HandlerSame ==
  ASSUME Basics, OpenStream \/ (OpenFails /\ pc["server"] = "open") \/ Accept \/ Dial
  PROVE  \A s \in Sockets : Same(s)
<1>1. UNCHANGED <<q, closed, bytes, sent, got>>
  BY DEF OpenStream, OpenFails, Accept, Dial, conn, ends
<1>2. CASE OpenStream \/ (OpenFails /\ pc["server"] = "open")
  <2>1. /\ pc["server"] \in {"open", "retry"} /\ pc'["server"] \in {"len", "retry"}
        /\ pc'["client"] = pc["client"] /\ cpc' = cpc
    BY <1>2 DEF OpenStream, OpenFails, Goto, Basics, RelayType, Sides
  <2> QED BY <1>1, <2>1 DEF Sockets, Streams, Ends, Same, Still, Rd, Wr, Passed
<1>3. CASE Accept
  <2>1. /\ pc["client"] = "accept" /\ pc'["client"] = "len"
        /\ pc'["server"] = pc["server"] /\ cpc' = cpc
    BY <1>3 DEF Accept, Goto, Basics, RelayType, Sides
  <2> QED BY <1>1, <2>1 DEF Sockets, Streams, Ends, Same, Still, Rd, Wr, Passed
<1>4. CASE Dial
  <2>1. /\ pc["client"] = "dial" /\ pc'["client"] = "relay" /\ pc'["server"] = pc["server"]
        /\ cpc' = [c \in Copiers |-> IF c \in {"cUp", "cDown"} THEN "read" ELSE cpc[c]]
    BY <1>4 DEF Dial, Relay, Goto, Basics, RelayType, Sides, CpOf
  <2>2. cpc["cUp"] = "off" /\ cpc["cDown"] = "off"
    BY <2>1 DEF Basics, Starting
  <2>3. /\ cpc'["cUp"] = "read" /\ cpc'["cDown"] = "read"
        /\ cpc'["sUp"] = cpc["sUp"] /\ cpc'["sDown"] = cpc["sDown"]
    BY <2>1 DEF Copiers
  <2> QED BY <1>1, <2>1, <2>2, <2>3 DEF Sockets, Streams, Ends, Same, Still, Rd, Wr, Passed
<1> QED BY <1>2, <1>3, <1>4

LEMMA SendHeaderMoves ==
  ASSUME Basics, SendLen \/ SendName
  PROVE  /\ Added("cstream") \/ (closed["cstream"] /\ Missed("cstream"))
         /\ \A s \in Sockets : s # "cstream" => Same(s)
<1>0. "sstream" \in Sockets /\ "cstream" \in Sockets /\ Peer["sstream"] = "cstream"
  BY DEF Sockets, Streams, Peer
<1>1. /\ UNCHANGED <<closed, bytes, sent, got>>
      /\ pc'["client"] = pc["client"] /\ pc["server"] \in {"len", "name"}
  BY DEF SendLen, SendName, Relay, Goto, Basics, RelayType, Sides, ends
<1>2. cpc["sUp"] = "off" /\ cpc["sDown"] = "off" /\ ~closed["sstream"]
  BY <1>1 DEF Basics, Starting
<1>3. bytes["sUp"] = 0 /\ bytes["sDown"] = 0
  BY <1>2 DEF Basics, Copying, Copiers
<1>4. PICK t \in Int : /\ Put("sstream", t) /\ t = Wr("cstream") /\ Wr("cstream")' = t + 1
                       /\ \A s \in Sockets : Rd(s)' = Rd(s)
                       /\ \A s \in Sockets : s # "cstream" => Wr(s)' = Wr(s)
  <2>1. CASE SendLen
    <3>1. pc["server"] = "len" /\ pc'["server"] = "name" /\ cpc' = cpc /\ Put("sstream", LenTok)
      BY <2>1 DEF SendLen, Goto, Basics, RelayType, Sides
    <3>2. LenTok = Wr("cstream") /\ Wr("cstream")' = LenTok + 1 /\ LenTok \in Int
      BY <1>1, <1>2, <3>1 DEF Wr, LenTok, NameTok
    <3>3. \A s \in Sockets : Rd(s)' = Rd(s) /\ (s # "cstream" => Wr(s)' = Wr(s))
      BY <1>1, <3>1 DEF Sockets, Streams, Ends, Rd, Wr, Passed
    <3> QED BY <3>1, <3>2, <3>3
  <2>2. CASE SendName
    <3>1. /\ pc["server"] = "name" /\ Put("sstream", NameTok)
          /\ cpc' = [c \in Copiers |-> IF c \in {"sUp", "sDown"} THEN "read" ELSE cpc[c]]
      BY <2>2 DEF SendName, Relay, CpOf
    <3>2. /\ cpc'["sUp"] = "read" /\ cpc'["sDown"] = "read"
          /\ cpc'["cUp"] = cpc["cUp"] /\ cpc'["cDown"] = cpc["cDown"]
      BY <3>1 DEF Copiers
    <3>3. NameTok = Wr("cstream") /\ Wr("cstream")' = NameTok + 1 /\ NameTok \in Int
      BY <1>1, <1>2, <1>3, <3>1, <3>2 DEF Wr, NameTok, Passed
    <3>4. \A s \in Sockets : Rd(s)' = Rd(s) /\ (s # "cstream" => Wr(s)' = Wr(s))
      BY <1>1, <1>2, <3>1, <3>2 DEF Sockets, Streams, Ends, Rd, Wr, Passed
    <3> QED BY <3>1, <3>3, <3>4
  <2> QED BY <2>1, <2>2
<1>5. /\ ~closed["sstream"] /\ ~Broken("sstream")
      /\ \A s \in Sockets : s # "cstream" => q'[s] = q[s]
      /\ \/ closed["cstream"] /\ q' = q
         \/ ~closed["cstream"] /\ q'["cstream"] = Append(q["cstream"], t)
  BY <1>0, <1>4, PutEffect DEF Basics
<1>6. Flows("cstream") <=> ~closed["cstream"]
  BY <1>5 DEF Flows, Peer, Broken, Streams
<1> QED BY <1>0, <1>4, <1>5, <1>6 DEF Added, Missed, Same, Still

LEMMA ReadHeaderMoves ==
  ASSUME Basics, ReadLen \/ ReadName
  PROVE  Took("cstream") /\ \A s \in Sockets : s # "cstream" => Same(s)
<1>0. "cstream" \in Sockets
  BY DEF Sockets, Streams
<1>1. /\ HasData("cstream") /\ q' = [q EXCEPT !["cstream"] = Tail(@)]
      /\ UNCHANGED <<closed, shut, cpc, bytes, sent, got, eof>>
      /\ pc'["server"] = pc["server"]
      /\ \/ pc["client"] = "len" /\ pc'["client"] \in {"name", "bad"}
         \/ pc["client"] = "name" /\ pc'["client"] = "dial"
  BY DEF ReadLen, ReadName, ReadHeader, Goto, Basics, RelayType, Sides, ends
<1>2. cpc["cUp"] = "off" /\ bytes["cUp"] = 0
  BY <1>1 DEF Basics, Starting, Copying, Copiers
<1>3. q["cstream"] # <<>> /\ q'["cstream"] = Tail(q["cstream"])
      /\ \A s \in Sockets : s # "cstream" => q'[s] = q[s]
  BY <1>0, <1>1, SocketsTake DEF Basics
<1>4. /\ Rd("cstream")' = Rd("cstream") + 1
      /\ \A s \in Sockets : Wr(s)' = Wr(s) /\ (s # "cstream" => Rd(s)' = Rd(s))
  BY <1>1, <1>2 DEF Sockets, Streams, Ends, Rd, Wr, Passed, LenTok, NameTok
<1> QED BY <1>0, <1>3, <1>4 DEF Took, Same, Still

(* A side gives up before relay.                                           *)
LEMMA OpenGivesUp ==
  ASSUME Basics, OpenFails, pc["server"] = "retry"
  PROVE  /\ Close({"local"}) /\ \A s \in Sockets : Still(s)
<1>1. /\ pc' = [pc EXCEPT !["server"] = "end"] /\ Close({"local"})
      /\ UNCHANGED <<cpc, bytes, sent, got>>
  BY DEF OpenFails, Return, Goto, Owned, ends
<1>2. {"local"} \in SUBSET Sockets /\ "sstream" \in Sockets /\ "sstream" \notin {"local"}
  BY DEF Sockets, Streams
<1>3. closed'["sstream"] <=> closed["sstream"]
  BY <1>1, <1>2, CloseEffect DEF Basics
<1>4. pc'["server"] = "end" /\ pc'["client"] = pc["client"]
  BY <1>1 DEF Basics, RelayType, Sides
<1> QED BY <1>1, <1>3, <1>4 DEF Sockets, Streams, Ends, Still, Rd, Wr, Passed

LEMMA SendFailsMoves ==
  ASSUME Basics, SendFails
  PROVE  /\ Close({"local", "sstream"})
         /\ Same("cstream") \/ Missed("cstream")
         /\ \A s \in Sockets : s # "cstream" => Still(s)
<1> DEFINE S == {"local", "sstream"}
<1>1. /\ pc["server"] \in {"len", "name"} /\ pc' = [pc EXCEPT !["server"] = "end"]
      /\ CanFail("sstream") /\ Close(S) /\ UNCHANGED <<cpc, bytes, sent, got>>
  BY DEF SendFails, Return, Goto, Owned, ends
<1>2. /\ S \in SUBSET Sockets /\ "sstream" \in S /\ "cstream" \in Sockets \ S
      /\ "cstream" \in Streams /\ Peer["sstream"] = "cstream" /\ "sstream" \in Sockets
  BY DEF Sockets, Streams, Peer
<1> HIDE DEF S
<1>3. closed'["sstream"] /\ q'["cstream"] = q["cstream"]
  BY <1>1, <1>2, CloseEffect DEF Basics
<1>4. pc'["server"] = "end" /\ pc'["client"] = pc["client"]
  BY <1>1 DEF Basics, RelayType, Sides
<1>5. ~Flows("cstream")
  BY <1>1, <1>2, FlowsFacts DEF Basics
<1>6. cpc["sUp"] = "off" /\ ~closed["sstream"]
  BY <1>1 DEF Basics, Starting
<1>7. \A s \in Sockets : Rd(s)' = Rd(s) /\ (s # "cstream" => Wr(s)' = Wr(s))
  BY <1>1, <1>4 DEF Sockets, Streams, Ends, Rd, Wr, Passed
<1>8. Wr("cstream")' = Wr("cstream") \/ Wr("cstream")' = Wr("cstream") + 1
  BY <1>1, <1>3, <1>6 DEF Wr, NameTok, LenTok
<1> QED BY <1>1, <1>2, <1>3, <1>5, <1>7, <1>8 DEF Same, Missed, Still, S

LEMMA HeaderFailsMoves ==
  ASSUME Basics, HeaderFails
  PROVE  /\ Close({"cstream"}) /\ Dropped("cstream")
         /\ \A s \in Sockets : s # "cstream" => Still(s)
<1>1. /\ pc["client"] \in {"len", "name", "bad", "dial"} /\ pc' = [pc EXCEPT !["client"] = "end"]
      /\ Close({"cstream"}) /\ UNCHANGED <<cpc, bytes, sent, got>>
  BY DEF HeaderFails, Return, Goto, Owned, ends
<1>2. {"cstream"} \in SUBSET Sockets /\ "sstream" \in Sockets \ {"cstream"} /\ "cstream" \in Sockets
  BY DEF Sockets, Streams
<1>3. /\ closed'["cstream"] /\ (closed'["sstream"] <=> closed["sstream"])
      /\ q'["cstream"] = <<>>
  BY <1>1, <1>2, CloseEffect DEF Basics
<1>4. pc'["client"] = "end" /\ pc'["server"] = pc["server"]
  BY <1>1 DEF Basics, RelayType, Sides
<1>5. cpc["cUp"] = "off" /\ bytes["cUp"] = 0
  BY <1>1 DEF Basics, Starting, Copying, Copiers
<1>6. \A s \in Sockets : Wr(s)' = Wr(s) /\ (s # "cstream" => Rd(s)' = Rd(s))
  BY <1>1, <1>3, <1>4 DEF Sockets, Streams, Ends, Rd, Wr, Passed
<1>7. Rd("cstream")' \in Int /\ Rd("cstream")' <= Rd("cstream")
  BY <1>1, <1>4, <1>5 DEF Rd, LenTok, NameTok
<1>8. q["cstream"] \in Seq(Int) /\ Len(q["cstream"]) \in Nat
  BY <1>2, LenProperties DEF Basics, RelayType
<1>9. 0 \in 0..Len(q["cstream"]) /\ SubSeq(q["cstream"], 1, 0) = <<>>
  BY <1>8
<1>10. Dropped("cstream")
  BY <1>2, <1>3, <1>6, <1>7, <1>9 DEF Dropped, Flows
<1> QED BY <1>1, <1>6, <1>10 DEF Still
-----------------------------------------------------------------------------
(* Nothing is opened again.                                                *)
Grows ==
    /\ \A s \in Sockets : (closed[s] => closed'[s]) /\ (shut[s] => shut'[s])
    /\ up' => up

LEMMA GrowsStep ==
  ASSUME Basics, Next
  PROVE  Grows
<1>1. UNCHANGED <<closed, shut>> \/ \E S \in SUBSET Sockets : Close(S)
      \/ \E e \in Ends : Finish(e)
  <2>1. \A h \in Sides : Owned(h) \in SUBSET Sockets
    BY DEF Owned, Sides, Sockets, Streams
  <2>2. CASE Server
    BY <2>1, <2>2 DEF Server, OpenStream, OpenFails, SendLen, SendName, SendFails, RelayEnds,
                      Return, conn, Sides
  <2>3. CASE Client
    BY <2>1, <2>3 DEF Client, Accept, ReadLen, ReadName, ReadHeader, HeaderFails, Dial, RelayEnds,
                      Return, conn, Sides
  <2>4. ASSUME NEW c \in Copiers, Cp(c)
        PROVE  UNCHANGED <<closed, shut>> \/ \E S \in SUBSET Sockets : Close(S)
    <3>1. {Dst[c]} \in SUBSET Sockets
      BY CopierFacts
    <3> QED BY <2>4, <3>1 DEF Cp, CpRead, CpReadEnd, CpWrite, CpWriteFails, CpClose, conn
  <2>5. ASSUME NEW e \in Ends, Send(e) \/ Receive(e) \/ SeeEnd(e) \/ HangUp(e)
        PROVE  UNCHANGED <<closed, shut>> \/ \E S \in SUBSET Sockets : Close(S)
    <3>1. {e} \in SUBSET Sockets
      BY PeerFacts
    <3> QED BY <2>5, <3>1 DEF Send, Receive, SeeEnd, HangUp, conn
  <2>6. CASE SessionBreaks
    BY <2>6 DEF SessionBreaks
  <2> QED BY <2>2, <2>3, <2>4, <2>5, <2>6 DEF Next
<1>2. \A s \in Sockets : (closed[s] => closed'[s]) /\ (shut[s] => shut'[s])
  <2>1. CASE UNCHANGED <<closed, shut>>
    BY <2>1
  <2>2. ASSUME NEW S \in SUBSET Sockets, Close(S)
        PROVE  \A s \in Sockets : (closed[s] => closed'[s]) /\ (shut[s] => shut'[s])
    BY <2>2, CloseEffect DEF Basics
  <2>3. ASSUME NEW e \in Ends, Finish(e)
        PROVE  \A s \in Sockets : (closed[s] => closed'[s]) /\ (shut[s] => shut'[s])
    BY <2>3 DEF Finish, Basics, RelayType
  <2> QED BY <1>1, <2>1, <2>2, <2>3
<1>3. up' => up
  <2>1. CASE SessionBreaks
    BY <2>1 DEF SessionBreaks
  <2>2. CASE ~SessionBreaks
    BY <2>2 DEF Next, Server, OpenStream, OpenFails, SendLen, SendName, SendFails, RelayEnds,
      Client, Accept, ReadLen, ReadName, ReadHeader, HeaderFails, Dial, Cp, CpRead, CpReadEnd,
      CpWrite, CpWriteFails, CpClose, Send, Receive, SeeEnd, Finish, HangUp
  <2> QED BY <2>1, <2>2
<1> QED BY <1>2, <1>3 DEF Grows

LEMMA FlowsFall ==
  ASSUME Grows, NEW s \in Sockets
  PROVE  Flows(s)' => Flows(s)
  BY PeerFacts DEF Grows, Flows, Broken

(* A close empties queues or cuts them.                                    *)
LEMMA CloseMoves ==
  ASSUME Basics, NEW S \in SUBSET Sockets, Close(S), NEW s \in Sockets, Still(s)
  PROVE  Same(s) \/ Dropped(s)
<1>1. CASE q'[s] = q[s]
  BY <1>1 DEF Same
<1>2. CASE q'[s] # q[s]
  <2>1. \E k \in 0..Len(q[s]) : q'[s] = SubSeq(q[s], 1, k)
    BY <1>2, CloseEffect DEF Basics
  <2>2. s \in S \/ Peer[s] \in S
    BY <1>2, CloseEffect DEF Basics
  <2>3. ~Flows(s)'
    BY <2>2, CloseEffect, PeerFacts DEF Basics, Flows
  <2> QED BY <2>1, <2>3 DEF Dropped, Still
<1> QED BY <1>1, <1>2

LEMMA MovedStep ==
  ASSUME Basics, Next, NEW s \in Sockets
  PROVE  Moved(s)
<1> USE DEF Moved
<1>1. CASE Server
  <2>1. CASE OpenStream \/ (OpenFails /\ pc["server"] = "open")
    BY <2>1, HandlerSame
  <2>2. CASE OpenFails /\ pc["server"] = "retry"
    <3>1. {"local"} \in SUBSET Sockets
      BY DEF Sockets
    <3> QED BY <2>2, <3>1, OpenGivesUp, CloseMoves
  <2>3. CASE SendLen \/ SendName
    BY <2>3, SendHeaderMoves
  <2>4. CASE SendFails
    <3>1. {"local", "sstream"} \in SUBSET Sockets
      BY DEF Sockets, Streams
    <3> QED BY <2>4, <3>1, SendFailsMoves, CloseMoves
  <2>5. CASE RelayEnds("server")
    <3>1. Owned("server") \in SUBSET Sockets /\ "server" \in Sides
      BY DEF Owned, Sockets, Streams, Sides
    <3> QED BY <2>5, <3>1, RelayEndsStill, CloseMoves DEF RelayEnds, Return
  <2> QED BY <1>1, <2>1, <2>2, <2>3, <2>4, <2>5 DEF Server, OpenFails
<1>2. CASE Client
  <2>1. CASE Accept \/ Dial
    BY <2>1, HandlerSame
  <2>2. CASE ReadLen \/ ReadName
    BY <2>2, ReadHeaderMoves
  <2>3. CASE HeaderFails
    <3>1. {"cstream"} \in SUBSET Sockets
      BY DEF Sockets, Streams
    <3> QED BY <2>3, <3>1, HeaderFailsMoves, CloseMoves
  <2>4. CASE RelayEnds("client")
    <3>1. Owned("client") \in SUBSET Sockets /\ "client" \in Sides
      BY DEF Owned, Sockets, Streams, Sides
    <3> QED BY <2>4, <3>1, RelayEndsStill, CloseMoves DEF RelayEnds, Return
  <2> QED BY <1>2, <2>1, <2>2, <2>3, <2>4 DEF Client
<1>3. ASSUME NEW c \in Copiers, Cp(c) PROVE Moved(s)
  <2>1. CASE CpRead(c)
    BY <2>1, CpReadMoves
  <2>2. CASE CpReadEnd(c)
    BY <2>2, CpReadEndMoves
  <2>3. CASE CpWrite(c)
    BY <2>3, CpWriteMoves
  <2>4. CASE CpWriteFails(c)
    BY <2>4, CpWriteFailsMoves
  <2>5. CASE CpClose(c)
    <3>1. {Dst[c]} \in SUBSET Sockets
      BY CopierFacts
    <3> QED BY <2>5, <3>1, CpCloseMoves, CloseMoves DEF CpClose
  <2> QED BY <1>3, <2>1, <2>2, <2>3, <2>4, <2>5 DEF Cp
<1>4. ASSUME NEW e \in Ends, Send(e) \/ Receive(e) \/ SeeEnd(e) \/ Finish(e) \/ HangUp(e)
      PROVE  Moved(s)
  <2>1. CASE Send(e)
    BY <2>1, SendMoves
  <2>2. CASE Receive(e)
    BY <2>2, ReceiveMoves
  <2>3. CASE SeeEnd(e) \/ Finish(e)
    <3>1. q' = q
      BY <2>3 DEF SeeEnd, Finish, conn
    <3> QED BY <2>3, <3>1, EndStill DEF Same
  <2>4. CASE HangUp(e)
    <3>1. {e} \in SUBSET Sockets
      BY PeerFacts
    <3> QED BY <2>4, <3>1, EndStill, CloseMoves DEF HangUp
  <2> QED BY <1>4, <2>1, <2>2, <2>3, <2>4
<1>5. CASE SessionBreaks
  <2>1. Still(s)
    BY <1>5, BreakStill
  <2>2. CASE s \in Streams
    <3>1. up' = FALSE
      BY <1>5 DEF SessionBreaks
    <3>2. ~Flows(s)'
      BY <2>2, <3>1 DEF Flows, Broken
    <3> QED BY <1>5, <2>1, <2>2, <3>2, BreakEffect DEF Basics, Dropped, Still
  <2>3. CASE s \notin Streams
    BY <1>5, <2>1, <2>3, BreakEffect DEF Basics, Same
  <2> QED BY <2>2, <2>3
<1> QED BY <1>1, <1>2, <1>3, <1>4, <1>5 DEF Next
-----------------------------------------------------------------------------
(* Nothing got lost on the way to s.                                       *)
Intact(s) == Rd(s) + Len(q[s]) = Wr(s)

(* No move reorders or adds, and what is lost stays lost.                  *)
LEMMA MovedLink ==
  ASSUME Basics, Links, Grows, NEW s \in Sockets, Moved(s)
  PROVE  /\ Link(q'[s], Rd(s)', Wr(s)', Flows(s)')
         /\ Rd(s)' + Len(q'[s]) = Wr(s)' => Rd(s) + Len(q[s]) = Wr(s)
         /\ Missed(s) => Rd(s)' + Len(q'[s]) # Wr(s)'
<1> DEFINE r == Rd(s)
           w == Wr(s)
           f == Flows(s)
           qs == q[s]
<1>1. r \in Int /\ w \in Int /\ qs \in Seq(Int) /\ Len(qs) \in Nat
  BY AtInt, LenProperties DEF Basics, RelayType
<1>2. Link(qs, r, w, f) /\ f \in BOOLEAN /\ Flows(s)' \in BOOLEAN
  BY DEF Links, Flows
<1>3. Flows(s)' => f
  BY FlowsFall
<1>4. CASE Same(s)
  <2>1. q'[s] = qs /\ Rd(s)' = r /\ Wr(s)' = w
    BY <1>4 DEF Same, Still
  <2>2. Link(qs, r, w, Flows(s)')
    BY <1>2, <1>3 DEF Link
  <2>3. ~Missed(s)
    BY <1>1, <2>1 DEF Missed
  <2> QED BY <2>1, <2>2, <2>3
<1>5. CASE Took(s)
  <2>1. qs # <<>> /\ q'[s] = Tail(qs) /\ Rd(s)' = r + 1 /\ Wr(s)' = w
    BY <1>5 DEF Took
  <2> HIDE DEF r, w, f, qs
  <2>2. Link(Tail(qs), r + 1, w, f) /\ Len(Tail(qs)) = Len(qs) - 1
    BY <1>1, <1>2, <2>1, LinkTake
  <2>3. Link(Tail(qs), r + 1, w, Flows(s)')
    BY <1>3, <2>2 DEF Link
  <2>4. r + 1 + Len(Tail(qs)) = r + Len(qs)
    <3>1. \A m, n \in Int : m = n - 1 => r + 1 + m = r + n
      BY <1>1
    <3>2. Len(Tail(qs)) \in Int /\ Len(qs) \in Int
      BY <1>1, <2>2
    <3> QED BY <2>2, <3>1, <3>2, Zenon
  <2>5. ~Missed(s)
    BY <1>1, <2>1 DEF Missed, r, w
  <2> QED BY <2>1, <2>3, <2>4, <2>5 DEF r, w, qs
<1>6. CASE Added(s)
  <2>1. f /\ q'[s] = Append(qs, w) /\ Rd(s)' = r /\ Wr(s)' = w + 1
    BY <1>6 DEF Added
  <2>2. ~Missed(s)
    BY <2>1 DEF Missed
  <2> HIDE DEF r, w, f, qs
  <2>3. Link(qs, r, w, TRUE) /\ r + Len(qs) = w
    BY <1>2, <2>1 DEF Link
  <2>4. Link(Append(qs, w), r, w + 1, Flows(s)')
    BY <1>1, <2>3, LinkAdd
  <2> QED BY <2>1, <2>2, <2>3, <2>4 DEF r, w, qs
<1>7. CASE Missed(s)
  <2>1. ~f /\ q'[s] = qs /\ Rd(s)' = r /\ Wr(s)' = w + 1
    BY <1>7 DEF Missed
  <2>2. ~Flows(s)'
    BY <1>3, <2>1
  <2> HIDE DEF r, w, f, qs
  <2>3. Link(qs, r, w + 1, FALSE) /\ r + Len(qs) # w + 1
    BY <1>1, <1>2, LinkMiss
  <2> QED BY <2>1, <2>2, <2>3 DEF Link, r, w, qs
<1>8. CASE Dropped(s)
  <2>1. PICK k \in 0..Len(qs) : q'[s] = SubSeq(qs, 1, k)
    BY <1>8 DEF Dropped
  <2>2. /\ ~Flows(s)' /\ Wr(s)' = w
        /\ Rd(s)' = r \/ (q'[s] = <<>> /\ Rd(s)' \in Int /\ Rd(s)' <= r)
    BY <1>8 DEF Dropped
  <2>3. ~Missed(s)
    BY <1>1, <2>2 DEF Missed
  <2> HIDE DEF r, w, f, qs
  <2>4. Link(SubSeq(qs, 1, k), r, w, FALSE) /\ Len(SubSeq(qs, 1, k)) = k
    BY <1>1, <1>2, LinkCut
  <2>5. r + Len(qs) <= w
    BY <1>2 DEF Link
  <2>6. CASE Rd(s)' = r
    <3>1. r + k = w => r + Len(qs) = w
      BY <1>1, <2>1, <2>5
    <3> QED BY <2>1, <2>2, <2>3, <2>4, <2>6, <3>1 DEF Link, r, w, qs
  <2>7. CASE q'[s] = <<>> /\ Rd(s)' \in Int /\ Rd(s)' <= r
    <3>1. Rd(s)' <= w /\ Len(q'[s]) = 0
      BY <1>1, <2>5, <2>7
    <3>2. Link(<<>>, Rd(s)', w, FALSE)
      BY <1>1, <2>7, <3>1, LinkEmpty
    <3>3. Rd(s)' + Len(q'[s]) = w => r + Len(qs) = w
      BY <1>1, <2>5, <2>7, <3>1
    <3> QED BY <2>2, <2>3, <2>7, <3>2, <3>3 DEF Link, r, w, qs
  <2> QED BY <2>2, <2>6, <2>7
<1> QED BY <1>4, <1>5, <1>6, <1>7, <1>8 DEF Moved

LEMMA LinksStep ==
  ASSUME Basics, Links, Next
  PROVE  /\ Links'
         /\ \A s \in Sockets : Intact(s)' => Intact(s)
         /\ \A s \in Sockets : Missed(s) => ~Intact(s)'
<1>1. \A s \in Sockets : Link(q'[s], Rd(s)', Wr(s)', Flows(s)')
  BY GrowsStep, MovedStep, MovedLink
<1>2. \A s \in Sockets : Rd(s)' + Len(q'[s]) = Wr(s)' => Rd(s) + Len(q[s]) = Wr(s)
  BY GrowsStep, MovedStep, MovedLink
<1>3. \A s \in Sockets : Missed(s) => Rd(s)' + Len(q'[s]) # Wr(s)'
  BY GrowsStep, MovedStep, MovedLink
<1>4. Links'
  BY <1>1 DEF Links, Link, Counts
<1> QED BY <1>2, <1>3, <1>4 DEF Intact

(* A link that is read from, or written to, keeps all it has.              *)
LEMMA IntactKept ==
  ASSUME Basics, Links, NEW s \in Sockets, Same(s) \/ Took(s) \/ Added(s), Intact(s)
  PROVE  Intact(s)'
<1>1. Rd(s) \in Int /\ Wr(s) \in Int /\ q[s] \in Seq(Int) /\ Len(q[s]) \in Nat
  BY AtInt, LenProperties DEF Basics, RelayType
<1>2. CASE Same(s)
  BY <1>2 DEF Same, Still, Intact
<1>3. CASE Took(s)
  <2>1. Len(Tail(q[s])) = Len(q[s]) - 1
    BY <1>1, <1>3, HeadTailProperties DEF Took
  <2> QED BY <1>1, <1>3, <2>1 DEF Took, Intact
<1>4. CASE Added(s)
  <2>1. Len(Append(q[s], Wr(s))) = Len(q[s]) + 1
    BY <1>1
  <2> QED BY <1>1, <1>4, <2>1 DEF Added, Intact
<1> QED BY <1>2, <1>3, <1>4
-----------------------------------------------------------------------------
(* The four copiers as an end sees them: o1 and o2 copy away from it, i1   *)
(* and i2 towards it.                                                      *)
Way(o1, o2, i1, i2) ==
    \/ o1 = "sUp" /\ o2 = "cUp" /\ i1 = "cDown" /\ i2 = "sDown"
    \/ o1 = "cDown" /\ o2 = "sDown" /\ i1 = "sUp" /\ i2 = "cUp"

(* Nothing was lost in a direction.                                        *)
Whole(c, d) == Intact(Src[c]) /\ Intact(Src[d]) /\ Intact(Peer[Dst[d]])

Ending == {"close", "done"}

(* The end of the stream travels from the other end to this one, closing   *)
(* each socket behind what was delivered, and what this end would send is  *)
(* cut off only after that.                                                *)
Order(o1, o2, i1, i2) ==
    /\ \A c \in Copiers : closed[Dst[c]] => cpc[c] = "done"
    /\ cpc[i1] \in Ending => shut[Peer[Src[i1]]] /\ q[Src[i1]] = <<>>
    /\ cpc[i2] \in Ending => closed[Dst[i1]] /\ q[Src[i2]] = <<>>
    /\ cpc[o1] \in Ending => closed[Src[o1]]
    /\ cpc[o2] \in Ending => closed[Src[o2]]

(* The server relays, and the client does or may still.                    *)
Linked == cpc["sUp"] # "off" /\ (pc["client"] = "end" => cpc["cUp"] # "off")

(* An end that goes on, and of whose data nothing was lost, ...            *)
Sound(o1, o2) == up /\ Linked /\ ~shut[Peer[Src[o1]]] /\ Whole(o1, o2)

(* ... loses nothing that is sent to it.                                   *)
Honest(o1, o2, i1, i2) == Sound(o1, o2) => Whole(i1, i2) /\ Order(o1, o2, i1, i2)

(* Before the server relays, all the user sent is waiting.                 *)
Early == cpc["sDown"] = "off" /\ ~closed["local"] => Intact("local")

LEMMA WayFacts ==
  ASSUME NEW o1, NEW o2, NEW i1, NEW i2, Way(o1, o2, i1, i2)
  PROVE  /\ {o1, o2, i1, i2} = Copiers
         /\ o1 # o2 /\ o1 # i1 /\ o1 # i2 /\ o2 # i1 /\ o2 # i2 /\ i1 # i2
         /\ Dst[i2] = Src[o1] /\ Dst[o1] = Src[i2] /\ Dst[i1] = Src[o2] /\ Dst[o2] = Src[i1]
         /\ Peer[Src[o2]] = Src[i2] /\ Peer[Src[i2]] = Src[o2]
         /\ Peer[Src[o1]] \in Ends /\ Peer[Src[i1]] \in Ends /\ Peer[Src[o1]] # Peer[Src[i1]]
         /\ Src[o2] \in Streams /\ Src[i2] \in Streams
         /\ Src[o1] \in Sockets \ (Streams \union Ends)
         /\ Src[i1] \in Sockets \ (Streams \union Ends)
         /\ Src[o1] # Src[i1] /\ Src[o2] # Src[i2]
<1>1. CASE o1 = "sUp" /\ o2 = "cUp" /\ i1 = "cDown" /\ i2 = "sDown"
  BY <1>1 DEF Copiers, Src, Dst, Peer, Ends, Streams, Sockets
<1>2. CASE o1 = "cDown" /\ o2 = "sDown" /\ i1 = "sUp" /\ i2 = "cUp"
  BY <1>2 DEF Copiers, Src, Dst, Peer, Ends, Streams, Sockets
<1> QED BY <1>1, <1>2 DEF Way

(* What relay closes when it returns is what its copiers wrote to.         *)
LEMMA SideFacts ==
  ASSUME NEW h \in Sides, pc[h] = "relay"
  PROVE  /\ Owned(h) = {Dst[c] : c \in CpOf[h]} /\ CpOf[h] \in SUBSET Copiers
         /\ \A c, d \in Copiers : Dst[c] = Dst[d] => c = d
<1>1. CASE h = "server"
  BY <1>1 DEF Owned, CpOf, Dst, Copiers
<1>2. CASE h = "client"
  BY <1>2 DEF Owned, CpOf, Dst, Copiers
<1> QED BY <1>1, <1>2 DEF Sides

LEMMA SideWay ==
  ASSUME NEW h \in Sides, NEW o1, NEW o2, NEW i1, NEW i2, Way(o1, o2, i1, i2)
  PROVE  (o1 \in CpOf[h] <=> i2 \in CpOf[h]) /\ (o2 \in CpOf[h] <=> i1 \in CpOf[h])
<1>1. CASE h = "server"
  BY <1>1 DEF CpOf, Way
<1>2. CASE h = "client"
  BY <1>2 DEF CpOf, Way
<1> QED BY <1>1, <1>2 DEF Sides

LEMMA EarlyStep ==
  ASSUME Basics, Links, Early, Next
  PROVE  Early'
<1> SUFFICES ASSUME cpc'["sDown"] = "off", ~closed'["local"] PROVE Intact("local")'
  BY DEF Early
<1>0. /\ "local" \in Sockets /\ Peer["local"] = "user" /\ "user" \in Ends /\ "user" \in Sockets
      /\ "local" \notin Ends /\ "local" \notin Streams /\ Peer["user"] = "local"
      /\ "cstream" # "local" /\ "sDown" \in Copiers
  BY DEF Sockets, Streams, Ends, Peer, Copiers
<1>1. Grows
  BY GrowsStep
<1>2. ~closed["local"]
  BY <1>0, <1>1 DEF Grows
<1>3. cpc["sDown"] = "off"
  <2>1. CASE Server \/ Client
    <3>1. cpc' = cpc \/ \E h \in Sides : Relay(h)
      BY <2>1 DEF Server, Client, OpenStream, OpenFails, SendLen, SendName, SendFails, RelayEnds,
                  Accept, ReadLen, ReadName, ReadHeader, HeaderFails, Dial, Sides
    <3> QED BY <1>0, <3>1 DEF Relay
  <2>2. ASSUME NEW c \in Copiers, Cp(c) PROVE cpc["sDown"] = "off"
    <3>1. PICK l \in {"read", "write", "close", "done"} : cpc' = [cpc EXCEPT ![c] = l]
      BY <2>2 DEF Cp, CpRead, CpReadEnd, CpWrite, CpWriteFails, CpClose
    <3> QED BY <1>0, <3>1 DEF Basics, RelayType
  <2>3. ASSUME NEW e \in Ends, Send(e) \/ Receive(e) \/ SeeEnd(e) \/ Finish(e) \/ HangUp(e)
        PROVE  cpc["sDown"] = "off"
    BY <2>3 DEF Send, Receive, SeeEnd, Finish, HangUp
  <2>4. CASE SessionBreaks
    BY <2>4 DEF SessionBreaks
  <2> QED BY <2>1, <2>2, <2>3, <2>4 DEF Next
<1>4. Intact("local")
  BY <1>2, <1>3 DEF Early
<1>5. q["user"] = <<>>
  <2>1. Rd("user") = got["user"] /\ Wr("user") = 0
    BY <1>0, <1>3, EndAt DEF Wr, Passed, Basics, Copying
  <2>2. Link(q["user"], Rd("user"), Wr("user"), Flows("user"))
    BY <1>0 DEF Links
  <2>3. got["user"] \in Nat /\ q["user"] \in Seq(Int) /\ Len(q["user"]) \in Nat
    BY <1>0, LenProperties DEF Basics, RelayType
  <2>4. Len(q["user"]) = 0
    BY <2>1, <2>2, <2>3 DEF Link
  <2> QED BY <2>3, <2>4, EmptySeq
<1>6. ASSUME NEW S \in SUBSET Sockets, Close(S), \A s \in Sockets \ Streams : Still(s)
      PROVE  Intact("local")'
  <2>1. "local" \notin S
    BY <1>0, <1>6, CloseEffect DEF Basics
  <2>2. q'["local"] = q["local"]
    BY <1>0, <1>5, <1>6, <2>1, CloseEffect DEF Basics
  <2> QED BY <1>0, <1>4, <1>6, <2>2 DEF Intact, Still
<1>7. ASSUME Same("local") \/ Took("local") \/ Added("local") PROVE Intact("local")'
  BY <1>0, <1>4, <1>7, IntactKept
<1>8. CASE Server
  <2>1. CASE OpenStream \/ (OpenFails /\ pc["server"] = "open")
    BY <1>0, <1>7, <2>1, HandlerSame
  <2>2. CASE OpenFails /\ pc["server"] = "retry"
    <3>1. {"local"} \in SUBSET Sockets
      BY <1>0
    <3> QED BY <1>6, <2>2, <3>1, OpenGivesUp
  <2>3. CASE SendLen \/ SendName
    BY <1>0, <1>7, <2>3, SendHeaderMoves
  <2>4. CASE SendFails
    <3>1. {"local", "sstream"} \in SUBSET Sockets /\ "cstream" \in Streams
      BY DEF Sockets, Streams
    <3> QED BY <1>6, <2>4, <3>1, SendFailsMoves
  <2>5. CASE RelayEnds("server")
    <3>1. Owned("server") \in SUBSET Sockets /\ "server" \in Sides
      BY DEF Owned, Sockets, Streams, Sides
    <3> QED BY <1>6, <2>5, <3>1, RelayEndsStill DEF RelayEnds, Return
  <2> QED BY <1>8, <2>1, <2>2, <2>3, <2>4, <2>5 DEF Server, OpenFails
<1>9. CASE Client
  <2>1. CASE Accept \/ Dial
    BY <1>0, <1>7, <2>1, HandlerSame
  <2>2. CASE ReadLen \/ ReadName
    BY <1>0, <1>7, <2>2, ReadHeaderMoves
  <2>3. CASE HeaderFails
    <3>1. {"cstream"} \in SUBSET Sockets /\ "cstream" \in Streams
      BY DEF Sockets, Streams
    <3> QED BY <1>6, <2>3, <3>1, HeaderFailsMoves
  <2>4. CASE RelayEnds("client")
    <3>1. Owned("client") \in SUBSET Sockets /\ "client" \in Sides
      BY DEF Owned, Sockets, Streams, Sides
    <3> QED BY <1>6, <2>4, <3>1, RelayEndsStill DEF RelayEnds, Return
  <2> QED BY <1>9, <2>1, <2>2, <2>3, <2>4 DEF Client
<1>10. ASSUME NEW c \in Copiers, Cp(c) PROVE Intact("local")'
  <2>0. Peer[Dst[c]] # "local"
    BY DEF Copiers, Dst, Peer
  <2>1. CASE CpRead(c)
    BY <1>0, <1>7, <2>1, CpReadMoves
  <2>2. CASE CpReadEnd(c)
    BY <1>0, <1>7, <2>2, CpReadEndMoves
  <2>3. CASE CpWrite(c)
    BY <1>0, <1>7, <2>0, <2>3, CpWriteMoves
  <2>4. CASE CpWriteFails(c)
    BY <1>0, <1>7, <2>0, <2>4, CpWriteFailsMoves
  <2>5. CASE CpClose(c)
    <3>1. {Dst[c]} \in SUBSET Sockets
      BY CopierFacts
    <3> QED BY <1>6, <2>5, <3>1, CpCloseMoves DEF CpClose
  <2> QED BY <1>10, <2>1, <2>2, <2>3, <2>4, <2>5 DEF Cp
<1>11. ASSUME NEW e \in Ends, Send(e) \/ Receive(e) \/ SeeEnd(e) \/ Finish(e) \/ HangUp(e)
       PROVE  Intact("local")'
  <2>1. CASE Send(e)
    BY <1>0, <1>7, <2>1, SendMoves
  <2>2. CASE Receive(e)
    BY <1>0, <1>7, <2>2, ReceiveMoves
  <2>3. CASE SeeEnd(e) \/ Finish(e)
    <3>1. q' = q
      BY <2>3 DEF SeeEnd, Finish, conn
    <3> QED BY <1>0, <1>7, <2>3, <3>1, EndStill DEF Same
  <2>4. CASE HangUp(e)
    <3>1. {e} \in SUBSET Sockets
      BY PeerFacts
    <3> QED BY <1>6, <2>4, <3>1, EndStill DEF HangUp
  <2> QED BY <1>11, <2>1, <2>2, <2>3, <2>4
<1>12. CASE SessionBreaks
  <2>1. Same("local")
    BY <1>0, <1>12, BreakStill, BreakEffect DEF Basics, Same
  <2> QED BY <1>7, <2>1
<1> QED BY <1>8, <1>9, <1>10, <1>11, <1>12 DEF Next

(* While both sides relay, or the client still may.                        *)
LEMMA HonestGoesOn ==
  ASSUME Basics, Links, Next, Linked,
         NEW o1, NEW o2, NEW i1, NEW i2, Way(o1, o2, i1, i2),
         Honest(o1, o2, i1, i2), Sound(o1, o2)'
  PROVE  (Whole(i1, i2) /\ Order(o1, o2, i1, i2))'
<1> DEFINE A == Src[o1]
           B == Src[o2]
           C == Peer[Src[i1]]
           D == Src[i1]
           E == Src[i2]
           F == Peer[Src[o1]]
<1>way. /\ Copiers = {o1, o2, i1, i2}
        /\ o1 # o2 /\ o1 # i1 /\ o1 # i2 /\ o2 # i1 /\ o2 # i2 /\ i1 # i2
        /\ Dst[i2] = A /\ Dst[o1] = E /\ Dst[i1] = B /\ Dst[o2] = D
        /\ Src[o1] = A /\ Src[o2] = B /\ Src[i1] = D /\ Src[i2] = E
        /\ Peer[A] = F /\ Peer[B] = E /\ Peer[D] = C /\ Peer[E] = B
  BY WayFacts
<1>net. /\ A \in Sockets \ Ends /\ B \in Sockets \ Ends /\ C \in Ends /\ D \in Sockets \ Ends
        /\ E \in Sockets \ Ends /\ F \in Ends /\ C \in Sockets /\ F \in Sockets
        /\ Peer[F] = A /\ Peer[C] = D /\ C # F
        /\ A # B /\ A # D /\ A # E /\ B # D /\ B # E /\ D # E
        /\ B \in Streams /\ E \in Streams /\ A \notin Streams /\ D \notin Streams
  BY WayFacts, PeerFacts DEF Sockets, Streams, Ends
<1> HIDE DEF A, B, C, D, E, F
<1>grow. Grows
  BY GrowsStep
<1>links. /\ \A s \in Sockets : Intact(s)' => Intact(s)
          /\ \A s \in Sockets : Missed(s) => ~Intact(s)'
  BY LinksStep
<1>out. /\ up' /\ ~shut'[F] /\ Linked'
        /\ Intact(A)' /\ Intact(B)' /\ Intact(C)'
  BY <1>way DEF Sound, Whole, F
<1>was. /\ up /\ ~shut[F] /\ ~closed[F]
        /\ Intact(A) /\ Intact(B) /\ Intact(C)
  <2>1. up /\ ~shut[F]
    BY <1>net, <1>out, <1>grow DEF Grows
  <2>2. ~closed[F]
    BY <1>net, <2>1 DEF Basics, Sockets1
  <2> QED BY <1>net, <1>out, <1>links, <2>1, <2>2
<1>in. /\ Intact(D) /\ Intact(E) /\ Intact(F)
       /\ closed[A] => cpc[i2] = "done"
       /\ closed[B] => cpc[i1] = "done"
       /\ closed[D] => cpc[o2] = "done"
       /\ closed[E] => cpc[o1] = "done"
       /\ cpc[i1] \in Ending => shut[C] /\ q[D] = <<>>
       /\ cpc[i2] \in Ending => closed[B] /\ q[E] = <<>>
       /\ cpc[o1] \in Ending => closed[A]
       /\ cpc[o2] \in Ending => closed[B]
  <2>1. Whole(o1, o2)
    BY <1>way, <1>was DEF Whole
  <2>2. Whole(i1, i2) /\ Order(o1, o2, i1, i2)
    BY <1>was, <2>1 DEF Honest, Sound, F
  <2> QED BY <1>way, <2>2 DEF Whole, Order, C, F
<1>chain. /\ closed[E] => closed[A]
          /\ closed[A] => closed[B] /\ q[E] = <<>>
          /\ closed[B] => shut[C] /\ q[D] = <<>>
          /\ closed[D] => closed[B]
  BY <1>in DEF Ending
<1> DEFINE Goal ==
             /\ Intact(D)' /\ Intact(E)' /\ Intact(F)'
             /\ closed'[A] => cpc'[i2] = "done"
             /\ closed'[B] => cpc'[i1] = "done"
             /\ closed'[D] => cpc'[o2] = "done"
             /\ closed'[E] => cpc'[o1] = "done"
             /\ cpc'[i1] \in Ending => shut'[C] /\ q'[D] = <<>>
             /\ cpc'[i2] \in Ending => closed'[B] /\ q'[E] = <<>>
             /\ cpc'[o1] \in Ending => closed'[A]
             /\ cpc'[o2] \in Ending => closed'[B]
<1> SUFFICES Goal
  BY <1>way DEF Whole, Order, C, F
<1> HIDE DEF Goal
(* Steps that lose nothing, close nothing and end no copier.               *)
<1>calm. ASSUME UNCHANGED closed, \A s \in Sockets : shut[s] => shut'[s],
                \A c \in Copiers : \/ cpc'[c] = cpc[c]
                                   \/ cpc[c] # "done" /\ cpc'[c] \notin Ending,
                \A s \in {D, E, F} : Same(s) \/ Took(s) \/ Added(s),
                cpc[i1] \in Ending => Same(D) \/ Took(D),
                cpc[i2] \in Ending => Same(E) \/ Took(E)
         PROVE  Goal
  <2>1. Intact(D)' /\ Intact(E)' /\ Intact(F)'
    BY <1>net, <1>in, <1>calm, IntactKept
  <2>2. \A c \in {o1, o2, i1, i2} : /\ cpc'[c] \in Ending => cpc[c] \in Ending
                                    /\ cpc[c] = "done" => cpc'[c] = "done"
    BY <1>way, <1>calm
  <2>3. cpc'[i1] \in Ending => q'[D] = <<>>
    BY <1>net, <1>in, <1>calm, <2>2 DEF Same, Took
  <2>4. cpc'[i2] \in Ending => q'[E] = <<>>
    BY <1>net, <1>in, <1>calm, <2>2 DEF Same, Took
  <2> QED BY <1>net, <1>in, <1>calm, <2>1, <2>2, <2>3, <2>4 DEF Goal
(* Steps that close sockets of finished copiers, and only empty ones.      *)
<1>shuts. ASSUME NEW S \in SUBSET Sockets, Close(S), \A s \in Sockets : Still(s),
                 \A s \in S : q[s] = <<>>,
                 \A c \in Copiers : \/ cpc'[c] = cpc[c]
                                    \/ cpc[c] = "close" /\ cpc'[c] = "done",
                 \A c \in Copiers : Dst[c] \in S => cpc'[c] = "done"
          PROVE  Goal
  <2>1. ASSUME NEW s \in Sockets PROVE q'[s] = q[s]
    <3>1. CASE s \in S
      BY <1>shuts, <3>1, CloseEffect DEF Basics
    <3>2. CASE s \notin S
      BY <1>shuts, <3>2, CloseEffect DEF Basics
    <3> QED BY <3>1, <3>2
  <2>2. Intact(D)' /\ Intact(E)' /\ Intact(F)'
    BY <1>net, <1>in, <1>shuts, <2>1 DEF Intact, Still
  <2>3. \A s \in Sockets : closed'[s] => closed[s] \/ s \in S
    BY <1>shuts, CloseEffect DEF Basics
  <2>4. \A c \in {o1, o2, i1, i2} : /\ cpc'[c] \in Ending => cpc[c] \in Ending
                                    /\ cpc[c] = "done" => cpc'[c] = "done"
                                    /\ Dst[c] \in S => cpc'[c] = "done"
    BY <1>way, <1>shuts DEF Ending
  <2>5. /\ closed'[A] => cpc'[i2] = "done"
        /\ closed'[B] => cpc'[i1] = "done"
        /\ closed'[D] => cpc'[o2] = "done"
        /\ closed'[E] => cpc'[o1] = "done"
    BY <1>way, <1>net, <1>in, <2>3, <2>4
  <2>6. /\ cpc'[i1] \in Ending => shut'[C] /\ q'[D] = <<>>
        /\ cpc'[i2] \in Ending => closed'[B] /\ q'[E] = <<>>
        /\ cpc'[o1] \in Ending => closed'[A]
        /\ cpc'[o2] \in Ending => closed'[B]
    BY <1>net, <1>in, <1>grow, <2>1, <2>4 DEF Grows
  <2> QED BY <2>2, <2>5, <2>6 DEF Goal
(* What an intact link loses by a close was nothing.                       *)
<1>empty. ASSUME NEW s \in Sockets, Intact(s), Intact(s)', Still(s), q'[s] = <<>>
          PROVE  q[s] = <<>>
  <2>1. Rd(s) \in Int /\ Wr(s) \in Int /\ q[s] \in Seq(Int) /\ Len(q[s]) \in Nat
    BY AtInt, LenProperties DEF Basics, RelayType
  <2>2. Len(q[s]) = 0
    BY <1>empty, <2>1 DEF Intact, Still
  <2> QED BY <2>1, <2>2, EmptySeq
(* relay returns: both its copiers are done.                               *)
<1>ends. ASSUME NEW h \in Sides, RelayEnds(h) PROVE Goal
  <2> DEFINE S == Owned(h)
  <2>1. /\ pc[h] = "relay" /\ \A c \in CpOf[h] : cpc[c] = "done"
        /\ Close(S) /\ cpc' = cpc
    BY <1>ends DEF RelayEnds, Return
  <2>2. /\ S = {Dst[c] : c \in CpOf[h]} /\ CpOf[h] \in SUBSET Copiers
        /\ \A c, d \in Copiers : Dst[c] = Dst[d] => c = d
    BY <2>1, SideFacts
  <2>3. S \in SUBSET Sockets
    BY <2>2, CopierFacts
  <2> HIDE DEF S
  <2>4. \A s \in Sockets : Still(s)
    BY <1>ends, RelayEndsStill
  <2>5. \A c \in Copiers : Dst[c] \in S => c \in CpOf[h]
    BY <2>2
  <2>6. /\ D \in S => q[D] = <<>>
        /\ E \in S => q[E] = <<>>
    BY <1>way, <1>in, <2>1, <2>5, SideWay DEF Ending
  <2>7. /\ A \in S => q[A] = <<>>
        /\ B \in S => q[B] = <<>>
    BY <1>net, <1>out, <1>was, <1>empty, <2>1, <2>3, <2>4, CloseEffect DEF Basics
  <2>8. \A s \in S : q[s] = <<>>
    BY <1>way, <2>2, <2>6, <2>7
  <2> QED BY <1>shuts, <2>1, <2>2, <2>3, <2>4, <2>5, <2>8
<1>1. CASE Server
  <2>1. pc["server"] \notin {"open", "retry", "len", "name"} /\ "server" \in Sides
    BY DEF Linked, Basics, Starting, Sides
  <2> QED BY <1>1, <1>ends, <2>1 DEF Server, OpenStream, OpenFails, SendLen, SendName, SendFails
<1>2. CASE Client
  <2>1. CASE Accept
    <3>1. UNCHANGED <<closed, shut, cpc>>
      BY <2>1 DEF Accept, conn
    <3> QED BY <1>calm, <1>net, <2>1, <3>1, HandlerSame
  <2>2. CASE Dial
    <3>1. /\ UNCHANGED <<closed, shut>> /\ pc["client"] = "dial"
          /\ cpc' = [c \in Copiers |-> IF c \in {"cUp", "cDown"} THEN "read" ELSE cpc[c]]
      BY <2>2 DEF Dial, Relay, CpOf, conn
    <3>2. cpc["cUp"] = "off" /\ cpc["cDown"] = "off"
      BY <3>1 DEF Basics, Starting
    <3>3. \A c \in Copiers : \/ cpc'[c] = cpc[c]
                             \/ cpc[c] # "done" /\ cpc'[c] \notin Ending
      BY <3>1, <3>2 DEF Ending
    <3> QED BY <1>calm, <1>net, <2>2, <3>1, <3>3, HandlerSame
  <2>3. CASE ReadLen \/ ReadName
    <3>1. UNCHANGED <<closed, shut, cpc>>
      BY <2>3 DEF ReadLen, ReadName, ReadHeader
    <3>2. \A s \in Sockets : Same(s) \/ Took(s)
      BY <2>3, ReadHeaderMoves
    <3> QED BY <1>calm, <1>net, <3>1, <3>2
  <2>4. CASE HeaderFails
    <3>1. pc'["client"] = "end" /\ cpc' = cpc /\ pc["client"] \in {"len", "name", "bad", "dial"}
      BY <2>4 DEF HeaderFails, Return, Goto, Basics, RelayType, Sides
    <3>2. cpc["cUp"] = "off"
      BY <3>1 DEF Basics, Starting
    <3> QED BY <1>out, <3>1, <3>2 DEF Linked
  <2>5. CASE RelayEnds("client")
    BY <1>ends, <2>5 DEF Sides
  <2> QED BY <1>2, <2>1, <2>2, <2>3, <2>4, <2>5 DEF Client
<1>3. ASSUME NEW c \in Copiers, Cp(c) PROVE Goal
  <2>0. c \in {o1, o2, i1, i2}
    BY <1>way
  <2>1. CASE CpRead(c)
    <3>1. UNCHANGED <<closed, shut>> /\ cpc[c] = "read" /\ cpc' = [cpc EXCEPT ![c] = "write"]
      BY <2>1 DEF CpRead
    <3>2. \A d \in Copiers : \/ cpc'[d] = cpc[d]
                             \/ cpc[d] # "done" /\ cpc'[d] \notin Ending
      BY <3>1 DEF Basics, RelayType, Ending
    <3>3. \A s \in Sockets : Same(s) \/ Took(s)
      BY <2>1, CpReadMoves
    <3> QED BY <1>calm, <1>net, <3>1, <3>2, <3>3
  <2>2. CASE CpReadEnd(c)
    <3>1. /\ UNCHANGED <<q, closed, shut>> /\ AtEnd(Src[c]) /\ cpc[c] = "read"
          /\ cpc'[c] = "close" /\ \A d \in Copiers : d # c => cpc'[d] = cpc[d]
      BY <2>2 DEF CpReadEnd, conn, Basics, RelayType
    <3>2. Intact(D)' /\ Intact(E)' /\ Intact(F)'
      BY <1>net, <1>in, <2>2, CpReadEndMoves, IntactKept
    <3>3. ~Broken(A) /\ ~Broken(B) /\ ~Broken(D) /\ ~Broken(E)
      BY <1>net, <1>was DEF Broken
    <3>4. c = i1 => shut[C] /\ q[D] = <<>>
      BY <1>way, <1>in, <1>chain, <3>1, <3>3 DEF AtEnd
    <3>5. shut[B] => closed[B]
      BY <1>net DEF Basics, Sockets1
    <3>6. shut[E] => closed[E]
      BY <1>net DEF Basics, Sockets1
    <3>7. c = i2 => closed[B] /\ q[E] = <<>>
      BY <1>way, <1>in, <1>chain, <3>1, <3>3, <3>5 DEF AtEnd
    <3>8. c = o1 => closed[A]
      BY <1>way, <1>was, <3>1, <3>3 DEF AtEnd
    <3>9. c = o2 => closed[B]
      BY <1>way, <1>chain, <3>1, <3>3, <3>6 DEF AtEnd
    <3>10. \A d \in {o1, o2, i1, i2} :
             /\ cpc'[d] \in Ending => cpc[d] \in Ending \/ d = c
             /\ cpc[d] = "done" => cpc'[d] = "done"
      BY <1>way, <3>1
    <3> QED BY <1>in, <3>1, <3>2, <3>4, <3>7, <3>8, <3>9, <3>10 DEF Goal
  <2>3. CASE CpWrite(c)
    <3>1. /\ UNCHANGED <<closed, shut>> /\ cpc[c] = "write" /\ cpc' = [cpc EXCEPT ![c] = "read"]
      BY <2>3 DEF CpWrite
    <3>2. \A d \in Copiers : \/ cpc'[d] = cpc[d]
                             \/ cpc[d] # "done" /\ cpc'[d] \notin Ending
      BY <3>1 DEF Basics, RelayType, Ending
    <3>3. /\ Added(Peer[Dst[c]]) \/ closed[Peer[Dst[c]]]
          /\ \A s \in Sockets : s # Peer[Dst[c]] => Same(s)
      BY <2>3, CpWriteMoves
    <3>4. CASE c = o1 \/ c = o2
      <4>1. Same(D) /\ Same(E) /\ Same(F)
        BY <1>way, <1>net, <3>3, <3>4
      <4> QED BY <1>calm, <3>1, <3>2, <4>1
    <3>5. CASE c = i1
      <4>1. Peer[Dst[c]] = E /\ Same(D) /\ Same(F)
        BY <1>way, <1>net, <3>3, <3>5
      <4>2. ~closed[B]
        BY <1>in, <3>1, <3>5
      <4>3. Added(E)
        BY <1>chain, <3>3, <4>1, <4>2
      <4>4. cpc[i2] \notin Ending
        BY <1>in, <4>2
      <4> QED BY <1>calm, <3>1, <3>2, <4>1, <4>3, <4>4
    <3>6. CASE c = i2
      <4>1. Peer[Dst[c]] = F /\ Same(D) /\ Same(E)
        BY <1>way, <1>net, <3>3, <3>6
      <4>2. Added(F)
        BY <1>was, <3>3, <4>1
      <4> QED BY <1>calm, <3>1, <3>2, <4>1, <4>2
    <3> QED BY <2>0, <3>4, <3>5, <3>6
  <2>4. CASE CpWriteFails(c)
    <3>1. CanFail(Dst[c]) /\ cpc[c] = "write" /\ Missed(Peer[Dst[c]])
      BY <2>4, CpWriteFailsMoves DEF CpWriteFails
    <3>2. c # o1 /\ c # o2
      BY <1>way, <1>net, <1>out, <1>links, <3>1
    <3>3. ~Broken(A) /\ ~Broken(B)
      BY <1>net, <1>was DEF Broken
    <3>4. c # i1
      BY <1>way, <1>in, <1>chain, <3>1, <3>3 DEF CanFail
    <3>5. c # i2
      BY <1>way, <1>in, <1>was, <3>1, <3>3 DEF CanFail
    <3> QED BY <2>0, <3>2, <3>4, <3>5
  <2>5. CASE CpClose(c)
    <3> DEFINE S == {Dst[c]}
    <3>1. /\ cpc[c] = "close" /\ Close(S) /\ cpc'[c] = "done"
          /\ \A d \in Copiers : d # c => cpc'[d] = cpc[d]
      BY <2>5 DEF CpClose, Basics, RelayType
    <3>2. S \in SUBSET Sockets /\ \A s \in Sockets : Still(s)
      BY <2>5, CopierFacts, CpCloseMoves
    <3>3. q'[Dst[c]] = <<>>
      BY <3>1, <3>2, CloseEffect DEF Basics
    <3>4. q[Dst[c]] = <<>>
      <4>1. CASE c = o1
        BY <1>way, <1>in, <1>chain, <3>1, <4>1 DEF Ending
      <4>2. CASE c = o2
        BY <1>way, <1>in, <1>chain, <3>1, <4>2 DEF Ending
      <4>3. CASE c = i1
        BY <1>way, <1>net, <1>out, <1>was, <1>empty, <3>2, <3>3, <4>3
      <4>4. CASE c = i2
        BY <1>way, <1>net, <1>out, <1>was, <1>empty, <3>2, <3>3, <4>4
      <4> QED BY <2>0, <4>1, <4>2, <4>3, <4>4
    <3>5. \A d \in Copiers : Dst[d] \in S => cpc'[d] = "done"
      BY <3>1 DEF Dst, Copiers
    <3>6. \A s \in S : q[s] = <<>>
      BY <3>4
    <3>7. \A d \in Copiers : cpc'[d] = cpc[d] \/ (cpc[d] = "close" /\ cpc'[d] = "done")
      BY <3>1
    <3> HIDE DEF S
    <3> QED BY <1>shuts, <3>1, <3>2, <3>5, <3>6, <3>7
  <2> QED BY <1>3, <2>1, <2>2, <2>3, <2>4, <2>5 DEF Cp
<1>4. ASSUME NEW e \in Ends, Send(e) \/ Receive(e) \/ SeeEnd(e) \/ Finish(e) \/ HangUp(e)
      PROVE  Goal
  <2>0. e \in {C, F} /\ cpc' = cpc
    BY <1>net, <1>4 DEF Ends, Send, Receive, SeeEnd, Finish, HangUp
  <2>1. CASE Send(e)
    <3>1. UNCHANGED <<closed, shut>> /\ ~shut[e]
      BY <2>1 DEF Send
    <3>2. Added(Peer[e]) /\ \A s \in Sockets : s # Peer[e] => Same(s)
      BY <2>1, SendMoves
    <3>3. CASE e = F
      BY <1>calm, <1>net, <2>0, <3>1, <3>2, <3>3
    <3>4. CASE e = C
      BY <1>calm, <1>net, <1>in, <2>0, <3>1, <3>2, <3>4
    <3> QED BY <2>0, <3>3, <3>4
  <2>2. CASE Receive(e)
    <3>1. UNCHANGED <<closed, shut>>
      BY <2>2 DEF Receive
    <3>2. \A s \in Sockets : Same(s) \/ Took(s)
      BY <2>2, ReceiveMoves
    <3> QED BY <1>calm, <1>net, <2>0, <3>1, <3>2
  <2>3. CASE SeeEnd(e) \/ Finish(e)
    <3>1. UNCHANGED <<q, closed>>
      BY <2>3 DEF SeeEnd, Finish, conn
    <3>2. \A s \in Sockets : Same(s)
      BY <2>3, <3>1, EndStill DEF Same
    <3> QED BY <1>calm, <1>net, <1>grow, <2>0, <3>1, <3>2 DEF Grows
  <2>4. CASE HangUp(e)
    <3> DEFINE S == {e}
    <3>1. Close(S) /\ S \in SUBSET Sockets /\ \A s \in Sockets : Still(s)
      BY <2>4, PeerFacts, EndStill DEF HangUp
    <3>2. shut'[e] /\ q'[e] = <<>>
      BY <3>1, CloseEffect DEF Basics
    <3>3. e = C
      BY <1>out, <2>0, <3>2
    <3>4. q[e] = <<>>
      BY <1>net, <1>out, <1>was, <1>empty, <3>1, <3>2, <3>3
    <3>5. \A d \in Copiers : Dst[d] \notin S
      BY CopierFacts
    <3>6. \A s \in S : q[s] = <<>>
      BY <3>4
    <3> HIDE DEF S
    <3> QED BY <1>shuts, <2>0, <3>1, <3>5, <3>6
  <2> QED BY <1>4, <2>1, <2>2, <2>3, <2>4
<1>5. CASE SessionBreaks
  BY <1>5, <1>out DEF SessionBreaks
<1> QED BY <1>1, <1>2, <1>3, <1>4, <1>5 DEF Next

(* The server's relay begins with the name it sent.                        *)
LEMMA LinkedBegins ==
  ASSUME Basics, Next, ~Linked, Linked'
  PROVE  SendName
<1> SUFFICES ASSUME ~SendName PROVE FALSE
  OBVIOUS
<1>0. "sUp" \in Copiers /\ "cUp" \in Copiers /\ "server" \in Sides /\ "client" \in Sides
  BY DEF Copiers, Sides
<1>1. CASE Server
  <2>1. cpc' = cpc /\ pc'["client"] = pc["client"]
    BY <1>0, <1>1 DEF Server, OpenStream, OpenFails, SendLen, SendFails, RelayEnds, Return, Goto,
                      Basics, RelayType
  <2> QED BY <2>1 DEF Linked
<1>2. CASE Client
  <2>1. pc["client"] # "end"
    BY <1>2 DEF Client, Accept, ReadLen, ReadName, ReadHeader, HeaderFails, Dial, RelayEnds
  <2>2. cpc' = cpc \/ cpc' = [c \in Copiers |-> IF c \in {"cUp", "cDown"} THEN "read" ELSE cpc[c]]
    BY <1>2 DEF Client, Accept, ReadLen, ReadName, ReadHeader, HeaderFails, Dial, RelayEnds,
                Relay, CpOf
  <2>3. cpc'["sUp"] = cpc["sUp"]
    BY <1>0, <2>2
  <2> QED BY <2>1, <2>3 DEF Linked
<1>3. ASSUME NEW c \in Copiers, Cp(c) PROVE FALSE
  <2>1. PICK l \in {"read", "write", "close", "done"} : cpc' = [cpc EXCEPT ![c] = l]
    BY <1>3 DEF Cp, CpRead, CpReadEnd, CpWrite, CpWriteFails, CpClose
  <2>2. cpc[c] # "off" /\ pc' = pc
    BY <1>3 DEF Cp, CpRead, CpReadEnd, CpWrite, CpWriteFails, CpClose
  <2>3. \A d \in Copiers : cpc[d] = "off" => cpc'[d] = "off"
    BY <2>1, <2>2 DEF Basics, RelayType
  <2> QED BY <1>0, <2>2, <2>3 DEF Linked
<1>4. ASSUME NEW e \in Ends, Send(e) \/ Receive(e) \/ SeeEnd(e) \/ Finish(e) \/ HangUp(e)
      PROVE  FALSE
  BY <1>4 DEF Linked, Send, Receive, SeeEnd, Finish, HangUp
<1>5. CASE SessionBreaks
  BY <1>5 DEF Linked, SessionBreaks
<1> QED BY <1>1, <1>2, <1>3, <1>4, <1>5 DEF Next

LEMMA HonestBegins ==
  ASSUME Basics, Links, Early, Next, SendName,
         NEW o1, NEW o2, NEW i1, NEW i2, Way(o1, o2, i1, i2), Sound(o1, o2)'
  PROVE  (Whole(i1, i2) /\ Order(o1, o2, i1, i2))'
<1>0. /\ {"sUp", "sDown", "cUp", "cDown"} = Copiers
      /\ {"user", "local", "sstream", "cstream", "remote", "target"} = Sockets
  BY DEF Copiers, Sockets, Streams, Ends
<1>1. /\ pc["server"] = "name" /\ pc'["client"] = pc["client"] /\ UNCHANGED <<closed, shut, up>>
      /\ cpc' = [c \in Copiers |-> IF c \in {"sUp", "sDown"} THEN "read" ELSE cpc[c]]
  BY DEF SendName, Relay, CpOf, Goto, Basics, RelayType, Sides
<1>2. cpc["sUp"] = "off" /\ cpc["sDown"] = "off" /\ ~closed["sstream"] /\ ~closed["local"]
  BY <1>1 DEF Basics, Starting
<1>3. cpc["cUp"] = "off" /\ cpc["cDown"] = "off"
  <2>1. Wr("cstream") = -1
    BY <1>1, <1>2 DEF Wr, NameTok
  <2>2. Rd("cstream") + Len(q["cstream"]) <= Wr("cstream")
    BY <1>0 DEF Links, Link
  <2>3. q["cstream"] \in Seq(Int) /\ Len(q["cstream"]) \in Nat /\ bytes["cUp"] \in Nat
    BY <1>0, LenProperties DEF Basics, RelayType
  <2>4. cpc["cUp"] # "off" => Rd("cstream") = bytes["cUp"]
    BY DEF Rd
  <2>5. cpc["cUp"] = "off"
    BY <2>1, <2>2, <2>3, <2>4
  <2> QED BY <2>5 DEF Basics, Starting
<1>4. /\ cpc'["sUp"] = "read" /\ cpc'["sDown"] = "read"
      /\ cpc'["cUp"] = "off" /\ cpc'["cDown"] = "off"
  BY <1>0, <1>1, <1>3
<1>5. pc["client"] # "end" /\ up'
  BY <1>1, <1>4 DEF Sound, Linked
<1>6. ~closed["remote"] /\ ~closed["target"] /\ ~closed["cstream"]
  BY <1>3, <1>5 DEF Basics, Starting
<1>7. \A c \in Copiers : ~closed'[Dst[c]] /\ cpc'[c] \notin Ending
  BY <1>0, <1>1, <1>2, <1>4, <1>6 DEF Dst, Ending
<1>8. Order(o1, o2, i1, i2)'
  <2>1. o1 \in Copiers /\ o2 \in Copiers /\ i1 \in Copiers /\ i2 \in Copiers
    BY WayFacts
  <2> QED BY <1>7, <2>1 DEF Order
<1>9. \A s \in Sockets : Flows(s)' => Intact(s)'
  <2>1. Links'
    BY LinksStep
  <2> QED BY <2>1 DEF Links, Link, Intact
<1>10. /\ Flows("remote")' /\ Flows("target")' /\ Flows("sstream")' /\ Flows("cstream")'
  BY <1>1, <1>2, <1>5, <1>6 DEF Flows, Broken, Peer, Streams
<1>11. CASE o1 = "sUp" /\ i1 = "cDown" /\ i2 = "sDown"
  <2>1. ~shut'["user"] /\ ~closed["user"]
    <3>1. ~shut'["user"]
      BY <1>11 DEF Sound, Src, Peer
    <3> QED BY <1>0, <1>1, <3>1 DEF Basics, Sockets1
  <2>2. Flows("user")'
    BY <1>1, <1>2, <2>1 DEF Flows, Broken, Peer, Streams
  <2>3. Intact("remote")' /\ Intact("sstream")' /\ Intact("user")'
    BY <1>0, <1>9, <1>10, <2>2
  <2> QED BY <1>8, <1>11, <2>3 DEF Whole, Src, Dst, Peer
<1>12. CASE o1 = "cDown" /\ i1 = "sUp" /\ i2 = "cUp"
  <2>1. Intact("local")
    BY <1>2 DEF Early
  <2>2. Same("local")
    BY <1>0, SendHeaderMoves
  <2>3. Intact("local")' /\ Intact("cstream")' /\ Intact("target")'
    BY <1>0, <1>9, <1>10, <2>1, <2>2, IntactKept
  <2> QED BY <1>8, <1>12, <2>3 DEF Whole, Src, Dst, Peer
<1> QED BY <1>11, <1>12 DEF Way

LEMMA HonestStep ==
  ASSUME Basics, Links, Early, Next,
         NEW o1, NEW o2, NEW i1, NEW i2, Way(o1, o2, i1, i2), Honest(o1, o2, i1, i2)
  PROVE  Honest(o1, o2, i1, i2)'
<1> SUFFICES ASSUME Sound(o1, o2)' PROVE (Whole(i1, i2) /\ Order(o1, o2, i1, i2))'
  BY DEF Honest
<1>1. Linked'
  BY DEF Sound
<1> QED BY <1>1, HonestGoesOn, HonestBegins, LinkedBegins
-----------------------------------------------------------------------------
HonestUser   == Honest("sUp", "cUp", "cDown", "sDown")
HonestTarget == Honest("cDown", "sDown", "sUp", "cUp")

RelayInv == Basics /\ Links /\ Early /\ HonestUser /\ HonestTarget

LEMMA RelayInit == Init => RelayInv
<1> SUFFICES ASSUME Init PROVE RelayInv
  OBVIOUS
<1>0. /\ {"sUp", "sDown", "cUp", "cDown"} = Copiers
      /\ {"user", "local", "sstream", "cstream", "remote", "target"} = Sockets
      /\ {"user", "target"} = Ends /\ {"server", "client"} = Sides
  BY DEF Copiers, Sockets, Streams, Ends, Sides
<1>1. /\ up = TRUE /\ pc["server"] = "open" /\ pc["client"] = "accept"
      /\ \A s \in Sockets : q[s] = <<>> /\ ~closed[s] /\ ~shut[s]
      /\ \A c \in Copiers : cpc[c] = "off" /\ bytes[c] = 0
      /\ \A e \in Ends : sent[e] = 0 /\ got[e] = 0 /\ ~eof[e]
  BY DEF Init
<1>2. pc \in [Sides -> Places]
  BY <1>0 DEF Init, Places
<1>3. RelayType
  BY <1>1, <1>2 DEF Init, RelayType
<1>4. Sockets1 /\ Copying
  BY <1>1 DEF Sockets1, Copying
<1>5. Starting
  BY <1>0, <1>1 DEF Starting
<1>6. \A s \in Sockets : Rd(s) \in Int /\ Wr(s) = Rd(s)
  BY <1>0, <1>1 DEF Rd, Wr, Passed, LenTok
<1>7. Links
  BY <1>1, <1>6 DEF Links, Link, Counts
<1>8. Early
  BY <1>0, <1>1, <1>6 DEF Early, Intact
<1>9. ~Linked
  BY <1>0, <1>1 DEF Linked
<1> QED BY <1>3, <1>4, <1>5, <1>7, <1>8, <1>9
        DEF RelayInv, Basics, HonestUser, HonestTarget, Honest, Sound

LEMMA RelayStutter == ASSUME RelayInv, UNCHANGED vars PROVE RelayInv'
<1> USE DEF vars
<1>1. Basics'
  BY DEF RelayInv, Basics, RelayType, Sockets1, Copying, Starting
<1>2. \A s \in Sockets : /\ Rd(s)' = Rd(s) /\ Wr(s)' = Wr(s) /\ (Flows(s)' <=> Flows(s))
                         /\ (Intact(s)' <=> Intact(s))
  BY DEF Rd, Wr, Passed, Flows, Broken, Intact
<1>3. Links'
  BY <1>2 DEF RelayInv, Links, Link, Counts
<1>4. Early'
  BY DEF RelayInv, Early, Intact, Rd, Wr
<1>5. ASSUME NEW o1, NEW o2, NEW i1, NEW i2, Way(o1, o2, i1, i2), Honest(o1, o2, i1, i2)
      PROVE  Honest(o1, o2, i1, i2)'
  <2>1. \A c \in {o1, o2, i1, i2} : Src[c] \in Sockets /\ Peer[Dst[c]] \in Sockets
    BY <1>5, WayFacts, CopierFacts, PeerFacts
  <2>2. (Whole(o1, o2)' <=> Whole(o1, o2)) /\ (Whole(i1, i2)' <=> Whole(i1, i2))
    BY <1>2, <2>1 DEF Whole
  <2>3. Linked' <=> Linked
    BY DEF Linked
  <2>4. Order(o1, o2, i1, i2)' <=> Order(o1, o2, i1, i2)
    BY DEF Order
  <2> QED BY <1>5, <2>2, <2>3, <2>4 DEF Honest, Sound
<1>6. HonestUser' /\ HonestTarget'
  BY <1>5 DEF RelayInv, HonestUser, HonestTarget, Way
<1> QED BY <1>1, <1>3, <1>4, <1>6 DEF RelayInv

(* The inductive invariant of the relay, for every window, every target    *)
(* and every number of pieces.                                             *)
THEOREM RelayInvariant == Spec => []RelayInv
<1>1. RelayInv /\ [Next]_vars => RelayInv'
  <2> SUFFICES ASSUME RelayInv, [Next]_vars PROVE RelayInv'
    OBVIOUS
  <2>1. CASE Next
    <3>1. Basics' /\ Links' /\ Early'
      BY <2>1, BasicsStep, LinksStep, EarlyStep DEF RelayInv
    <3>2. /\ Way("sUp", "cUp", "cDown", "sDown")
          /\ Way("cDown", "sDown", "sUp", "cUp")
      BY DEF Way
    <3>3. HonestUser' /\ HonestTarget'
      BY <2>1, <3>2, HonestStep DEF RelayInv, HonestUser, HonestTarget
    <3> QED BY <3>1, <3>3 DEF RelayInv
  <2> QED BY <2>1, RelayStutter
<1> QED BY <1>1, RelayInit, PTL DEF Spec
-----------------------------------------------------------------------------
(* Along a direction the positions fall, and the copier that reads the     *)
(* stream at the client runs only behind the server's.                     *)
LEMMA Chain ==
  ASSUME Basics, Links
  PROVE  /\ \A s \in Sockets : /\ Rd(s) \in Int /\ Wr(s) \in Int /\ Len(q[s]) \in Nat
                               /\ Rd(s) + Len(q[s]) <= Wr(s)
         /\ \A c \in Copiers : bytes[c] \in Nat /\ Passed(c) \in Int /\ Passed(c) <= bytes[c]
         /\ cpc["cUp"] # "off" => cpc["sUp"] # "off"
         /\ CountersBracket
<1>0. /\ {"sUp", "sDown", "cUp", "cDown"} = Copiers
      /\ {"user", "local", "sstream", "cstream", "remote", "target"} = Sockets
      /\ {"user", "target"} = Ends
  BY DEF Copiers, Sockets, Streams, Ends
<1>1. \A s \in Sockets : /\ Rd(s) \in Int /\ Wr(s) \in Int /\ Len(q[s]) \in Nat
                         /\ Rd(s) + Len(q[s]) <= Wr(s)
  BY AtInt, LenProperties DEF Basics, RelayType, Links, Link
<1>2. \A s \in Sockets : Rd(s) <= Wr(s)
  BY <1>1
<1>3. \A c \in Copiers : bytes[c] \in Nat /\ Passed(c) \in Int /\ Passed(c) <= bytes[c]
  BY DEF Basics, RelayType, Passed
<1>4. \A e \in Ends : got[e] \in Nat /\ sent[e] \in Nat
  BY DEF Basics, RelayType
<1>5. /\ Rd("target") = got["target"] /\ Wr("target") = Passed("cUp")
      /\ Rd("local") = bytes["sUp"] /\ Wr("local") = sent["user"]
  BY DEF Rd, Wr
<1>6. /\ Rd("user") = got["user"] /\ Wr("user") = Passed("sDown")
      /\ Rd("sstream") = bytes["sDown"] /\ Wr("sstream") = Passed("cDown")
      /\ Rd("remote") = bytes["cDown"] /\ Wr("remote") = sent["target"]
  BY DEF Rd, Wr
<1>7. cpc["cUp"] # "off" => /\ cpc["sUp"] # "off"
                            /\ Rd("cstream") = bytes["cUp"] /\ Wr("cstream") = Passed("sUp")
  <2> SUFFICES ASSUME cpc["cUp"] # "off"
               PROVE  /\ cpc["sUp"] # "off"
                      /\ Rd("cstream") = bytes["cUp"] /\ Wr("cstream") = Passed("sUp")
    OBVIOUS
  <2>1. Rd("cstream") = bytes["cUp"]
    BY DEF Rd
  <2>2. cpc["sUp"] = "off" => Wr("cstream") < 0
    BY DEF Wr, LenTok, NameTok
  <2>3. Rd("cstream") <= Wr("cstream") /\ bytes["cUp"] \in Nat /\ Wr("cstream") \in Int
    BY <1>0, <1>1, <1>2, <1>3
  <2>4. cpc["sUp"] # "off"
    BY <2>1, <2>2, <2>3
  <2> QED BY <2>1, <2>4 DEF Wr
<1>8. cpc["cUp"] = "off" => bytes["cUp"] = 0
  BY <1>0 DEF Basics, Copying
<1>9. bytes["cUp"] <= bytes["sUp"]
  <2>1. CASE cpc["cUp"] = "off"
    BY <1>0, <1>3, <1>8, <2>1
  <2>2. CASE cpc["cUp"] # "off"
    <3>1. bytes["cUp"] <= Passed("sUp") /\ Passed("sUp") <= bytes["sUp"]
      BY <1>0, <1>2, <1>3, <1>7, <2>2
    <3> QED BY <1>0, <1>3, <3>1
  <2> QED BY <2>1, <2>2
<1>10. got["target"] <= bytes["cUp"] /\ bytes["sUp"] <= sent["user"]
  BY <1>0, <1>2, <1>3, <1>4, <1>5
<1>11. /\ got["user"] <= bytes["sDown"] /\ bytes["sDown"] <= bytes["cDown"]
       /\ bytes["cDown"] <= sent["target"]
  BY <1>0, <1>2, <1>3, <1>4, <1>6
<1> QED BY <1>1, <1>3, <1>7, <1>9, <1>10, <1>11 DEF CountersBracket

(* The traffic counters of relay bracket what was delivered at every       *)
(* moment, whatever closes, resets or breaks: MeasuredReader counts each   *)
(* piece once, at the read.                                                *)
THEOREM CountersBracketAlways == Spec => []CountersBracket
<1>1. RelayInv => CountersBracket
  BY Chain DEF RelayInv
<1> QED BY <1>1, RelayInvariant, PTL
-----------------------------------------------------------------------------
(* Only an end's own steps touch what it sent, received or saw.            *)
LEMMA EndsStep ==
  ASSUME Next
  PROVE  \/ \E e \in Ends : Send(e) \/ Receive(e) \/ SeeEnd(e)
         \/ UNCHANGED ends
<1>1. CASE Server
  BY <1>1 DEF Server, OpenStream, OpenFails, SendLen, SendName, SendFails, RelayEnds
<1>2. CASE Client
  BY <1>2 DEF Client, Accept, ReadLen, ReadName, ReadHeader, HeaderFails, Dial, RelayEnds
<1>3. ASSUME NEW c \in Copiers, Cp(c) PROVE UNCHANGED ends
  BY <1>3 DEF Cp, CpRead, CpReadEnd, CpWrite, CpWriteFails, CpClose
<1>4. ASSUME NEW e \in Ends, Finish(e) \/ HangUp(e) PROVE UNCHANGED ends
  BY <1>4 DEF Finish, HangUp
<1>5. CASE SessionBreaks
  BY <1>5 DEF SessionBreaks
<1> QED BY <1>1, <1>2, <1>3, <1>4, <1>5 DEF Next

LEMMA SendIsSend ==
  ASSUME RelayInv, NEW e \in Ends, Send(e)
  PROVE  /\ sent'[e] \in Nat /\ sent'[e] > sent[e]
         /\ \A f \in Ends : f # e => sent'[f] = sent[f]
         /\ UNCHANGED <<got, out, eof>>
<1>1. sent \in [Ends -> Nat]
  BY DEF RelayInv, Basics, RelayType
<1> QED BY <1>1 DEF Send

(* What is received next is what was sent next.                            *)
LEMMA ReceiveIsDeliver ==
  ASSUME RelayInv, NEW e \in Ends, Receive(e)
  PROVE  /\ ~eof[e] /\ got'[e] \in Nat /\ got'[e] > got[e] /\ got'[e] <= sent[Other[e]]
         /\ out'[e] = [from |-> got[e], n |-> got'[e] - got[e]]
         /\ \A f \in Ends : f # e => got'[f] = got[f] /\ out'[f] = out[f]
         /\ UNCHANGED <<sent, eof>>
<1>0. /\ {"sUp", "sDown", "cUp", "cDown"} = Copiers
      /\ {"user", "target"} = Ends /\ e \in Sockets
  BY PeerFacts DEF Copiers, Ends
<1>1. /\ got \in [Ends -> Nat] /\ sent \in [Ends -> Nat] /\ out \in [Ends -> [from : Int, n : Nat]]
      /\ q[e] \in Seq(Int)
  BY <1>0 DEF RelayInv, Basics, RelayType
<1>2. /\ ~eof[e] /\ q[e] # <<>> /\ UNCHANGED <<sent, eof>>
      /\ got' = [got EXCEPT ![e] = @ + 1]
      /\ out' = [out EXCEPT ![e] = [from |-> Head(q[e]), n |-> 1]]
  BY DEF Receive, HasData
<1>3. Head(q[e]) = got[e] /\ got[e] + 1 <= Wr(e)
  <2>1. Rd(e) = got[e]
    BY EndAt
  <2>2. Rd(e) \in Int /\ Wr(e) \in Int /\ Link(q[e], Rd(e), Wr(e), Flows(e))
    BY <1>0, AtInt DEF RelayInv, Basics, Links
  <2> QED BY <1>1, <1>2, <2>1, <2>2, LinkTake
<1>4. Wr(e) \in Int /\ Wr(e) <= sent[Other[e]]
  <2>0. CountersBracket /\ \A c \in Copiers : bytes[c] \in Nat /\ Passed(c) \in Int /\ Passed(c) <= bytes[c]
    BY Chain DEF RelayInv
  <2>1. CASE e = "user"
    <3>1. Wr(e) = Passed("sDown") /\ Other[e] = "target"
      BY <2>1 DEF Wr, Other
    <3>2. /\ bytes["sDown"] \in Nat /\ bytes["cDown"] \in Nat /\ sent["target"] \in Nat
          /\ Passed("sDown") \in Int /\ Passed("sDown") <= bytes["sDown"]
      BY <1>0, <1>1, <2>0
    <3>3. Passed("sDown") <= sent["target"]
      BY <2>0, <3>2 DEF CountersBracket
    <3> QED BY <3>1, <3>2, <3>3
  <2>2. CASE e = "target"
    <3>1. Wr(e) = Passed("cUp") /\ Other[e] = "user"
      BY <2>2 DEF Wr, Other
    <3>2. /\ bytes["cUp"] \in Nat /\ bytes["sUp"] \in Nat /\ sent["user"] \in Nat
          /\ Passed("cUp") \in Int /\ Passed("cUp") <= bytes["cUp"]
      BY <1>0, <1>1, <2>0
    <3>3. Passed("cUp") <= sent["user"]
      BY <2>0, <3>2 DEF CountersBracket
    <3> QED BY <3>1, <3>2, <3>3
  <2> QED BY <1>0, <2>1, <2>2
<1>5. got'[e] = got[e] + 1 /\ \A f \in Ends : f # e => got'[f] = got[f] /\ out'[f] = out[f]
  BY <1>1, <1>2
<1>6. Other[e] \in Ends
  BY DEF Other, Ends
<1>7. got'[e] \in Nat /\ got'[e] > got[e] /\ got'[e] <= sent[Other[e]] /\ got'[e] - got[e] = 1
  BY <1>1, <1>3, <1>4, <1>5, <1>6
<1>8. out'[e] = [from |-> got[e], n |-> 1]
  BY <1>1, <1>2, <1>3
<1> QED BY <1>2, <1>5, <1>7, <1>8

LEMMA SeeEndIsEnd ==
  ASSUME RelayInv, NEW e \in Ends, SeeEnd(e)
  PROVE  /\ eof'[e] = TRUE /\ \A f \in Ends : f # e => eof'[f] = eof[f]
         /\ UNCHANGED <<sent, got, out>>
<1>1. eof \in [Ends -> BOOLEAN]
  BY DEF RelayInv, Basics, RelayType
<1> QED BY <1>1 DEF SeeEnd

LEMMA EndToEndStep ==
  ASSUME RelayInv, [Next]_vars
  PROVE  [Upward!Next]_(Upward!vars) /\ [Downward!Next]_(Downward!vars)
<1> USE DEF Upward!vars, Downward!vars
<1>0. {"user", "target"} = Ends /\ Other["user"] = "target" /\ Other["target"] = "user"
  BY DEF Ends, Other
<1>1. ASSUME NEW e \in Ends, Send(e)
      PROVE  [Upward!Next]_(Upward!vars) /\ [Downward!Next]_(Downward!vars)
  <2>1. CASE e = "user"
    <3>1. Upward!Send /\ UNCHANGED Downward!vars
      BY <1>0, <1>1, <2>1, SendIsSend DEF Upward!Send
    <3> QED BY <3>1 DEF Upward!Next
  <2>2. CASE e = "target"
    <3>1. Downward!Send /\ UNCHANGED Upward!vars
      BY <1>0, <1>1, <2>2, SendIsSend DEF Downward!Send
    <3> QED BY <3>1 DEF Downward!Next
  <2> QED BY <1>0, <2>1, <2>2
<1>2. ASSUME NEW e \in Ends, Receive(e)
      PROVE  [Upward!Next]_(Upward!vars) /\ [Downward!Next]_(Downward!vars)
  <2>1. CASE e = "target"
    <3>1. Upward!Deliver /\ UNCHANGED Downward!vars
      BY <1>0, <1>2, <2>1, ReceiveIsDeliver DEF Upward!Deliver
    <3> QED BY <3>1 DEF Upward!Next
  <2>2. CASE e = "user"
    <3>1. Downward!Deliver /\ UNCHANGED Upward!vars
      BY <1>0, <1>2, <2>2, ReceiveIsDeliver DEF Downward!Deliver
    <3> QED BY <3>1 DEF Downward!Next
  <2> QED BY <1>0, <2>1, <2>2
<1>3. ASSUME NEW e \in Ends, SeeEnd(e)
      PROVE  [Upward!Next]_(Upward!vars) /\ [Downward!Next]_(Downward!vars)
  <2>1. CASE e = "target"
    <3>1. Upward!End /\ UNCHANGED Downward!vars
      BY <1>0, <1>3, <2>1, SeeEndIsEnd, Zenon DEF Upward!End
    <3> QED BY <3>1 DEF Upward!Next
  <2>2. CASE e = "user"
    <3>1. Downward!End /\ UNCHANGED Upward!vars
      BY <1>0, <1>3, <2>2, SeeEndIsEnd, Zenon DEF Downward!End
    <3> QED BY <3>1 DEF Downward!Next
  <2> QED BY <1>0, <2>1, <2>2
<1>4. CASE UNCHANGED ends
  BY <1>4 DEF ends
<1>5. CASE UNCHANGED vars
  BY <1>5 DEF vars
<1> QED BY <1>1, <1>2, <1>3, <1>4, <1>5, EndsStep

(* Each direction through the two relays is a byte stream from end to end: *)
(* the target is handed what the user sent and the user what the target    *)
(* sent, in order, each piece once and without the header of sendTarget.   *)
THEOREM EndToEndHolds == Spec => EndToEnd
<1>1. Init => Upward!Init /\ Downward!Init
  BY DEF Init, Upward!Init, Downward!Init, Ends
<1>2. RelayInv /\ [Next]_vars => [Upward!Next]_(Upward!vars) /\ [Downward!Next]_(Downward!vars)
  BY EndToEndStep
<1> QED BY <1>1, <1>2, RelayInvariant, PTL DEF Spec, EndToEnd, Upward!Spec, Downward!Spec
-----------------------------------------------------------------------------
(* The argument of EofIsTrue in one direction.  What end e sent arrived    *)
(* whole, so that nothing behind it was lost; then the end of the stream   *)
(* that e saw goes back, socket by socket, to what the other end did.      *)
LEMMA EndSeen ==
  ASSUME RelayInv, NEW o1, NEW o2, NEW i1, NEW i2, Way(o1, o2, i1, i2),
         Honest(o1, o2, i1, i2), Linked, up, \A c \in Copiers : cpc[c] # "off",
         NEW e, NEW f, e = Peer[Src[o1]], f = Peer[Src[i1]],
         eof[e], ~shut[e], got[f] = sent[e]
  PROVE  shut[f] /\ got[e] = sent[f]
<1> DEFINE A == Src[o1]
           B == Src[o2]
           D == Src[i1]
           E == Src[i2]
<1>way. /\ o1 \in Copiers /\ o2 \in Copiers /\ i1 \in Copiers /\ i2 \in Copiers
        /\ Dst[i2] = A /\ Dst[o1] = E /\ Dst[i1] = B /\ Dst[o2] = D
        /\ Peer[B] = E /\ Peer[E] = B /\ e \in Ends /\ f \in Ends
        /\ A \in Sockets \ Ends /\ B \in Sockets /\ D \in Sockets /\ E \in Sockets
        /\ Peer[A] = e /\ Peer[e] = A /\ Peer[D] = f /\ Peer[f] = D
        /\ e \in Sockets /\ f \in Sockets
  <2>1. /\ o1 \in Copiers /\ o2 \in Copiers /\ i1 \in Copiers /\ i2 \in Copiers
        /\ Dst[i2] = A /\ Dst[o1] = E /\ Dst[i1] = B /\ Dst[o2] = D
        /\ Peer[B] = E /\ Peer[E] = B /\ e \in Ends /\ f \in Ends
    BY WayFacts
  <2>2. A \in Sockets \ Ends /\ B \in Sockets /\ D \in Sockets /\ E \in Sockets
    BY <2>1, CopierFacts
  <2>3. Peer[A] = e /\ Peer[e] = A /\ Peer[D] = f /\ Peer[f] = D
    BY <2>2, PeerFacts
  <2>4. e \in Sockets /\ f \in Sockets
    BY <2>1, PeerFacts
  <2> QED BY <2>1, <2>2, <2>3, <2>4
<1>chain. /\ \A s \in Sockets : /\ Rd(s) \in Int /\ Wr(s) \in Int /\ Len(q[s]) \in Nat
                                /\ Rd(s) + Len(q[s]) <= Wr(s)
          /\ \A c \in Copiers : bytes[c] \in Nat /\ Passed(c) \in Int /\ Passed(c) <= bytes[c]
  BY Chain DEF RelayInv
<1>at. /\ Rd(A) = bytes[o1] /\ Wr(A) = sent[e] /\ Rd(B) = bytes[o2] /\ Wr(B) = Passed(o1)
       /\ Rd(f) = got[f] /\ Wr(f) = Passed(o2)
       /\ Rd(D) = bytes[i1] /\ Wr(D) = sent[f] /\ Rd(E) = bytes[i2] /\ Wr(E) = Passed(i1)
       /\ Rd(e) = got[e] /\ Wr(e) = Passed(i2)
  BY <1>way, CopierAt, EndAt DEF RelayInv, Basics
<1>num. got[e] \in Nat /\ got[f] \in Nat /\ sent[e] \in Nat /\ sent[f] \in Nat
  BY <1>way DEF RelayInv, Basics, RelayType
<1> HIDE DEF A, B, D, E
<1>1. /\ Rd(A) + Len(q[A]) = Wr(A)
      /\ Rd(B) + Len(q[B]) = Wr(B)
      /\ Rd(f) + Len(q[f]) = Wr(f)
  <2>1. /\ bytes[o1] + Len(q[A]) <= sent[e] /\ bytes[o2] + Len(q[B]) <= Passed(o1)
        /\ got[f] + Len(q[f]) <= Passed(o2)
        /\ Len(q[A]) \in Nat /\ Len(q[B]) \in Nat /\ Len(q[f]) \in Nat
    BY <1>way, <1>chain, <1>at
  <2>2. /\ bytes[o1] \in Nat /\ Passed(o1) \in Int /\ Passed(o1) <= bytes[o1]
        /\ bytes[o2] \in Nat /\ Passed(o2) \in Int /\ Passed(o2) <= bytes[o2]
    BY <1>way, <1>chain
  <2>3. /\ bytes[o1] + Len(q[A]) = sent[e] /\ bytes[o2] + Len(q[B]) = Passed(o1)
        /\ got[f] + Len(q[f]) = Passed(o2)
    <3> DEFINE k == Len(q[A])
               m == Len(q[B])
               n == Len(q[f])
               p == Passed(o1)
               r == Passed(o2)
    <3>1. /\ k \in Nat /\ m \in Nat /\ n \in Nat /\ p \in Int /\ r \in Int
          /\ bytes[o1] + k <= sent[e] /\ p <= bytes[o1] /\ bytes[o2] + m <= p
          /\ r <= bytes[o2] /\ got[f] + n <= r /\ got[f] = sent[e]
      BY <2>1, <2>2
    <3> HIDE DEF k, m, n, p, r
    <3>2. bytes[o1] + k = sent[e] /\ bytes[o2] + m = p /\ got[f] + n = r
      BY <1>num, <2>2, <3>1
    <3> QED BY <3>2 DEF k, m, n, p, r
  <2> QED BY <1>at, <2>3
<1>2. Whole(o1, o2)
  BY <1>1, <1>way DEF Whole, Intact, A, B, D, E
<1>3. Whole(i1, i2) /\ Order(o1, o2, i1, i2)
  BY <1>2, <1>way DEF Honest, Sound, A
<1>4. closed[A] /\ q[e] = <<>>
  BY <1>way DEF RelayInv, Basics, Sockets1
<1>5. cpc[i2] = "done"
  BY <1>3, <1>4, <1>way DEF Order
<1>6. closed[B] /\ q[E] = <<>>
  BY <1>3, <1>5, <1>way DEF Order, Ending, E
<1>7. cpc[i1] = "done"
  BY <1>3, <1>6, <1>way DEF Order
<1>8. shut[f] /\ q[D] = <<>>
  BY <1>3, <1>7, <1>way DEF Order, Ending, D
<1>9. /\ Rd(D) + Len(q[D]) = Wr(D)
      /\ Rd(E) + Len(q[E]) = Wr(E)
      /\ Rd(e) + Len(q[e]) = Wr(e)
  BY <1>3, <1>way DEF Whole, Intact, A, D, E
<1>10. Passed(i1) = bytes[i1] /\ Passed(i2) = bytes[i2]
  BY <1>5, <1>7 DEF Passed
<1>11. Len(q[D]) = 0 /\ Len(q[E]) = 0 /\ Len(q[e]) = 0
  BY <1>4, <1>6, <1>8
<1>12. bytes[i1] = sent[f] /\ bytes[i2] = bytes[i1] /\ got[e] = bytes[i2]
  BY <1>at, <1>way, <1>chain, <1>num, <1>9, <1>10, <1>11
<1> QED BY <1>8, <1>12

(* While the session holds, an end that goes on and all of whose data      *)
(* arrived is told the end of the stream only when the other one has       *)
(* finished, and after all it sent: cp closes its destination, and that    *)
(* only, when its source has ended.                                        *)
THEOREM EofIsTrueAlways == Spec => []EofIsTrue
<1>1. RelayInv => EofIsTrue
  <2> SUFFICES ASSUME RelayInv, NEW e \in Ends,
                      eof[e], up, ~shut[e], got[Other[e]] = sent[e], cpc["cUp"] # "off"
               PROVE  shut[Other[e]] /\ got[e] = sent[Other[e]]
    BY DEF EofIsTrue
  <2>1. Linked /\ \A c \in Copiers : cpc[c] # "off"
    <3>1. cpc["sUp"] # "off"
      BY Chain DEF RelayInv
    <3>2. cpc["sDown"] # "off" /\ cpc["cDown"] # "off"
      BY <3>1 DEF RelayInv, Basics, Starting
    <3> QED BY <3>1, <3>2 DEF Linked, Copiers
  <2>2. CASE e = "user"
    <3>1. /\ Way("sUp", "cUp", "cDown", "sDown") /\ Honest("sUp", "cUp", "cDown", "sDown")
          /\ e = Peer[Src["sUp"]] /\ Other[e] = Peer[Src["cDown"]]
      BY <2>2 DEF Way, RelayInv, HonestUser, Peer, Src, Other
    <3> QED BY <2>1, <3>1, EndSeen
  <2>3. CASE e = "target"
    <3>1. /\ Way("cDown", "sDown", "sUp", "cUp") /\ Honest("cDown", "sDown", "sUp", "cUp")
          /\ e = Peer[Src["cDown"]] /\ Other[e] = Peer[Src["sUp"]]
      BY <2>3 DEF Way, RelayInv, HonestTarget, Peer, Src, Other
    <3> QED BY <2>1, <3>1, EndSeen
  <2> QED BY <2>2, <2>3 DEF Ends
<1> QED BY <1>1, RelayInvariant, PTL
=============================================================================
