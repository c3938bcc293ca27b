# A TLA+ model of TunnelR (PicoTun)

TunnelR carries TCP and UDP through a pool of multiplexed, encrypted
connections. A *client* dials a *server* over HTTP or TLS, both sides put an
`EncryptedConn` and a smux session on the connection, and either side opens
streams: the server for what arrives at its reverse listeners, the client for
its DNS proxy. These modules model the parts of the Go code in which several
goroutines, failures or number ranges meet. Every definition is translated from
the code; `PROJECT.json` maps each one to its lines.

## Inventory

| component | state | operations | hard because |
|---|---|---|---|
| server session registry (`server.go`) | `sessions`, `sessionCreated`, `sessMu`, gauge `ActiveSessions` | `upgrade`, `setSession`, `clearSession`, `openStream`, `cleanupSessions` | handlers, reverse connections, cleanup and smux run concurrently; the gauge is changed inside and outside the lock; load and idleness are checked before they are acted on |
| reverse TCP (`server.go`) | listener, one stream per connection | `startReverseTCP`, `handleReverseTCP`, `sendTarget` | one retry when no session is there; the header shares the stream with the data |
| reverse UDP (`server.go`) | `peers` with `lastSeen` and a stream each | `startReverseUDP`, its cleanup | the stream is used after the lock is left; a dead stream's peer stays |
| stream handlers, relay (`server.go`, `client.go`) | two copying goroutines per side, counters | `handleForwardStream`, `handleReverseStream`, `relay` | half-closed connections, waiting for both directions, a session that breaks in between |
| client pool (`client.go`) | `sessions`, one worker per connection | `poolWorker`, `connectAndServe`, `addSession`, `removeSession`, `Start` | failures at every stage, shutdown while waiting for the peer |
| warm standby (`client.go`) | channel of capacity 1 | `standbyManager`, `dialSession` | a session changes hands; it may die while it waits |
| health check (`client.go`) | tickers | `sessionHealthCheck` | removes and closes sessions others hold |
| path choice (`client.go`) | `pathLatency`, `frameLevel`, per worker `pathIdx`, `failCount` | `latencyProber`, `bestPath`, `adjustFrameLevel` | all workers share the level; the worker must get off a blocked path |
| `OpenStream` (`client.go`) | `sessIdx` | round robin over a copy of the pool | callers share the counter, the copy goes stale |
| `EncryptedConn` (`encrypted_conn.go`) | `readBuf`, pooled buffers | `Write`, `Read`, padding | 16-bit lengths, fixed buffers, partial reads |
| handshake, `bufferedConn` (`mimic.go`), request validation and decoy (`server.go`) | pooled readers, read-ahead on both sides | `ClientHandshake`, `validate`, `writeDecoy`, hijacking, `Read`, `Close` | tunnel data may arrive with the response; no deadline; Close races with Read |
| compression, TLS fragmentation | codec state; first-write flag | `Write`, `Read` | thin wrappers |
| DNS proxy (`dns.go`) | cache with expiry | `handleQuery`, `Get`, `Set`, `Cleanup` | queries race for the cache; the pool and the answer may never come |
| configuration (`config.go`) | the `Config` record | defaults, profiles, aliases, `Validate` | the order in which they override each other |
| statistics, dashboard, command line, installer | counters, HTTP pages | | input and output |

What makes each correct: the registry keeps every live session reachable and
its gauge true; the pool gives each session one holder, loses none alive, lets
dead ones go and stops when it is told to; the path choice gets a worker to a
path that works; `OpenStream` finds a healthy session if there is one; the
connection delivers the bytes that were written, in order, and the handshake
before it takes nothing of the tunnel; a relayed connection is a byte stream from
end to end, ends on both sides and leaves nothing behind; a UDP peer has one
stream, which is closed when the peer falls silent; the DNS proxy answers each
query at most with a fresh answer of its own, and lets none wait for ever; the
configuration that is accepted is one the other parts can run with.

## Modules

| module | models |
|---|---|
| `ServerSessions` | the server's session registry |
| `ClientPool` | the client's workers, standby manager, health check and shutdown |
| `ByteStream` | what a `net.Conn` promises: the abstract specification |
| `EncryptedConn` | one direction of an encrypted connection; implements `ByteStream` |
| `PathFailover` | latency prober, choice of path, shared frame level |
| `ClientOpenStream` | `OpenStream`'s round robin |
| `DnsProxy` | the DNS proxy and its cache, composed with `ClientOpenStream` |
| `StreamRelay` | one connection through both relays; implements `ByteStream` in each direction |
| `ReverseUDP` | the reverse UDP listener, its peers and their cleanup |
| `Handshake` | the fake HTTP exchange, read-ahead, and `bufferedConn` |
| `ConfigLoad` | `LoadConfig` step by step, what smux and the TLS fragmentation make of it |
| `MCZombieIdle` | the registry with a history variable for idle time |
| `MCConfigLoad` | the configuration files TLC loads |
| `...Proofs` | theorems and proofs about the module they extend; `ConfigPathProofs` is about `PathFailover` and `ConfigLoad` |

A definition marked "Variant for the mutation checks" is a plausible bug in the
definition that follows it; no specification uses it. `PROJECT.json` names, for
each property, the variant that breaks it.

### ServerSessions

A handler and its smux session share an identifier. `sessMu` is not a variable:
`Readers` and `cPc` say who holds it. A section under the write lock without
I/O is one action (`SetSession`, `ClearSession`); the cleanup loop is one action
per entry, because smux changes sessions meanwhile, and `openStream` takes a
step for the check and another for the call. What `setSession` does after the
unlock takes three steps. A session is open, *silent* (the peer is gone, writes
still succeed), *broken* (reads fail, `IsClosed()` is false) or closed. Streams
are counted per direction. Keys are chosen arbitrarily at the start, so that
sessions may share one: the map is keyed by remote address, and a connection
can come back under an address whose old session still exists. Ages saturate
past the only threshold they are compared with.

### ClientPool

A worker's program counter follows `poolWorker` and `connectAndServe`. The pool
is a set, as nothing depends on its order here. A session's identity is used
again after it is closed and nobody refers to it (`Collect`), so runs are not
bounded by the number of sessions. `watched` are the sessions for which
`connectAndServe` left a goroutine waiting for the context. A failed mimicry
handshake sets `crashed`: the code calls `Close` on a nil connection. Taking a
session out of the pool and closing it are two steps (`RemoveSession`,
`CloseRemoved`), as in the code. The channel is a variable of its own: what lies
in it has left the manager's hands whether or not a worker takes it. Dialling is
split where the code's waiting changes: the TCP connect has a timeout, the
TLS and the mimicry handshake have none.

### EncryptedConn

A byte is its offset in the stream; a packet carries an offset, a length and the
length of its frame. Lengths keep the code's widths: the header in the padding is
taken modulo 2^16, and so is the sum used to slice. Slicing out of range is the
state "panic". `Within` tells the slices for which all conversions are exact: with
padding below 65534 bytes, and with padding and overhead no longer than the
pooled buffer. Nothing restricts `Write` to them, as nothing in the code does:
`Validate` admits an `smux.frame_size` of 65535 and any `max_padding`. The history
variable `exact` is the length of what was written before the first slice beyond
the limits, and the properties say what holds up to there. Encryption adds its
overhead and is otherwise transparent; a failing link cuts the packets in flight
after some prefix.

### PathFailover and ClientOpenStream

A session is reduced to how long it lasted, which is all the choice of path
depends on. `adjustFrameLevel` takes a step for the load and one for the
compare-and-swap. `bestPath` takes a step per latency (`LoadRtt`), with its loop
variables in `scan`, while the prober stores and other workers scan; the history
variable `seen` holds what a scan has loaded. A worker calls it at its start
(`first`) and when it gives up its path (`scan`). In `ClientOpenStream` advancing the counter and
trying the session are separate steps. The counter
is kept modulo `IdxMod`, a multiple of every pool size: only its remainders are
used.

### DnsProxy

`DnsProxy` extends `ClientOpenStream`: its handlers are the callers of
`OpenStream`, and the pool changes under them. A query is a question (the cache
key: the datagram without its first two bytes) and a transaction id; an answer
carries both and the time since the upstream server gave it. `cache` holds an
answer and the time since `Set`. Finding an entry and replying from it is one
step, reading an answer, storing and sending it another: nothing shared is
touched between `Set` and the send, and nothing but the clock can change what a
hit replies. `Tick` is the clock; a handler whose deadline passed acts
within a tick, and an answer that is there then may win or lose against the
deadline, as in smux's `select`. The last reply is kept until the clock moves,
for the invariants to look at.

### StreamRelay

Three links, each a pair of sockets: the user and the server's `local`, the two
ends of the smux stream, the client's `remote` and the target. A link holds
`Window` pieces per direction; a Write waits for room, a Read returns what is
there, the end when the other side sends no more, or fails. A closed socket may
cut what its peer has not read (a reset), and the session may break at any time,
losing what is under way from some point on. The two Writes of `sendTarget` are
two tokens, so the header and the data meet on the stream as they do in the
code; a length out of range ends the handler. The client accepts only a stream
that the server's `OpenStream` made (`Opened`). A piece of data is its offset, and
each direction is compared with `ByteStream`. `handleForwardStream` is
`handleReverseStream` with the sides exchanged, so its direction is the same
module read from the other end. `MeasuredReader` counts at the read.

### ReverseUDP

The listener's program counter names the calls that can fail or wait between
`ReadFromUDP` and `stream.Write`. `mu` is held by the listener from `Lock` to
the Unlock; the cleanup's section has no I/O and is one action, but it works with
the time of its tick: `lag` is how long ago that was when it gets the lock. Times
are ages, saturated above every comparison. A stream is open, *dead* (nothing
carries it any more, Writes and Reads fail) or closed, and may be *stalled*
(window full). `waited` is a history variable: how long the listener has been
between the Unlock and the end of its Write.

### Handshake

A byte sequence in each direction holds the request, the head of the response,
a page and numbered tunnel frames. The client's reader takes any prefix of what
has arrived, up to its size; the HTTP server has read the request and any number
of bytes beyond it when it is hijacked. The request is for the tunnel, for `/`
(answered by the decoy with 200) or for another page (404): this is all that the
headers and `validate` decide. In the tunnel, too, a Read that finds the buffer
empty fills it with what has arrived and returns the first of it. `Close` takes three steps, as nothing keeps the
receive loop from running between them.

### ConfigLoad

A file is a record of the settings the properties tell apart; a missing setting
is 0, empty or FALSE, as `yaml.Unmarshal` leaves it. Each function of `LoadConfig`
is an operator and a step. The loops over the paths and the maps are a function
on the sequence and a recursive function (`Listed`). Minimum and maximum of padding or delay that are
always treated alike are one field, and settings that only end up in a header
line or a socket option are left out. A path has its own transport, which goes
before that of the file when the dialer is chosen (`DialTransport`). After loading,
a client with a TLS path writes a ClientHello of some length (`FirstWrite`), which
`fragmentCfg` has cut or not: it looks only at the file.

## Runs

| run | shows | bounds |
|---|---|---|
| `server_registry` | gauge, no orphan, overload bound, cleanup against `openStream`, dead sessions leave | two sessions under one address, two callers, limit 0 |
| `server_zombie` | **violation**: the zombie check tests age, not idleness | |
| `client_pool` | one holder, no leak but the standby left in the channel, pool is what is served, shutdown | two workers, two identities of sessions (used again), recycling after one tick |
| `client_crash` | **violation**: a failed handshake ends the process | |
| `conn_stream` | `EncryptedConn` implements `ByteStream` up to the first slice beyond its limits, drains, no slice within them is lost to a conversion | slices of 32776 bytes (a full frame of a client), 65533 (the largest the header carries), 65534 and 65543 (beyond it, the last a frame of 65535 with its header), paddings with which the largest just fit the buffer and just do not, up to 200000 bytes |
| `path_failover` | best path, frame level, a blocked path is left | two paths, two workers, three levels, two latencies and not measured, failover after one failure |
| `dns_proxy` | replies match and are fresh, every query ends | two handlers and ids, one question and session; TTL and deadline of one tick |
| `stream_relay` | `ByteStream` in both directions, true ends, counters, both relays return | window 1, two pieces per direction, a valid and a too long target |
| `reverse_udp` | streams are owned, no write to a stream closed meanwhile, the listener comes back, silent peers leave | two senders and two identities of streams (used again), timeout 0, cleanup late by up to one tick |
| `handshake` | nothing of the tunnel is lost, repeated or invented by read-ahead; it arrives | three frames per direction, a reader of size 3 |
| `conn_close` | **violation**: a Read after Close dereferences nil | |
| `load_config` | accepted settings can be run with, and the sides agree | 4,341 files around the limits of the profiles, peers with six keepalive intervals |

The code's limits (200 streams, 3 minutes, 20 minutes, 120 seconds for a UDP
peer, three short sessions, the DNS proxy's 60 and 5 seconds) are constants set
to 0 or 1, so that a run crosses them; comparisons are the code's. Bounds that
only keep the model finite are `MaxForward`, `MaxBytes`, `MaxSent`, `MaxFrames`
and `MaxLag`. Two sessions under one address are the case in which the registry's
handlers meet, and two callers past the overload check at once are what
`LoadBound` is about; more of them is what `ServerSessionsProofs` shows. Two paths
and two scanning workers already interleave every load with a store; with three
the liveness check is too large, and `ConfigPathProofs` covers any number. Two pieces and a window of one make every copier
wait for both its neighbours. Questions meet only in the pool, so `dns_proxy` has
one; `DnsProxyProofs` covers any number. Deadlock is not checked where the
program may stop: after a shutdown, a crash or a bound, when a connection has
ended or a file is loaded, and in `DnsProxy`, whose callers may have nothing left
to ask. No run uses symmetry, as most check liveness.

What some properties say about the code, and what they leave out:

- `EofIsTrue` is about an end that has not finished and whose data all arrived.
  `relay` closes a socket as soon as the other direction ends, so a half-closed
  connection may lose what was still coming; that is what the code does.
- `FreshWrite` allows for a Write that waits longer than the timeout: then the
  cleanup does close the stream under it, and `ListenerReturns` needs it to.
- `SilentPeerLeaves` speaks of senders that stopped. A peer whose stream died and
  that keeps sending keeps its entry and is never served again.
- `DownKept` leaves out a client that asks for `/`: it takes the decoy's 200 for
  success and reads the page as tunnel data, until the server answers 400.
- `NoLeak` excepts one session: the standby that lies in the channel when the
  context has ended. The channel has room for one, so the manager's send does not
  wait for a worker, and once the workers have returned nobody closes it.
- `NoConversionFails`, `IsByteStream` and `Drains` speak of what was written
  before the first slice beyond the limits. What becomes of that slice is in the
  model: the reader panics, or gets it cut, or the writer panics.
- `BestIsLowest` is about the latencies a scan loaded. They are of different
  moments, so the choice need not be the lowest of any one moment.
- `ProfileKeepsSmux` is about files whose own numbers, completed by the defaults,
  smux would take: `Validate` checks none of them. `PairAlive` is about two sides
  that each have their own profile and interval, below 30 seconds, as nothing
  bounds the interval from above.
- `HelloSplit` excepts a TLS path in a file whose own transport is not a TLS one
  and which does not ask for fragments: its ClientHello leaves whole.
- `SidesAgree` compares the two sides of one set of settings. Different profiles
  do not agree (`aggressive` turns on padding and compression), and the
  handshake does not notice.
- `BlockedPathIsLeft`: a worker whose sessions keep being short comes off its
  path. It does not try all of them, see below.

### Fairness

- `ServerSessions`: a goroutine that can go on does (weak fairness); a handler
  waiting for the write lock gets it, and while one waits no new reader enters
  (`WaitsForLock`: this is how Go's `RWMutex` keeps readers from starving a
  writer); smux's keepalive closes a session from which nothing arrives;
  `OpenStream` returns within smux's timeout. No fairness for the peer, for
  failures or for the ticker of the cleanup.
- `ClientPool`: workers, manager and the goroutines on `ctx.Done()` go on when
  they do not wait for the peer. None for the TLS and mimicry handshakes or
  `AcceptStream`. `HealthStop` is strongly fair: `select` picks among ready
  cases at random.
- `EncryptedConn`: the reader (smux's receive loop) reads again.
- `PathFailover`: a worker whose session ended goes on, and does not lose the
  compare-and-swap for ever (strong fairness of `SwapDone`: the others change
  the level once per session, the loser retries at once). Its sessions' outcomes
  and the prober are unconstrained.
- `StreamRelay`: handlers and copiers go on, and an end that is connected reads
  what arrives. No end has to send, finish or hang up, and the session need not
  break.
- `ReverseUDP`: listener, cleanup and readers go on, the mutex starves nobody
  (Go's starvation mode), the ticker ticks and time passes. A full window may
  stay full.
- `Handshake`: both sides go on while they can; nobody has to close or send.
- `DnsProxy`: a handler that can go on does, and time passes; smux bounds every
  wait in `OpenStream` by its own timeout. No fairness for the upstream server,
  for the pool or for `Cleanup`.

## Proofs

For all values of the constants allowed by the named assumptions:

- `ServerSessionsProofs`: `TypeOK`, `NoOrphan`, `ZombieCarriesNoReverse`,
  `GaugeMatchesMap`, `LoadBound`. None but the first is inductive alone.
  `StructInv` adds `LockDiscipline` (while the cleanup runs there are no readers
  and what it has to visit is in the map), `Registered` (an entry's session has
  that key and a handler that registered it) and `HandlerInv` (who is between
  the steps of `setSession` replaced something). The gauge follows by counting:
  each action changes the map and the two sets of halfway handlers by at most
  one element. The load bound counts streams plus callers past the check.
- `ClientPoolProofs`: `TypeOK`, `OneHolder`, `NoLeak`, `PoolIsServed`. The
  invariant `PoolInv` adds `Holding` (a goroutine holds a session exactly in the
  states in which the code has one in a variable), `UnusedIsFree` and `Kept` (a
  live session is somebody's or the channel's); that a worker is left to empty the
  channel until the context ends makes it `NoLeak`.
- `EncryptedConnProofs`: `NoConversionFails` and `Spec => IsByteStream`, for slices,
  paddings and buffers of any size: nothing is assumed about what is written.
  `ConnInv` says that leftover and packets on the wire form a chain of adjacent
  intervals starting at `got`, each packet that lies before `exact` being within the
  limits; `RoundTrip` is the arithmetic of the two conversions for such a packet.
  `ClientStream` draws the conclusion for a client without compression, whose
  frames have at most 32 KB and 8 bytes: with the code's numbers and at most 65535
  bytes of padding all its slices are within the limits, and its connection
  implements all of `ByteStream`.
- `ConfigPathProofs`, `PathFailover`: the frame level is always an index of
  `frameSizes`, and moves by one at a time (`LevelMovesByOne`). `BestIsLowest` holds
  for any number of paths and workers and all latencies, whatever the prober stores
  in between: `ScanInv` says that after each load the scan holds the fastest path of
  those it has loaded (`Fastest`), and `RoundKeepsFastest` is one round of the loop.
  With more than one path, a worker that gives up its path takes another
  (`SwitchLeavesPath`), the part of `BlockedPathIsLeft` that needs no fairness.
- `ConfigPathProofs`, `ConfigLoad`: `Runnable`, `ProfileKeepsSmux`, `PairAlive`,
  `DelayOff`, `SidesAgree` and `HelloSplit`, for every file and every length of a
  ClientHello, and `PairAlive` for every interval of the peer; TLC has 4,341 files.
  `ConfigInv` gives the configuration of each
  stage from the file, so that an accepted one is `LoadConfig(file)` and valid. For
  each step a lemma says field by field what it sets and keeps (`NamesKeeps`,
  `BaseSets`, ..., `AliasesSets`); `Chain` strings these together, and the `Load...`
  lemmas follow one group of settings along it. The listeners of the maps are the
  loop of `mapDaggerToLegacy`, a recursive function: a round that broke what
  `ListedHas` says could be taken to be the first one (`NatMin`: a non-empty set of
  naturals has a least element, from the well-foundedness of `<`).
- `DnsProxyProofs`: `DTypeOK`, `ReplyMatches`, `ReplyFresh`, for any number of
  handlers, questions, ids and sessions and every TTL and deadline. The
  invariant `DInv` says where an answer is on its way: in a stream it fits the
  handler's query and is no older than the transaction (`HandlerInv`), in the
  cache it fits its key and has aged by its time there (`CacheInv`).
- `ReverseUDPProofs`: `UdpTypeOK`, `StreamsOwned`, `FreshWrite`, for any number
  of senders and streams, every timeout and every lag of the cleanup. The
  invariant `Inv` adds `HandInv` (what the listener has in hand in each of its
  states: a fresh stream nobody owns, or its peer's) and `WriteInv` (while it
  writes within the timeout, the stream is still its peer's and the peer's
  `lastSeen` is no older than the time it has been writing): the cleanup, whose
  tick is older still, then cannot find the peer stale.
- `HandshakeProofs`: `UpKept` and `DownKept`, for every reader size and number of
  frames. `HSInv` says what the sequences in both directions, the client's reader
  and the frames read consist of in each pair of states of the two sides: before
  the tunnel a request, a head and possibly frames behind it, in the tunnel only
  frames. This is stated by position (`From(s, p)`: `s` holds what is written from
  position `p` on), so that taking a prefix or appending a frame is arithmetic.
- `StreamRelayProofs`: `CountersBracket`, the refinement `Spec => EndToEnd` of
  `ByteStream` in both directions, and `EofIsTrue`, for every window, number of
  pieces and length of the target. `RelayInv` consists of `Basics` (types, and how
  the states of handlers and copiers fit each other and the closed sockets),
  `Links` (a link holds consecutive pieces between what its writer has put and its
  reader has taken, all of them while nothing cut it), `Early` (before the server
  relays, all the user sent is waiting) and `HonestUser`, `HonestTarget` (as long as
  an end goes on and nothing of its data was lost, nothing sent to it is lost
  either, and the copiers on its way end one after the other). The counters and
  the refinement follow from `Links` along the chain of queues and buffers; a true
  end needs the last two, as a copier's closes end the other direction too.

Only model-checked: the liveness properties (`DeadSessionLeaves`,
`ShutdownReachesAll`, `Drains`, `QueryEnds`, `BlockedPathIsLeft`,
`RelayReturns`, `ListenerReturns`, `SilentPeerLeaves`, `DownArrives`), which need
fairness. Every invariant, action property and refinement that a run checks is
also proved.

## Findings

Three runs show a disagreement between the code and what it says of itself;
`PROJECT.json` quotes the lines: the zombie check measures age; a failed
handshake dereferences nil; so does a Read after `bufferedConn.Close`.

Seen while modelling, without a run of their own:

- a worker that serves a promoted standby stays in `AcceptStream` after the
  context ended (`client.go:204`), which is why `ShutdownReachesAll` names that
  wait as an exception;
- the comment at `client.go:529` says "Block until someone consumes the standby OR
  context dies", but the channel is buffered (`client.go:77`): the send returns at
  once, a second standby is dialled behind the first, and at shutdown the one in
  the channel is left open;
- a slice of 65534 or 65535 bytes makes the reader panic and a longer one arrives
  cut (`encrypted_conn.go:255`, `282`); a packet longer than the pooled buffer makes
  the writer panic. A client's frames stay below that (`ClientStream`), a server
  with `smux.frame_size` near 65535 or a very large `max_padding` does not;
- a path whose own transport is `httpsmux` or `wssmux`, in a file whose transport is
  another and which does not enable fragments, sends its ClientHello in one piece:
  `fragmentCfg` looks at the file's transport only (`client.go:830`), while the
  comment at `client.go:805` says "the first Write (ClientHello) will be
  automatically split into fragments";
- with three paths a worker may alternate between the best one and its successor
  and never try the third (`client.go:252`);
- two concurrent `OpenStream` calls can each skip the one healthy session
  (`client.go:704`);
- `tls_fragment_linux.go:71` closes a descriptor a second time when `FileConn`
  fails, and `CompressedConn.Close` does not exclude a Write.

## Not modelled, and the plan

Left out for good: the dashboard (HTTP handlers that read the statistics, files
and `/proc` and call `systemctl`), the command line, the installer, raw socket
options and the raw dial, the snappy codec and the cryptography, header wording.
These are libraries, system calls, or input and output without state of their own.
`Start` of the server is the HTTP library's; its listeners are modelled.

What is left to do: a larger composition, the pool and the registry with streams,
to state what recycling does to live downloads. The product of the two modules is
beyond TLC at sizes at which both do something interesting. And more steps of
liveness arguments, of the kind of `SwitchLeavesPath`: action properties that hold
without fairness and on which `RelayReturns` or `QueryEnds` rest.
