----------------------------- MODULE ConfigLoad -----------------------------
(***************************************************************************)
(* LoadConfig: the settings of the file pass through the base defaults,    *)
(* the profile, the conversion of maps, the aliases and Validate, each of  *)
(* which overrides what the ones before left.  What the program then makes *)
(* of them follows: the configuration of smux, what is put on the wire,    *)
(* and the pieces in which the TLS ClientHello is sent.                    *)
(*                                                                         *)
(* A setting that is not in the file is 0, "" or FALSE, as in the code.    *)
(* Text that is only passed on is left out; an address is given or not.    *)
(***************************************************************************)
EXTENDS Integers, Sequences

CONSTANTS
    Files,      \* the files that may be read
    PeerKeeps,  \* keepalive intervals the other side's file may have
    Hellos      \* lengths a ClientHello may have

Profiles   == {"", "balanced", "aggressive", "stable", "latency", "gaming"}
Transports == {"", "tcpmux", "httpmux", "httpsmux", "wsmux", "wssmux", "quic"}
MapTypes   == {"tcp", "udp", "both"}

Path == [transport : Transports, addr : BOOLEAN, pool : Int, retry : Int, dial : Int]

File == [mode : {"server", "client", "proxy"}, transport : Transports, profile : Profiles,
         listen : BOOLEAN, url : BOOLEAN, paths : Seq(Path),
         keep : Int, recv : Int, stream : Int, frame : Int, ver : Int,
         obf : BOOLEAN, delay : Int, maxPad : Int,               \* obfuscation:
         obfs : BOOLEAN, obfsDelay : Int, obfsPad : Int,         \* obfs:
         comp : {"", "none", "snappy", "zip"},
         frag : BOOLEAN, fragMin : Int, fragMax : Int,
         maps : Seq(MapTypes), tcp : Seq(Int), udp : Seq(Int)]

ASSUME ConfigAssumption ==
    Files \subseteq File /\ PeerKeeps \subseteq Int /\ Hellos \subseteq Nat \ {0}

VARIABLES
    file,   \* what was read
    cfg,    \* the Config being completed
    stage,  \* the next step of LoadConfig, or "ok" or "error"
    pieces  \* lengths of the writes of the ClientHello

configVars == <<file, cfg, stage, pieces>>

ConfigInit ==
    /\ file \in Files
    /\ cfg = file
    /\ stage = "names"
    /\ pieces = <<>>
-----------------------------------------------------------------------------
Default(v, d) == IF v <= 0 THEN d ELSE v
AtLeast(v, d) == IF v < d THEN d ELSE v
Capped(v, d)  == IF v <= 0 \/ v > d THEN d ELSE v

MB == 1048576

IsTLS(t) == t \in {"httpsmux", "wssmux"}

(* The listening address a server gets when it has none.                   *)
Names(c) == [c EXCEPT !.listen = @ \/ c.mode = "server"]

applyBaseDefaults(c) ==
    [c EXCEPT
        !.profile = IF @ = "" THEN "balanced" ELSE @,
        !.keep = Default(@, 10),
        !.recv = Default(@, 8 * MB), !.stream = Default(@, 8 * MB),
        !.frame = Default(@, 32768), !.ver = Default(@, 2),
        !.maxPad = Default(@, 32),
        !.fragMin = Default(@, 64), !.fragMax = Default(@, 191),
        !.frag = @ \/ IsTLS(c.transport)]

(* Variant for the mutation checks: the pause is not filled in.            *)
PathDefaultsNoRetry(p, pool, retry) == [p EXCEPT !.pool = Default(@, pool), !.dial = Default(@, 10)]

PathDefaults(p, pool, retry) ==
    [p EXCEPT !.pool = Default(@, pool), !.retry = Default(@, retry), !.dial = Default(@, 10)]

AggressivePath(p) ==
    [p EXCEPT !.pool = AtLeast(@, 4), !.retry = Capped(@, 2), !.dial = Default(@, 10)]

DefaultPaths(ps, pool, retry) == [i \in 1..Len(ps) |-> PathDefaults(ps[i], pool, retry)]
AggressivePaths(ps) == [i \in 1..Len(ps) |-> AggressivePath(ps[i])]

(* Variant for the mutation checks: compression is switched on in the loop *)
(* over the paths, which a server does not have.                           *)
AggressivePerPath(c) ==
    [c EXCEPT
        !.frag = TRUE, !.obf = TRUE, !.comp = IF c.paths = <<>> THEN @ ELSE "snappy",
        !.keep = Capped(@, 5), !.frame = AtLeast(@, 32768),
        !.recv = AtLeast(@, 8 * MB), !.stream = AtLeast(@, 8 * MB),
        !.delay = 0, !.maxPad = IF @ > 64 THEN 64 ELSE @,
        !.paths = AggressivePaths(@)]

Aggressive(c) ==
    [c EXCEPT
        !.frag = TRUE, !.obf = TRUE, !.comp = "snappy",
        !.keep = Capped(@, 5), !.frame = AtLeast(@, 32768),
        !.recv = AtLeast(@, 8 * MB), !.stream = AtLeast(@, 8 * MB),
        !.delay = 0, !.maxPad = IF @ > 64 THEN 64 ELSE @,
        !.paths = AggressivePaths(@)]

(* Variant for the mutation checks: only the larger buffer is limited.     *)
StableRecvOnly(c) ==
    [c EXCEPT
        !.keep = Capped(@, 15), !.frame = Default(@, 32768),
        !.recv = Capped(@, 2 * MB),
        !.delay = 0,
        !.paths = DefaultPaths(@, 2, 3)]

Stable(c) ==
    [c EXCEPT
        !.keep = Capped(@, 15), !.frame = Default(@, 32768),
        !.recv = Capped(@, 2 * MB), !.stream = Capped(@, MB),
        !.delay = 0,
        !.paths = DefaultPaths(@, 2, 3)]

Latency(c) ==
    [c EXCEPT
        !.keep = Capped(@, 5), !.frame = AtLeast(@, 32768),
        !.delay = 0,
        !.paths = DefaultPaths(@, 3, 2)]

(* Any other profile, "balanced" and unknown ones too.                     *)
Balanced(c) == [c EXCEPT !.paths = DefaultPaths(@, 2, 3)]

applyProfile(c) ==
    CASE c.profile = "aggressive" -> Aggressive(c)
      [] c.profile = "stable"     -> Stable(c)
      [] c.profile = "latency"    -> Latency(c)
      [] OTHER -> Balanced(c)

(* The maps, by number, that become listeners of a protocol.               *)
Listed(maps, types) ==
    LET upTo[i \in 0..Len(maps)] ==
          IF i = 0 THEN <<>>
          ELSE IF maps[i] \in types THEN Append(upTo[i - 1], i) ELSE upTo[i - 1]
    IN  upTo[Len(maps)]

mapDaggerToLegacy(c) ==
    IF c.tcp = <<>> /\ c.udp = <<>>
      THEN [c EXCEPT !.tcp = Listed(c.maps, {"tcp", "both"}), !.udp = Listed(c.maps, {"udp", "both"})]
      ELSE c

syncAliases(c) ==
    [c EXCEPT
        !.obfs = @ \/ c.obf,
        !.obfsDelay = Default(@, c.delay),
        !.obfsPad = Default(@, c.maxPad)]

Valid(c) ==
    /\ c.mode \in {"server", "client"}
    /\ c.transport # "quic"
    /\ c.mode = "server" => c.listen
    /\ c.mode = "client" =>
         (c.url \/ c.paths # <<>>) /\ \A i \in 1..Len(c.paths) : c.paths[i].addr
    /\ c.ver \in {1, 2}
    /\ c.comp # "zip"

(* Variant for the mutation checks: the profile comes after the aliases.   *)
AfterSwapped ==
    [names |-> "defaults", defaults |-> "aliases", aliases |-> "maps", maps |-> "profile",
     profile |-> "validate"]

(* The order of the steps in LoadConfig.                                   *)
After ==
    [names |-> "defaults", defaults |-> "profile", profile |-> "maps", maps |-> "aliases",
     aliases |-> "validate"]

Step(s, F(_)) ==
    /\ stage = s
    /\ cfg' = F(cfg)
    /\ stage' = After[s]
    /\ UNCHANGED <<file, pieces>>

SetNames      == Step("names", Names)
BaseDefaults  == Step("defaults", applyBaseDefaults)
ApplyProfile  == Step("profile", applyProfile)
MapsToLegacy  == Step("maps", mapDaggerToLegacy)
SyncAliases   == Step("aliases", syncAliases)

Validate ==
    /\ stage = "validate"
    /\ stage' = IF Valid(cfg) THEN "ok" ELSE "error"
    /\ UNCHANGED <<file, cfg, pieces>>

(* The same for a file at once.                                            *)
LoadConfig(f) == syncAliases(mapDaggerToLegacy(applyProfile(applyBaseDefaults(Names(f)))))
-----------------------------------------------------------------------------
(* buildSmuxConfig, and the rules by which smux.VerifyConfig goes.         *)
Interval(c) == Default(c.keep, 10)

(* Variant for the mutation checks: no minimum.                            *)
TimeoutNoMin(c) == 6 * Interval(c)

Timeout(c) == AtLeast(6 * Interval(c), 30)

Version(c) == IF c.ver < 1 THEN 2 ELSE c.ver

SmuxAccepts(c) ==
    /\ Version(c) \in {1, 2}
    /\ Interval(c) > 0 /\ Timeout(c) >= Interval(c)
    /\ c.frame > 0 /\ c.frame <= 65535
    /\ c.stream > 0 /\ c.stream <= c.recv /\ c.stream <= 2147483647

(* NewClient: the paths the workers choose from.                           *)
ClientPaths(c) ==
    IF c.paths = <<>> /\ c.url
      THEN <<[transport |-> c.transport, addr |-> TRUE, pool |-> 2, retry |-> 3, dial |-> 10]>>
      ELSE c.paths

(* What is put on the wire around smux's frames; the two sides must agree. *)
Wire(c) == [padding |-> c.obfs, snappy |-> c.comp \notin {"", "none"}]

(* connectAndServe and dialSession: a path's own transport goes first.     *)
DialTransport(c, p) == IF p.transport = "" THEN c.transport ELSE p.transport

(***************************************************************************)
(* fragmentCfg looks at the transport of the file, not at that of the path *)
(* being dialled.  DialFragmented: the sizes the first piece may have.     *)
(***************************************************************************)
Fragments(c) == c.frag \/ IsTLS(c.transport)

FragmentSizes(c) ==
    LET min == IF c.frag THEN Default(c.fragMin, 64) ELSE 64
        max == IF c.frag THEN Default(c.fragMax, 191) ELSE 191
    IN  IF max > min THEN min..max ELSE {min}

(* Variant for the mutation checks: a write of exactly that size is split. *)
PiecesOfAll(n, size) == IF n < size THEN <<n>> ELSE <<size, n - size>>

Pieces(n, size) == IF n <= size THEN <<n>> ELSE <<size, n - size>>

(* dialFragmentedTLS on some path, and the first Write on its connection.  *)
FirstWrite(n) ==
    /\ stage = "ok" /\ cfg.mode = "client"
    /\ pieces = <<>>
    /\ \E i \in 1..Len(ClientPaths(cfg)) : IsTLS(DialTransport(cfg, ClientPaths(cfg)[i]))
    /\ \E size \in (IF Fragments(cfg) THEN FragmentSizes(cfg) ELSE {n}) :
         pieces' = Pieces(n, size)
    /\ UNCHANGED <<file, cfg, stage>>

ConfigNext ==
    \/ SetNames \/ BaseDefaults \/ ApplyProfile \/ MapsToLegacy \/ SyncAliases
    \/ Validate
    \/ \E n \in Hellos : FirstWrite(n)

ConfigSpec == ConfigInit /\ [][ConfigNext]_configVars
-----------------------------------------------------------------------------
Loaded == stage = "ok"

(***************************************************************************)
(* What the goroutines wait for or index with is there, whatever the file  *)
(* left out or set to nonsense: a client has a path, every path has        *)
(* workers, a pause between attempts and a timeout; every map of a file    *)
(* without forward lists has a listener, "both" has two.                   *)
(***************************************************************************)
Runnable ==
    Loaded =>
      /\ cfg.mode = "client" =>
           LET ps == ClientPaths(cfg) IN
           /\ ps # <<>>
           /\ \A i \in 1..Len(ps) : ps[i].addr /\ ps[i].pool > 0 /\ ps[i].retry > 0 /\ ps[i].dial > 0
      /\ file.tcp = <<>> /\ file.udp = <<>> =>
           \A i \in 1..Len(file.maps) :
               /\ file.maps[i] # "udp" => \E j \in 1..Len(cfg.tcp) : cfg.tcp[j] = i
               /\ file.maps[i] # "tcp" => \E j \in 1..Len(cfg.udp) : cfg.udp[j] = i

(***************************************************************************)
(* No profile makes smux refuse a configuration: if it takes the buffers   *)
(* and the frame the user asked for (or left to the defaults), it takes    *)
(* those the profile turns them into.                                      *)
(***************************************************************************)
ProfileKeepsSmux ==
    Loaded /\ SmuxAccepts(applyBaseDefaults(file)) => SmuxAccepts(cfg)

(***************************************************************************)
(* Two sides keep each other alive whatever profiles they use and whatever *)
(* intervals below 30 seconds each of them asks for: each sends a          *)
(* keepalive before the other gives up.                                    *)
(***************************************************************************)
PairAlive ==
    Loaded /\ file.keep < 30 =>
        \A p \in Profiles, k \in PeerKeeps : k < 30 =>
            LET peer == LoadConfig([file EXCEPT !.profile = p, !.keep = k])
            IN  Interval(cfg) < Timeout(peer) /\ Interval(peer) < Timeout(cfg)

(***************************************************************************)
(* The fast profiles do without the obfuscation delay: unless the file     *)
(* sets obfs.max_delay_ms itself, the delay the connection uses is 0,      *)
(* also when obfuscation.max_delay_ms is set.                              *)
(***************************************************************************)
DelayOff ==
    Loaded /\ file.profile \in {"aggressive", "stable", "latency"} /\ file.obfsDelay <= 0
        => cfg.obfsDelay = 0

(***************************************************************************)
(* A server and a client that are given the same settings for profile,     *)
(* obfuscation and compression speak the same on the wire, whatever paths, *)
(* addresses and transport the one has and the other lacks.                *)
(***************************************************************************)
SidesAgree ==
    Loaded =>
        \A m \in {"server", "client"}, t \in {"", "httpsmux"} :
            Wire(LoadConfig([file EXCEPT !.mode = m, !.transport = t, !.paths = <<>>])) = Wire(cfg)

(***************************************************************************)
(* The ClientHello of a TLS path leaves in two pieces that are not empty,  *)
(* unless it is no longer than the bounds the file gives (or the           *)
(* defaults), whatever the file says about fragments, if the transport of  *)
(* the file is a TLS one, or the file or its profile asks for fragments.   *)
(* Otherwise, with TLS only as the path's own transport, it leaves whole.  *)
(***************************************************************************)
HelloSplit ==
    LET longest == AtLeast(Default(file.fragMin, 64), Default(file.fragMax, 191))
        asked   == file.frag \/ IsTLS(file.transport) \/ file.profile = "aggressive"
    IN  pieces # <<>> =>
          \/ asked /\ Len(pieces) = 2 /\ pieces[1] > 0 /\ pieces[2] > 0
          \/ Len(pieces) = 1 /\ (asked => pieces[1] <= longest)
=============================================================================
