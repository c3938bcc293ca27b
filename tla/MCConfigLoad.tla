---------------------------- MODULE MCConfigLoad ----------------------------
(***************************************************************************)
(* The files TLC loads: every profile with every combination of the        *)
(* settings below, chosen around the limits the profiles apply.            *)
(***************************************************************************)
EXTENDS ConfigLoad

Empty == [mode |-> "client", transport |-> "", profile |-> "", listen |-> FALSE, url |-> TRUE,
          paths |-> <<>>, keep |-> 0, recv |-> 0, stream |-> 0, frame |-> 0, ver |-> 0,
          obf |-> FALSE, delay |-> 0, maxPad |-> 0,
          obfs |-> FALSE, obfsDelay |-> 0, obfsPad |-> 0,
          comp |-> "", frag |-> FALSE, fragMin |-> 0, fragMax |-> 0,
          maps |-> <<>>, tcp |-> <<>>, udp |-> <<>>]

SomePaths == {<<>>,
              <<[transport |-> "", addr |-> TRUE, pool |-> 0, retry |-> -1, dial |-> 0],
                [transport |-> "wssmux", addr |-> TRUE, pool |-> 8, retry |-> 5, dial |-> 20]>>,
              <<[transport |-> "", addr |-> FALSE, pool |-> 1, retry |-> 1, dial |-> 1]>>}

Roles == {[Empty EXCEPT !.mode = m, !.transport = t, !.paths = ps, !.url = u, !.profile = p,
                        !.ver = v] :
            m \in {"server", "client", "proxy"}, t \in {"", "httpsmux", "quic"},
            ps \in SomePaths, u \in BOOLEAN, p \in Profiles, v \in {0, 1, 3}}

Buffers == {[Empty EXCEPT !.profile = p, !.keep = k, !.recv = b[1], !.stream = b[2], !.frame = f] :
              p \in Profiles, k \in {-1, 0, 1, 12, 29, 60},
              b \in {<<0, 0>>, <<4 * MB, 4 * MB>>, <<3 * 524288, 3 * 524288>>, <<16 * MB, 0>>,
                     <<0, MB>>, <<4 * MB, 0>>},
              f \in {0, 2048, 65535}}

Disguise == {[Empty EXCEPT !.profile = p, !.obf = o, !.delay = d, !.obfs = a, !.obfsDelay = e,
                           !.comp = c, !.mode = m, !.maxPad = x] :
               p \in Profiles, o \in BOOLEAN, d \in {0, 5}, a \in BOOLEAN, e \in {-1, 0, 7},
               c \in {"", "none", "snappy", "zip"}, m \in {"server", "client"}, x \in {0, 100}}

Via(t) == <<[transport |-> t, addr |-> TRUE, pool |-> 1, retry |-> 1, dial |-> 1]>>

Sizes == {[Empty EXCEPT !.profile = p, !.transport = t, !.paths = ps, !.frag = f, !.fragMin = a,
                        !.fragMax = b] :
            p \in {"", "aggressive"}, t \in {"", "httpmux", "wssmux"},
            ps \in {<<>>, Via(""), Via("httpmux"), Via("httpsmux")},
            f \in BOOLEAN, a \in {0, 3, 5}, b \in {0, 2, 5}}

Listeners == {[Empty EXCEPT !.mode = "server", !.maps = m, !.tcp = l] :
                m \in {<<>>, <<"tcp", "udp">>, <<"both", "udp", "both">>}, l \in {<<>>, <<0>>}}

MCFiles == Roles \union Buffers \union Disguise \union Sizes \union Listeners
=============================================================================
