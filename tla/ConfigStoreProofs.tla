------------------------- MODULE ConfigStoreProofs -------------------------
(***************************************************************************)
(* Proofs about ConfigStore.  What a process may hold at each place, and   *)
(* what the file may hold, is said of a document or a configuration and    *)
(* of what the service knows; a step changes the entry of one process, and *)
(* the service never forgets a key it has taken.                           *)
(***************************************************************************)
EXTENDS ConfigStore, DurationProofs

-----------------------------------------------------------------------------
(* The invariant.                                                          *)

Places == {"idle", "posted", "patched", "registering", "loaded", "saving",
           "running"}
Stages == {"unknown", "wireguard", "masque"}

Settings == {"private_key", "device", "reachable", "mtu", "dns",
             "keepalive_ms", "reconnect_delay_ms", "congestion", "noise"}

IsList(s) == s \in Seq(Range(s))

\* A duration of a document is positive, counts as not given, or is one that
\* somebody wrote with a minus sign.
DurationOK(doc, name, default) ==
  LET ms == get_duration_ms(doc, name, default)
  IN  ms # 0 => PositiveUnlessWritten(name, default, ms)

Delays(doc) ==
  /\ DurationOK(doc, "keepalive_period", 30000)
  /\ DurationOK(doc, "reconnect_delay", 1000)

\* A document names a device that can connect.
Enrolled(doc, srv) ==
  /\ "id" \in DOMAIN doc
  /\ doc["id"] \in Devices
  /\ srv[doc["id"]] = "masque"
  /\ "dns" \in DOMAIN doc => IsList(doc["dns"])
  /\ \A name \in DurationNames \intersect DOMAIN doc : doc[name] \in Texts
  /\ Delays(doc)

\* A configuration has the settings of parse_settings and no others.
Full(cfg) ==
  cfg = [private_key |-> cfg.private_key, device |-> cfg.device,
         reachable |-> cfg.reachable, mtu |-> cfg.mtu, dns |-> cfg.dns,
         keepalive_ms |-> cfg.keepalive_ms,
         reconnect_delay_ms |-> cfg.reconnect_delay_ms,
         congestion |-> cfg.congestion, noise |-> cfg.noise]

\* A configuration as parse_settings makes it.
Shaped(cfg) ==
  /\ Full(cfg)
  /\ cfg.congestion = [type |-> cfg.congestion.type,
                       brutal_bps |-> cfg.congestion.brutal_bps]
  /\ cfg.noise = [enabled |-> cfg.noise.enabled, count |-> cfg.noise.count,
                  min_size |-> cfg.noise.min_size,
                  max_size |-> cfg.noise.max_size,
                  delay_min_ms |-> cfg.noise.delay_min_ms,
                  delay_max_ms |-> cfg.noise.delay_max_ms]
  /\ cfg.congestion.type \in {"reno", "brutal", "bbr"}
  /\ cfg.keepalive_ms \in Int /\ cfg.reconnect_delay_ms \in Int
  /\ cfg.noise.delay_min_ms \in Int /\ cfg.noise.delay_max_ms \in Int

\* A configuration that was loaded: validated, and with its defaults.
Usable(cfg, srv) ==
  /\ DOMAIN cfg = Settings
  /\ cfg.device \in Devices
  /\ srv[cfg.device] = "masque"
  /\ IsList(cfg.dns) /\ cfg.dns # <<>>
  /\ PositiveUnlessWritten("keepalive_period", 30000, cfg.keepalive_ms)
  /\ PositiveUnlessWritten("reconnect_delay", 1000, cfg.reconnect_delay_ms)
  /\ validate(cfg)

FileOK(f, srv) ==
  /\ f.kind \in {"absent", "torn", "whole"}
  /\ (f.kind = "whole") = (f.doc # Nothing)
  /\ f.kind = "whole" => Enrolled(f.doc, srv)

ProcOK(where, what, srv) ==
  /\ where \in Places
  /\ (where = "idle") = (what = Nothing)
  /\ where = "posted" => what \in Devices
  /\ where \in Writing => Enrolled(what, srv)
  /\ where \in Using => Usable(what, srv)
  /\ where = "loaded" => Shaped(what)
  /\ where = "running" => Len(what.dns) <= MaxDns

IInv ==
  /\ server \in [Devices -> Stages]
  /\ pc \in [Procs -> Places]
  /\ told \in [Procs -> {"none", "ok", "failed"}]
  /\ DOMAIN held = Procs
  /\ FileOK(file, server)
  /\ \A p \in Procs : ProcOK(pc[p], held[p], server)

-----------------------------------------------------------------------------
(* Reading and writing.                                                    *)

\* What parse_document makes of the members it copies, and of those that
\* apply_defaults replaces.
LEMMA ParsedIs ==
  ASSUME NEW doc
  PROVE  LET cfg == parse_document(doc)
             dns == Get(doc, "dns", <<>>)
             k   == get_duration_ms(doc, "keepalive_period", 30000)
             w   == get_duration_ms(doc, "reconnect_delay", 1000)
         IN  /\ DOMAIN cfg = Settings
             /\ cfg.device = Get(doc, "id", NoKey)
             /\ cfg.dns = IF dns = <<>> THEN <<"v4", "v6">> ELSE dns
             /\ cfg.keepalive_ms = IF k = 0 THEN 30000 ELSE k
             /\ cfg.reconnect_delay_ms = IF w = 0 THEN 1000 ELSE w
<1> DEFINE c == parse_settings(doc)
           d == apply_defaults(c)
<1>1. /\ DOMAIN c = Settings
      /\ c.device = Get(doc, "id", NoKey)
      /\ c.dns = Get(doc, "dns", <<>>)
      /\ c.keepalive_ms = get_duration_ms(doc, "keepalive_period", 30000)
      /\ c.reconnect_delay_ms = get_duration_ms(doc, "reconnect_delay", 1000)
  BY DEF parse_settings, Settings
<1> HIDE DEF c
<1>2. /\ DOMAIN d = Settings
      /\ d.device = c.device
      /\ d.dns = IF c.dns = <<>> THEN <<"v4", "v6">> ELSE c.dns
      /\ d.keepalive_ms = IF c.keepalive_ms = 0 THEN 30000 ELSE c.keepalive_ms
      /\ d.reconnect_delay_ms =
           IF c.reconnect_delay_ms = 0 THEN 1000 ELSE c.reconnect_delay_ms
  BY <1>1 DEF apply_defaults, Settings
<1>3. parse_document(doc) = d
  BY DEF parse_document, c
<1> HIDE DEF d
<1> QED
  BY <1>1, <1>2, <1>3

\* The default servers are a list.
LEMMA TwoServers == IsList(<<"v4", "v6">>)
<1> DEFINE s == <<"v4", "v6">>
<1>1. s \in Seq({"v4", "v6"})
  OBVIOUS
<1>2. Range(s) = {"v4", "v6"}
  <2>1. DOMAIN s = {1, 2} /\ s[1] = "v4" /\ s[2] = "v6"
    OBVIOUS
  <2> HIDE DEF s
  <2> QED
    BY <2>1 DEF Range
<1> QED
  BY <1>1, <1>2 DEF IsList

\* The durations of a document read as integers.
LEMMA DurationsRead ==
  ASSUME NEW doc, NEW name \in DurationNames, NEW default \in Int,
         \A n \in DurationNames \intersect DOMAIN doc : doc[n] \in Texts
  PROVE  get_duration_ms(doc, name, default) \in Int
<1>1. Nothing \in Texts
  BY DEF Nothing, Texts
<1>2. Get(doc, name, Nothing) \in Texts
  BY <1>1 DEF Get
<1> QED
  BY <1>2, DurationRead DEF get_duration_ms

\* A configuration with its defaults, setting by setting.
Defaulted(c) ==
  [private_key |-> c.private_key, device |-> c.device,
   reachable |-> c.reachable,
   mtu |-> IF c.mtu = 0 THEN 1280 ELSE c.mtu,
   dns |-> IF c.dns = <<>> THEN <<"v4", "v6">> ELSE c.dns,
   keepalive_ms |-> IF c.keepalive_ms = 0 THEN 30000 ELSE c.keepalive_ms,
   reconnect_delay_ms |->
     IF c.reconnect_delay_ms = 0 THEN 1000 ELSE c.reconnect_delay_ms,
   congestion |-> c.congestion, noise |-> c.noise]

\* Two functions with one domain that agree on it are one: a record that was
\* changed is compared with the record it should be through its sets of values.
LEMMA DefaultsAre ==
  ASSUME NEW c, Full(c)
  PROVE  apply_defaults(c) = Defaulted(c)
<1> DEFINE d == Defaulted(c)
           S == [private_key : {d.private_key}, device : {d.device},
                 reachable : {d.reachable}, mtu : {d.mtu}, dns : {d.dns},
                 keepalive_ms : {d.keepalive_ms},
                 reconnect_delay_ms : {d.reconnect_delay_ms},
                 congestion : {d.congestion}, noise : {d.noise}]
           Both == [private_key : {c.private_key}, device : {c.device},
                    reachable : {c.reachable}, mtu : {c.mtu, d.mtu},
                    dns : {c.dns, d.dns},
                    keepalive_ms : {c.keepalive_ms, d.keepalive_ms},
                    reconnect_delay_ms :
                      {c.reconnect_delay_ms, d.reconnect_delay_ms},
                    congestion : {c.congestion}, noise : {c.noise}]
           e == [c EXCEPT !.mtu = d.mtu, !.dns = d.dns,
                          !.keepalive_ms = d.keepalive_ms,
                          !.reconnect_delay_ms = d.reconnect_delay_ms]
<1>1. /\ d.private_key = c.private_key /\ d.device = c.device
      /\ d.reachable = c.reachable
      /\ d.mtu = IF c.mtu = 0 THEN 1280 ELSE c.mtu
      /\ d.dns = IF c.dns = <<>> THEN <<"v4", "v6">> ELSE c.dns
      /\ d.keepalive_ms =
           IF c.keepalive_ms = 0 THEN 30000 ELSE c.keepalive_ms
      /\ d.reconnect_delay_ms =
           IF c.reconnect_delay_ms = 0 THEN 1000 ELSE c.reconnect_delay_ms
      /\ d.congestion = c.congestion /\ d.noise = c.noise
  BY DEF Defaulted
<1>2. d \in S
  BY DEF Defaulted
<1> HIDE DEF d
<1>3. c \in Both
  BY DEF Full
<1>4. apply_defaults(c) = e
  BY <1>1 DEF apply_defaults
<1>5. e \in Both
  BY <1>3
<1>6. /\ e.mtu = d.mtu /\ e.dns = d.dns
      /\ e.keepalive_ms = d.keepalive_ms
      /\ e.reconnect_delay_ms = d.reconnect_delay_ms
  BY <1>3
<1> HIDE DEF e
<1>7. e \in S
  BY <1>1, <1>5, <1>6
<1> QED
  BY <1>2, <1>4, <1>7 DEF d

\* What parse_document makes has the shape of a configuration.
LEMMA ParsedShaped ==
  ASSUME NEW doc,
         \A n \in DurationNames \intersect DOMAIN doc : doc[n] \in Texts
  PROVE  Shaped(parse_document(doc))
<1> DEFINE k == get_duration_ms(doc, "keepalive_period", 30000)
           w == get_duration_ms(doc, "reconnect_delay", 1000)
           a == get_duration_ms(doc, "delay_min", 0)
           b == get_duration_ms(doc, "delay_max", 0)
           cc == parse_congestion(doc)
           nc == parse_noise(doc)
           c == parse_settings(doc)
           d == apply_defaults(c)
<1>1. k \in Int /\ w \in Int /\ a \in Int /\ b \in Int
  BY DurationsRead DEF DurationNames
<1>2. /\ cc = [type |-> cc.type, brutal_bps |-> cc.brutal_bps]
      /\ cc.type \in {"reno", "brutal", "bbr"}
  BY DEF parse_congestion
<1>3. /\ nc = [enabled |-> nc.enabled, count |-> nc.count,
               min_size |-> nc.min_size, max_size |-> nc.max_size,
               delay_min_ms |-> nc.delay_min_ms,
               delay_max_ms |-> nc.delay_max_ms]
      /\ nc.delay_min_ms = a /\ nc.delay_max_ms = b
  BY DEF parse_noise
<1> HIDE DEF k, w, a, b, cc, nc
<1>4. Full(c) /\ c.keepalive_ms = k /\ c.reconnect_delay_ms = w
      /\ c.congestion = cc /\ c.noise = nc
  BY DEF parse_settings, k, w, cc, nc, Full
<1> HIDE DEF c
<1>5. d = Defaulted(c)
  BY <1>4, DefaultsAre
<1>6. parse_document(doc) = d
  BY DEF parse_document, c
<1> HIDE DEF d
<1>7. Full(d) /\ d.congestion = cc /\ d.noise = nc
  BY <1>4, <1>5 DEF Defaulted, Full
<1>8. d.keepalive_ms \in Int /\ d.reconnect_delay_ms \in Int
  BY <1>1, <1>4, <1>5 DEF Defaulted
<1> QED
  BY <1>1, <1>2, <1>3, <1>6, <1>7, <1>8 DEF Shaped

\* A document that is accepted makes a configuration of its own device.
LEMMA ParsedUsable ==
  ASSUME NEW doc, NEW srv, Enrolled(doc, srv), Accepted(doc)
  PROVE  Usable(parse_document(doc), srv)
<1> DEFINE cfg == parse_document(doc)
           dns == Get(doc, "dns", <<>>)
           k   == get_duration_ms(doc, "keepalive_period", 30000)
           w   == get_duration_ms(doc, "reconnect_delay", 1000)
<1>1. /\ DOMAIN cfg = Settings
      /\ cfg.device = Get(doc, "id", NoKey)
      /\ cfg.dns = IF dns = <<>> THEN <<"v4", "v6">> ELSE dns
      /\ cfg.keepalive_ms = IF k = 0 THEN 30000 ELSE k
      /\ cfg.reconnect_delay_ms = IF w = 0 THEN 1000 ELSE w
  BY ParsedIs
<1>2. validate(cfg)
  BY DEF Accepted
<1>3. /\ k # 0 => PositiveUnlessWritten("keepalive_period", 30000, k)
      /\ w # 0 => PositiveUnlessWritten("reconnect_delay", 1000, w)
  BY DEF Enrolled, Delays, DurationOK
<1> HIDE DEF k, w
<1> HIDE DEF cfg
<1>4. cfg.device \in Devices /\ srv[cfg.device] = "masque"
  BY <1>1 DEF Enrolled, Get
<1>5. IsList(dns) \/ dns = <<>>
  BY DEF Enrolled, Get
<1>6. <<"v4", "v6">> # <<>>
  OBVIOUS
<1> HIDE DEF dns
<1>7. IsList(cfg.dns) /\ cfg.dns # <<>>
  BY <1>1, <1>5, <1>6, TwoServers
<1>8. /\ PositiveUnlessWritten("keepalive_period", 30000, 30000)
      /\ PositiveUnlessWritten("reconnect_delay", 1000, 1000)
  BY DEF PositiveUnlessWritten
<1>9. /\ PositiveUnlessWritten("keepalive_period", 30000, cfg.keepalive_ms)
      /\ PositiveUnlessWritten("reconnect_delay", 1000, cfg.reconnect_delay_ms)
  BY <1>3, <1>1, <1>8
<1> QED
  BY <1>1, <1>2, <1>4, <1>7, <1>9 DEF Usable, cfg

\* The durations of a configuration are written as texts.
LEMMA SerializedTexts ==
  ASSUME NEW cfg, Shaped(cfg)
  PROVE  LET doc == serialize(cfg)
         IN  /\ doc["keepalive_period"] = format_duration_ms(cfg.keepalive_ms)
             /\ doc["reconnect_delay"] =
                  format_duration_ms(cfg.reconnect_delay_ms)
             /\ doc["delay_min"] = format_duration_ms(cfg.noise.delay_min_ms)
             /\ doc["delay_max"] = format_duration_ms(cfg.noise.delay_max_ms)
             /\ \A name \in DurationNames :
                  name \in DOMAIN doc /\ doc[name] \in Texts
<1> DEFINE doc == serialize(cfg)
<1>1. /\ doc["keepalive_period"] = format_duration_ms(cfg.keepalive_ms)
      /\ doc["reconnect_delay"] = format_duration_ms(cfg.reconnect_delay_ms)
      /\ doc["delay_min"] = format_duration_ms(cfg.noise.delay_min_ms)
      /\ doc["delay_max"] = format_duration_ms(cfg.noise.delay_max_ms)
      /\ \A name \in DurationNames : name \in DOMAIN doc
  BY DEF serialize, DurationNames
<1> HIDE DEF doc
<1>2. \A name \in DurationNames : doc[name] \in Texts
  BY <1>1, DurationKept DEF Shaped, DurationNames
<1> QED
  BY <1>1, <1>2 DEF doc

\* A configuration that is saved keeps its account and its servers.
LEMMA SerializedEnrolled ==
  ASSUME NEW cfg, NEW srv, Usable(cfg, srv), Shaped(cfg)
  PROVE  Enrolled(serialize(cfg), srv)
<1> DEFINE doc == serialize(cfg)
<1>1. /\ "id" \in DOMAIN doc
      /\ doc["id"] = cfg.device
      /\ doc["dns"] = cfg.dns
  BY DEF serialize
<1>2. \A name \in DurationNames : doc[name] \in Texts
  BY SerializedTexts
<1>3. /\ get_duration_ms(doc, "keepalive_period", 30000) =
           parse_duration_ms(format_duration_ms(cfg.keepalive_ms), 30000)
      /\ get_duration_ms(doc, "reconnect_delay", 1000) =
           parse_duration_ms(format_duration_ms(cfg.reconnect_delay_ms), 1000)
  BY SerializedTexts DEF get_duration_ms, Get, DurationNames
<1> HIDE DEF doc
<1>4. Delays(doc)
  <2>1. ASSUME NEW ms \in Int, NEW default \in Int, default > 0
        PROVE  LET read == parse_duration_ms(format_duration_ms(ms), default)
               IN  read # 0 => read > 0
    BY <2>1, DurationKept
  <2>2. cfg.keepalive_ms \in Int /\ cfg.reconnect_delay_ms \in Int
    BY DEF Shaped
  <2>3. /\ get_duration_ms(doc, "keepalive_period", 30000) # 0 =>
             get_duration_ms(doc, "keepalive_period", 30000) > 0
        /\ get_duration_ms(doc, "reconnect_delay", 1000) # 0 =>
             get_duration_ms(doc, "reconnect_delay", 1000) > 0
    BY <1>3, <2>1, <2>2
  <2> QED
    BY <2>3 DEF Delays, DurationOK, PositiveUnlessWritten
<1> QED
  BY <1>1, <1>2, <1>4 DEF Usable, Enrolled, doc

\* A registration writes the account of its device.
LEMMA RegisteredEnrolled ==
  ASSUME NEW d \in Devices, NEW endpoint, NEW srv, srv[d] = "masque"
  PROVE  Enrolled(register_doc(d, endpoint), srv)
<1> DEFINE doc == register_doc(d, endpoint)
<1>1. /\ "id" \in DOMAIN doc
      /\ doc["id"] = d
      /\ doc["dns"] = <<"v4", "v6">>
      /\ doc["keepalive_period"] = <<Piece(30, "s")>>
      /\ doc["reconnect_delay"] = <<Piece(1, "s")>>
      /\ doc["delay_min"] = <<Piece(10, "ms")>>
      /\ doc["delay_max"] = <<Piece(50, "ms")>>
  BY DEF register_doc
<1> HIDE DEF doc
<1>2. \A n \in Int : \A u \in {"s", "ms"} : <<Piece(n, u)>> \in Texts
  <2>1. \A n \in Int : \A u \in {"s", "ms"} :
          Piece(n, u) \in [num : Int,
                           unit : {"us", "ms", "s", "m", "h", "none", "word"},
                           gap : BOOLEAN]
    BY DEF Piece
  <2> QED
    BY <2>1 DEF Texts
<1>3. /\ <<Piece(30, "s")>> \in Texts /\ <<Piece(1, "s")>> \in Texts
      /\ <<Piece(10, "ms")>> \in Texts /\ <<Piece(50, "ms")>> \in Texts
  <2>1. 30 \in Int /\ 1 \in Int /\ 10 \in Int /\ 50 \in Int
    OBVIOUS
  <2> QED
    BY <1>2, <2>1
<1>4. \A name \in DurationNames : doc[name] \in Texts
  BY <1>1, <1>3, Zenon DEF DurationNames
<1>5. /\ get_duration_ms(doc, "keepalive_period", 30000) =
           parse_duration_ms(<<Piece(30, "s")>>, 30000)
      /\ get_duration_ms(doc, "reconnect_delay", 1000) =
           parse_duration_ms(<<Piece(1, "s")>>, 1000)
  <2>1. "keepalive_period" \in DOMAIN doc /\ "reconnect_delay" \in DOMAIN doc
    BY DEF doc, register_doc
  <2> QED
    BY <1>1, <2>1 DEF get_duration_ms, Get
<1>6. ASSUME NEW n \in Int, <<Piece(n, "s")>> \in Texts, NEW default \in Int
      PROVE  parse_duration_ms(<<Piece(n, "s")>>, default) = n * 1000
  <2> DEFINE text == <<Piece(n, "s")>>
  <2>1. Len(text) = 1 /\ text[1] = Piece(n, "s") /\ text \in Texts
    BY <1>6
  <2> HIDE DEF text
  <2>2. parse_duration_ms(text, default) = n * Factor["s"]
    <3>1. "s" \in {"ms", "s", "m", "h"} /\ "s" # "ms" /\ Len(text) > 0
      BY <2>1
    <3> QED
      BY <2>1, <3>1, FirstPiece
  <2> QED
    BY <2>2 DEF Factor, text
<1>7. Delays(doc)
  <2>1. /\ parse_duration_ms(<<Piece(30, "s")>>, 30000) = 30 * 1000
        /\ parse_duration_ms(<<Piece(1, "s")>>, 1000) = 1 * 1000
    BY <1>3, <1>6
  <2>2. /\ get_duration_ms(doc, "keepalive_period", 30000) > 0
        /\ get_duration_ms(doc, "reconnect_delay", 1000) > 0
    BY <1>5, <2>1
  <2> QED
    BY <2>2 DEF Delays, DurationOK, PositiveUnlessWritten
<1> QED
  BY <1>1, <1>4, <1>7, TwoServers DEF Enrolled, doc

\* The tunnel's copy has as many servers as it has room for.
LEMMA BuiltUsable ==
  ASSUME NEW cfg, NEW srv, Usable(cfg, srv)
  PROVE  /\ Usable(build_tunnel_config(cfg), srv)
         /\ Len(build_tunnel_config(cfg).dns) <= MaxDns
<1> DEFINE len == Len(cfg.dns)
           n == Min({len, MaxDns})
           dns == SubSeq(cfg.dns, 1, n)
           b == [cfg EXCEPT !.dns = dns]
<1>1. cfg.dns \in Seq(Range(cfg.dns)) /\ len \in Nat /\ len > 0
  BY DEF Usable, IsList
<1>2. MaxDns \in Nat /\ MaxDns > 0
  BY ConfigAssumption
<1> HIDE DEF len
<1>3. n \in 1 .. len /\ n <= MaxDns
  <2>1. \E m \in {len, MaxDns} : \A k \in {len, MaxDns} : m <= k
    <3>1. CASE len <= MaxDns
      BY <1>1, <1>2, <3>1
    <3>2. CASE MaxDns <= len
      BY <1>1, <1>2, <3>2
    <3> QED
      BY <1>1, <1>2, <3>1, <3>2
  <2>2. n \in {len, MaxDns} /\ n <= len /\ n <= MaxDns
    BY <2>1 DEF Min
  <2> HIDE DEF n
  <2> QED
    BY <1>1, <1>2, <2>2
<1> HIDE DEF n
<1> DEFINE S == {cfg.dns[i] : i \in 1 .. n}
<1>4. IsList(dns) /\ Len(dns) = n
  <2>1. \A i \in 1 .. n : cfg.dns[i] \in S
    OBVIOUS
  <2>2. 1 \in Int /\ n \in Int /\ 1 <= n /\ n - 1 + 1 = n
    BY <1>3
  <2> HIDE DEF S
  <2>3. /\ dns \in Seq(S) /\ Len(dns) = IF 1 <= n THEN n - 1 + 1 ELSE 0
        /\ \A i \in 1 .. n - 1 + 1 : dns[i] = cfg.dns[1 + i - 1]
    BY <2>1, <2>2, SubSeqProperties
  <2>4. Len(dns) = n /\ DOMAIN dns = 1 .. n
    BY <2>2, <2>3
  <2>5. \A i \in 1 .. n : dns[i] = cfg.dns[i]
    <3>1. \A i \in 1 .. n : 1 + i - 1 = i
      OBVIOUS
    <3> QED
      BY <2>2, <2>3, <3>1
  <2> HIDE DEF dns
  <2>6. Range(dns) = S
    BY <2>4, <2>5 DEF Range, S
  <2> QED
    BY <2>3, <2>4, <2>6 DEF IsList
<1>5. dns # <<>>
  <2>1. Len(dns) # 0
    BY <1>1, <1>3, <1>4
  <2>2. Len(<<>>) = 0
    BY EmptySeq
  <2> HIDE DEF dns
  <2> QED
    BY <2>1, <2>2
<1> HIDE DEF dns
<1>6. /\ DOMAIN b = Settings
      /\ b.dns = dns
      /\ \A name \in Settings \ {"dns"} : b[name] = cfg[name]
  BY DEF Usable, Settings
<1>7. build_tunnel_config(cfg) = b
  BY DEF build_tunnel_config, dns, n, len
<1> HIDE DEF b
<1>8. /\ b.device = cfg.device /\ b.keepalive_ms = cfg.keepalive_ms
      /\ b.reconnect_delay_ms = cfg.reconnect_delay_ms
      /\ b.private_key = cfg.private_key /\ b.mtu = cfg.mtu
      /\ b.congestion = cfg.congestion /\ b.noise = cfg.noise
  BY <1>6 DEF Settings
<1>9. validate(b)
  BY <1>8 DEF Usable, validate
<1>10. Usable(b, srv)
  BY <1>4, <1>5, <1>6, <1>8, <1>9 DEF Usable
<1> QED
  BY <1>3, <1>4, <1>6, <1>7, <1>10

-----------------------------------------------------------------------------
(* Steps.                                                                  *)

\* What may be held may be held when the service knows more.
LEMMA StillOK ==
  ASSUME NEW srv, NEW later,
         \A d \in Devices : srv[d] = "masque" => later[d] = "masque"
  PROVE  /\ \A doc : Enrolled(doc, srv) => Enrolled(doc, later)
         /\ \A cfg : Usable(cfg, srv) => Usable(cfg, later)
         /\ \A f : FileOK(f, srv) => FileOK(f, later)
         /\ \A where, what : ProcOK(where, what, srv) =>
                            ProcOK(where, what, later)
<1>1. \A doc : Enrolled(doc, srv) => Enrolled(doc, later)
  BY DEF Enrolled
<1>2. \A cfg : Usable(cfg, srv) => Usable(cfg, later)
  BY DEF Usable
<1>3. \A f : FileOK(f, srv) => FileOK(f, later)
  BY <1>1 DEF FileOK
<1>4. \A where, what : ProcOK(where, what, srv) => ProcOK(where, what, later)
  BY <1>1, <1>2 DEF ProcOK
<1> QED
  BY <1>1, <1>2, <1>3, <1>4

\* A step of p: what it leaves in the file and holds itself is all right, and
\* the service forgets no key.
LEMMA ProcessMoves ==
  ASSUME IInv, NEW p \in Procs, NEW where, NEW what,
         NEW how \in {"none", "ok", "failed"},
         Become(p, where, what), Report(p, how),
         server' \in [Devices -> Stages],
         \A d \in Devices : server[d] = "masque" => server'[d] = "masque",
         FileOK(file', server'), ProcOK(where, what, server')
  PROVE  IInv'
<1>1. /\ pc' = [pc EXCEPT ![p] = where]
      /\ held' = [held EXCEPT ![p] = what]
      /\ told' = [told EXCEPT ![p] = how]
      /\ where \in Places
  BY DEF Become, Report, ProcOK
<1>2. /\ pc' \in [Procs -> Places]
      /\ told' \in [Procs -> {"none", "ok", "failed"}]
      /\ DOMAIN held' = Procs
  BY <1>1 DEF IInv
<1>3. ASSUME NEW q \in Procs
      PROVE  ProcOK(pc'[q], held'[q], server')
  <2>1. CASE q = p
    <3>1. pc'[q] = where /\ held'[q] = what
      BY <1>1, <2>1 DEF IInv
    <3> QED
      BY <3>1
  <2>2. CASE q # p
    <3>1. pc'[q] = pc[q] /\ held'[q] = held[q]
      BY <1>1, <2>2 DEF IInv
    <3>2. ProcOK(pc[q], held[q], server)
      BY DEF IInv
    <3>3. ProcOK(pc[q], held[q], server')
      BY <3>2, StillOK
    <3> QED
      BY <3>1, <3>3
  <2> QED
    BY <2>1, <2>2
<1> QED
  BY <1>2, <1>3 DEF IInv

\* A command that ends and has left the file all right.
LEMMA ProcessReturns ==
  ASSUME IInv, NEW p \in Procs, NEW how \in {"none", "ok", "failed"},
         Return(p, how),
         server' \in [Devices -> Stages],
         \A d \in Devices : server[d] = "masque" => server'[d] = "masque",
         FileOK(file', server')
  PROVE  IInv'
<1>1. Become(p, "idle", Nothing) /\ Report(p, how)
  BY DEF Return
<1>2. ProcOK("idle", Nothing, server')
  BY DEF ProcOK, Places, Writing, Using
<1> QED
  BY <1>1, <1>2, ProcessMoves

\* A command that goes on.
LEMMA ProcessProceeds ==
  ASSUME IInv, NEW p \in Procs, NEW where, NEW what, Proceed(p, where, what),
         server' \in [Devices -> Stages],
         \A d \in Devices : server[d] = "masque" => server'[d] = "masque",
         FileOK(file', server'), ProcOK(where, what, server')
  PROVE  IInv'
  BY ProcessMoves DEF Proceed

\* What is held is told from nothing by its names.
LEMMA HeldIsSomething ==
  /\ \A doc, srv : Enrolled(doc, srv) => doc # Nothing
  /\ \A cfg, srv : Usable(cfg, srv) => cfg # Nothing
  /\ \A d \in Devices : d # Nothing
<1>1. DOMAIN <<>> = {}
  OBVIOUS
<1>2. \A doc, srv : Enrolled(doc, srv) => doc # Nothing
  BY <1>1 DEF Enrolled, Nothing
<1>3. \A cfg, srv : Usable(cfg, srv) => cfg # Nothing
  BY <1>1 DEF Usable, Settings, Nothing
<1>4. \A d \in Devices : d # Nothing
  BY ConfigAssumption DEF Nothing
<1> QED
  BY <1>2, <1>3, <1>4

\* A document that is being written is all right to hold; so is a
\* configuration, with no more servers than there is room for if it runs.
LEMMA HoldsOK ==
  ASSUME NEW srv
  PROVE  /\ \A where \in Writing : \A doc :
              Enrolled(doc, srv) => ProcOK(where, doc, srv)
         /\ \A cfg : Usable(cfg, srv) /\ Shaped(cfg) =>
                      ProcOK("loaded", cfg, srv)
         /\ \A cfg : Usable(cfg, srv) /\ Len(cfg.dns) <= MaxDns =>
                      ProcOK("running", cfg, srv)
         /\ \A d \in Devices : ProcOK("posted", d, srv)
  BY HeldIsSomething DEF ProcOK, Places, Writing, Using

\* A file is all right when it is torn, and when its document is.
LEMMA FilesOK ==
  ASSUME NEW srv
  PROVE  /\ FileOK(Torn, srv) /\ FileOK(Absent, srv)
         /\ \A doc : Enrolled(doc, srv) => FileOK(Whole(doc), srv)
<1>1. FileOK(Torn, srv) /\ FileOK(Absent, srv)
  BY DEF FileOK, Torn, Absent
<1>2. \A doc : Enrolled(doc, srv) => FileOK(Whole(doc), srv)
  BY HeldIsSomething DEF FileOK, Whole
<1> QED
  BY <1>1, <1>2

\* Nothing that the service knows changes.
LEMMA SameServer ==
  ASSUME IInv, server' = server
  PROVE  /\ server' \in [Devices -> Stages]
         /\ \A d \in Devices : server[d] = "masque" => server'[d] = "masque"
         /\ FileOK(file, server')
  BY DEF IInv

\* One device goes on to a later stage.
LEMMA ServerMoves ==
  ASSUME IInv, NEW d \in Devices, NEW stage \in Stages,
         server[d] # "masque" \/ stage = "masque",
         server' = [server EXCEPT ![d] = stage]
  PROVE  /\ server' \in [Devices -> Stages]
         /\ \A e \in Devices : server[e] = "masque" => server'[e] = "masque"
         /\ FileOK(file, server')
<1>1. server \in [Devices -> Stages] /\ FileOK(file, server)
  BY DEF IInv
<1>2. /\ server' \in [Devices -> Stages]
      /\ \A e \in Devices : server[e] = "masque" => server'[e] = "masque"
  BY <1>1
<1> QED
  BY <1>1, <1>2, StillOK

\* POST /reg.
LEMMA PostStep ==
  ASSUME IInv, NEW p \in Procs, PostReg(p)
  PROVE  IInv'
<1>1. CASE RequestFails(p) /\ UNCHANGED server
  BY <1>1, SameServer, ProcessReturns DEF RequestFails
<1>2. CASE \E d \in Devices :
             /\ server[d] = "unknown"
             /\ server' = [server EXCEPT ![d] = "wireguard"]
             /\ \/ RequestFails(p)
                \/ Proceed(p, "posted", d) /\ UNCHANGED file
  <2>1. PICK d \in Devices :
          /\ server[d] = "unknown"
          /\ server' = [server EXCEPT ![d] = "wireguard"]
          /\ \/ RequestFails(p)
             \/ Proceed(p, "posted", d) /\ UNCHANGED file
    BY <1>2
  <2>2. "wireguard" \in Stages
    BY DEF Stages
  <2>3. /\ server' \in [Devices -> Stages]
        /\ \A e \in Devices : server[e] = "masque" => server'[e] = "masque"
        /\ FileOK(file, server')
    BY <2>1, <2>2, ServerMoves
  <2>4. CASE RequestFails(p)
    BY <2>3, <2>4, ProcessReturns DEF RequestFails
  <2>5. CASE Proceed(p, "posted", d) /\ UNCHANGED file
    <3>1. ProcOK("posted", d, server')
      BY HoldsOK
    <3> QED
      BY <2>3, <2>5, <3>1, ProcessProceeds
  <2> QED
    BY <2>1, <2>4, <2>5
<1> QED
  BY <1>1, <1>2 DEF PostReg

\* PATCH /reg/{id}: the account may be written only now.
LEMMA PatchStep ==
  ASSUME IInv, NEW p \in Procs, PatchReg(p)
  PROVE  IInv'
<1>1. held[p] \in Devices
  BY DEF IInv, ProcOK, PatchReg
<1>2. CASE RequestFails(p) /\ UNCHANGED server
  BY <1>2, SameServer, ProcessReturns DEF RequestFails
<1>3. CASE /\ server' = [server EXCEPT ![held[p]] = "masque"]
           /\ \/ RequestFails(p)
              \/ /\ \E endpoint \in BOOLEAN :
                      Proceed(p, "patched", register_doc(held[p], endpoint))
                 /\ UNCHANGED file
  <2>1. "masque" \in Stages
    BY DEF Stages
  <2>2. /\ server' \in [Devices -> Stages]
        /\ \A e \in Devices : server[e] = "masque" => server'[e] = "masque"
        /\ FileOK(file, server')
    BY <1>1, <1>3, <2>1, ServerMoves
  <2>3. CASE RequestFails(p)
    BY <2>2, <2>3, ProcessReturns DEF RequestFails
  <2>4. CASE /\ \E endpoint \in BOOLEAN :
                  Proceed(p, "patched", register_doc(held[p], endpoint))
             /\ UNCHANGED file
    <3>1. PICK endpoint \in BOOLEAN :
            Proceed(p, "patched", register_doc(held[p], endpoint))
      BY <2>4
    <3>2. server'[held[p]] = "masque"
      BY <1>1, <1>3 DEF IInv
    <3>3. Enrolled(register_doc(held[p], endpoint), server')
      BY <1>1, <3>2, RegisteredEnrolled
    <3>4. ProcOK("patched", register_doc(held[p], endpoint), server')
      BY <3>3, HoldsOK DEF Writing
    <3> QED
      BY <2>2, <2>4, <3>1, <3>4, ProcessProceeds
  <2> QED
    BY <1>3, <2>3, <2>4
<1> QED
  BY <1>2, <1>3 DEF PatchReg

\* The two ways a file is opened for writing.
LEMMA OpenStep ==
  ASSUME IInv, NEW p \in Procs, OpenNew(p) \/ OpenSave(p)
  PROVE  IInv'
<1>1. /\ server' = server /\ server' \in [Devices -> Stages]
      /\ \A d \in Devices : server[d] = "masque" => server'[d] = "masque"
      /\ FileOK(file, server') /\ FileOK(Torn, server')
  BY SameServer, FilesOK DEF OpenNew, OpenSave
<1>2. CASE Return(p, "failed") /\ UNCHANGED file
  BY <1>1, <1>2, ProcessReturns
<1>3. CASE /\ pc[p] = "patched" /\ Proceed(p, "registering", held[p])
           /\ file' = Torn
  <2>1. Enrolled(held[p], server')
    BY <1>1, <1>3 DEF IInv, ProcOK, Writing
  <2>2. ProcOK("registering", held[p], server')
    BY <2>1, HoldsOK DEF Writing
  <2> QED
    BY <1>1, <1>3, <2>2, ProcessProceeds
<1>4. CASE /\ pc[p] = "loaded" /\ Proceed(p, "saving", serialize(held[p]))
           /\ file' = Torn
  <2>1. Usable(held[p], server') /\ Shaped(held[p])
    BY <1>1, <1>4 DEF IInv, ProcOK, Using
  <2>2. Enrolled(serialize(held[p]), server')
    BY <2>1, SerializedEnrolled
  <2>3. ProcOK("saving", serialize(held[p]), server')
    BY <2>2, HoldsOK DEF Writing
  <2> QED
    BY <1>1, <1>4, <2>3, ProcessProceeds
<1> QED
  BY <1>2, <1>3, <1>4 DEF OpenNew, OpenSave

\* What a process leaves when it closes the file.
LEMMA CloseStep ==
  ASSUME IInv, NEW p \in Procs, Close(p)
  PROVE  IInv'
<1>1. /\ server' \in [Devices -> Stages]
      /\ \A d \in Devices : server[d] = "masque" => server'[d] = "masque"
      /\ server' = server
  BY SameServer DEF Close
<1>2. Enrolled(held[p], server')
  BY <1>1 DEF Close, IInv, ProcOK, Writing
<1>3. file' \in {Whole(held[p]), Torn}
  BY DEF Close
<1>4. FileOK(file', server')
  BY <1>2, <1>3, FilesOK
<1>5. PICK how \in {"ok", "failed"} : Return(p, how)
  BY DEF Close
<1> QED
  BY <1>1, <1>4, <1>5, ProcessReturns

\* A file is loaded.
LEMMA LoadStep ==
  ASSUME IInv, NEW p \in Procs, Load(p)
  PROVE  IInv'
<1>1. /\ server' \in [Devices -> Stages]
      /\ \A d \in Devices : server[d] = "masque" => server'[d] = "masque"
      /\ FileOK(file', server') /\ file' = file
  BY SameServer DEF Load
<1>2. CASE file.kind = "whole" /\ Accepted(file.doc)
  <2>1. /\ Usable(parse_document(file.doc), server')
        /\ Shaped(parse_document(file.doc))
    BY <1>1, <1>2, ParsedUsable, ParsedShaped DEF FileOK, Enrolled
  <2>2. ProcOK("loaded", parse_document(file.doc), server')
    BY <2>1, HoldsOK
  <2> QED
    BY <1>1, <1>2, <2>2, ProcessProceeds DEF Load
<1>3. CASE ~(file.kind = "whole" /\ Accepted(file.doc))
  BY <1>1, <1>3, ProcessReturns DEF Load
<1> QED
  BY <1>2, <1>3

\* A loaded configuration is run, or destroyed, and a process may crash.
LEMMA UseStep ==
  ASSUME IInv, NEW p \in Procs, Check(p) \/ Run(p) \/ Crash(p)
  PROVE  IInv'
<1>1. /\ server' = server /\ server' \in [Devices -> Stages]
      /\ \A d \in Devices : server[d] = "masque" => server'[d] = "masque"
      /\ FileOK(file', server')
  BY SameServer DEF Check, Run, Crash
<1>2. CASE Check(p)
  BY <1>1, <1>2, ProcessReturns DEF Check
<1>3. CASE Crash(p)
  BY <1>1, <1>3, ProcessReturns DEF Crash
<1>4. CASE Run(p)
  <2>1. Usable(held[p], server')
    BY <1>1, <1>4 DEF IInv, ProcOK, Using, Run
  <2>2. ProcOK("running", build_tunnel_config(held[p]), server')
    BY <2>1, BuiltUsable, HoldsOK
  <2> QED
    BY <1>1, <1>4, <2>2, ProcessProceeds DEF Run
<1> QED
  BY <1>2, <1>3, <1>4

\* An edit leaves the id of the account in the file.
LEMMA EditStep ==
  ASSUME IInv, Edit
  PROVE  IInv'
<1>1. UNCHANGED <<server, pc, held, told>> /\ file.kind = "whole"
  BY DEF Edit
<1> DEFINE old == file.doc
           New(settings) ==
             [name \in DOMAIN settings \union Account |->
               IF name \in DOMAIN settings THEN settings[name] ELSE old[name]]
<1>2. PICK settings \in Edits : file' = Whole(New(settings))
  BY DEF Edit
<1> DEFINE doc == New(settings)
<1>3. "id" \in Account /\ "dns" \notin Account
  BY DEF Account
<1>4. /\ DOMAIN doc = DOMAIN settings \union Account
      /\ \A x \in DOMAIN settings \union Account :
           doc[x] = IF x \in DOMAIN settings THEN settings[x] ELSE old[x]
  OBVIOUS
<1> HIDE DEF doc, old
<1>5. /\ "id" \notin DOMAIN settings
      /\ "dns" \in DOMAIN settings => IsList(settings["dns"])
  BY ConfigAssumption DEF IsList
<1>6. Enrolled(old, server)
  BY <1>1 DEF IInv, FileOK, old
<1>7. /\ "id" \in DOMAIN doc /\ doc["id"] = old["id"]
      /\ "dns" \in DOMAIN doc => IsList(doc["dns"])
  BY <1>3, <1>4, <1>5
<1>8. Enrolled(doc, server)
  <2>1. ASSUME NEW name \in DurationNames \intersect DOMAIN doc
        PROVE  doc[name] \in Texts
    <3>1. name \in DOMAIN settings
      BY <1>4 DEF DurationNames, Account
    <3> QED
      BY <1>4, <3>1, ConfigAssumption
  <2>2. ASSUME NEW name \in DurationNames, NEW default \in Nat
        PROVE  DurationOK(doc, name, default)
    <3> DEFINE ms == get_duration_ms(doc, name, default)
    <3>1. name \notin Account
      BY DEF DurationNames, Account
    <3>2. Get(doc, name, Nothing) = Get(settings, name, Nothing)
      BY <1>4, <3>1 DEF Get
    <3>3. ms = get_duration_ms(settings, name, default)
      BY <3>2 DEF get_duration_ms
    <3>4. ms \in Int
      BY <2>1, DurationsRead
    <3> HIDE DEF ms
    <3>5. ms < 0 => WrittenNegative(name, default, ms)
      BY <3>3 DEF WrittenNegative
    <3>6. ms # 0 => PositiveUnlessWritten(name, default, ms)
      BY <3>4, <3>5 DEF PositiveUnlessWritten
    <3> QED
      BY <3>6 DEF DurationOK, ms
  <2>3. Delays(doc)
    BY <2>2 DEF Delays, DurationNames
  <2> QED
    BY <1>6, <1>7, <2>1, <2>3 DEF Enrolled
<1>9. file' = Whole(doc)
  BY <1>2 DEF doc
<1>10. FileOK(file', server')
  BY <1>1, <1>8, <1>9, FilesOK
<1> QED
  BY <1>1, <1>10 DEF IInv

-----------------------------------------------------------------------------
(* The theorems.                                                           *)

\* Whatever processes, the service and editors do, the file and what each
\* process holds are all right.
THEOREM ConfigInvariant == Spec => []IInv
<1>1. Init => IInv
  <2> SUFFICES ASSUME Init
               PROVE  IInv
    OBVIOUS
  <2>1. /\ server \in [Devices -> Stages] /\ pc \in [Procs -> Places]
        /\ told \in [Procs -> {"none", "ok", "failed"}]
        /\ DOMAIN held = Procs
    BY DEF Init, Stages, Places
  <2>2. FileOK(file, server)
    BY FilesOK DEF Init
  <2>3. \A p \in Procs : ProcOK(pc[p], held[p], server)
    BY DEF Init, ProcOK, Places, Writing, Using
  <2> QED
    BY <2>1, <2>2, <2>3 DEF IInv
<1>2. IInv /\ [Next]_vars => IInv'
  <2> SUFFICES ASSUME IInv, [Next]_vars
               PROVE  IInv'
    OBVIOUS
  <2>1. ASSUME NEW p \in Procs,
               \/ PostReg(p) \/ PatchReg(p) \/ OpenNew(p)
               \/ Load(p) \/ Check(p) \/ Run(p) \/ OpenSave(p)
               \/ Close(p) \/ Crash(p)
        PROVE  IInv'
    BY <2>1, PostStep, PatchStep, OpenStep, LoadStep, UseStep, CloseStep
  <2>2. CASE Edit
    BY <2>2, EditStep
  <2>3. CASE UNCHANGED vars
    BY <2>3 DEF vars, IInv
  <2> QED
    BY <2>1, <2>2, <2>3 DEF Next
<1> QED
  BY <1>1, <1>2, PTL DEF Spec

\* A process holds something just while it is in the middle of a command.
THEOREM TypeCorrect == Spec => []TypeOK
<1>1. IInv => TypeOK
  BY DEF IInv, TypeOK, FileOK, ProcOK, Places, Stages
<1> QED
  BY <1>1, ConfigInvariant, PTL

\* cmd_register, usque_config_save_file: no order of registrations, failed
\* requests, crashes, saves and edits leaves a file, a writer or a tunnel with
\* an account that the service has not taken the key of.
THEOREM AccountsAreEnrolled == Spec => []AccountsEnrolled
<1>1. IInv => AccountsEnrolled
  <2> SUFFICES ASSUME IInv
               PROVE  AccountsEnrolled
    OBVIOUS
  <2>1. file.kind = "whole" => server[file.doc.id] = "masque"
    BY DEF IInv, FileOK, Enrolled
  <2>2. ASSUME NEW p \in Procs, pc[p] \in Writing \union Using
        PROVE  server[DeviceOf(p)] = "masque"
    <3>1. ProcOK(pc[p], held[p], server)
      BY DEF IInv
    <3>2. CASE pc[p] \in Using
      BY <3>1, <3>2 DEF ProcOK, Usable, DeviceOf
    <3>3. CASE pc[p] \notin Using
      BY <2>2, <3>1, <3>3 DEF ProcOK, Enrolled, DeviceOf
    <3> QED
      BY <3>2, <3>3
  <2> QED
    BY <2>1, <2>2 DEF AccountsEnrolled
<1> QED
  BY <1>1, ConfigInvariant, PTL

\* usque_config_build_tunnel_config: a tunnel is started with a key, an MTU
\* above zero, as many DNS servers as there is room for and at least one, noise
\* ranges that are not empty, and with durations above zero unless somebody
\* wrote the negative one into the file.
THEOREM RunsAreValid == Spec => []RunsValid
<1>1. IInv => RunsValid
  <2> SUFFICES ASSUME IInv, NEW p \in Procs, pc[p] = "running"
               PROVE  LET cfg == held[p] IN
                      /\ cfg.private_key # NoKey /\ cfg.mtu > 0
                      /\ Len(cfg.dns) \in 1 .. MaxDns
                      /\ PositiveUnlessWritten("keepalive_period", 30000,
                                               cfg.keepalive_ms)
                      /\ PositiveUnlessWritten("reconnect_delay", 1000,
                                               cfg.reconnect_delay_ms)
                      /\ cfg.noise.enabled =>
                           /\ cfg.noise.min_size <= cfg.noise.max_size
                           /\ cfg.noise.delay_min_ms <= cfg.noise.delay_max_ms
    BY DEF RunsValid
  <2>1. Usable(held[p], server) /\ Len(held[p].dns) <= MaxDns
    BY DEF IInv, ProcOK, Using
  <2>2. Len(held[p].dns) \in 1 .. MaxDns
    <3>1. held[p].dns \in Seq(Range(held[p].dns)) /\ held[p].dns # <<>>
      BY <2>1 DEF Usable, IsList
    <3>2. Len(held[p].dns) \in Nat \ {0}
      BY <3>1, EmptySeq
    <3> QED
      BY <2>1, <3>2, ConfigAssumption
  <2> QED
    BY <2>1, <2>2 DEF Usable, validate, validate_noise
<1> QED
  BY <1>1, ConfigInvariant, PTL

\* What is read of a duration that was written.
ReadBack(ms, d) == parse_duration_ms(format_duration_ms(ms), d)

\* A duration of a configuration that is saved and loaded: the default d of
\* an absent or zero member counts.
Kept(ms, d) == IF ReadBack(ms, d) = 0 THEN d ELSE ReadBack(ms, d)

\* A duration is kept or becomes the default, and stays what it became.
LEMMA Settles ==
  ASSUME NEW ms \in Int, NEW d \in Nat
  PROVE  /\ Kept(ms, d) \in {ms, d}
         /\ Kept(ms, d) \in Int
         /\ Kept(Kept(ms, d), d) = Kept(ms, d)
         /\ ReadBack(ms, 0) = Kept(ms, 0)
<1>1. \A n, e \in Int : /\ n > 0 => ReadBack(n, e) \in {n, e}
                        /\ n <= 0 => ReadBack(n, e) = 0
  BY DurationKept DEF ReadBack
<1>2. \A n, e : Kept(n, e) = IF ReadBack(n, e) = 0 THEN e ELSE ReadBack(n, e)
  BY DEF Kept
<1>3. Kept(d, d) = d
  BY <1>1, <1>2
<1>4. Kept(ms, d) = d \/ (Kept(ms, d) = ms /\ ms > 0)
  BY <1>1, <1>2
<1>5. ReadBack(ms, 0) = Kept(ms, 0)
  BY <1>2
<1>6. Kept(ms, d) \in {ms, d} /\ Kept(ms, d) \in Int
  BY <1>4
<1>7. Kept(Kept(ms, d), d) = Kept(ms, d)
  BY <1>3, <1>4
<1> QED
  BY <1>5, <1>6, <1>7

\* Two configurations that differ in durations alone.
Alike(x, y) ==
  /\ x.private_key = y.private_key /\ x.device = y.device
  /\ x.reachable = y.reachable /\ x.mtu = y.mtu /\ x.dns = y.dns
  /\ x.congestion = y.congestion
  /\ x.noise.enabled = y.noise.enabled /\ x.noise.count = y.noise.count
  /\ x.noise.min_size = y.noise.min_size
  /\ x.noise.max_size = y.noise.max_size

\* Configurations that do not differ in durations either are the same.
LEMMA AlikeIsSame ==
  ASSUME NEW x, NEW y, Shaped(x), Shaped(y), Alike(x, y),
         x.keepalive_ms = y.keepalive_ms,
         x.reconnect_delay_ms = y.reconnect_delay_ms,
         x.noise.delay_min_ms = y.noise.delay_min_ms,
         x.noise.delay_max_ms = y.noise.delay_max_ms
  PROVE  x = y
<1> DEFINE N == [enabled : {y.noise.enabled}, count : {y.noise.count},
                 min_size : {y.noise.min_size}, max_size : {y.noise.max_size},
                 delay_min_ms : {y.noise.delay_min_ms},
                 delay_max_ms : {y.noise.delay_max_ms}]
           S == [private_key : {y.private_key}, device : {y.device},
                 reachable : {y.reachable}, mtu : {y.mtu}, dns : {y.dns},
                 keepalive_ms : {y.keepalive_ms},
                 reconnect_delay_ms : {y.reconnect_delay_ms},
                 congestion : {y.congestion}, noise : {y.noise}]
<1>1. x.noise \in N /\ y.noise \in N
  BY DEF Shaped, Alike
<1>2. x.noise = y.noise
  BY <1>1
<1>3. x \in S /\ y \in S
  BY <1>2 DEF Shaped, Full, Alike
<1> QED
  BY <1>3

\* What a configuration is after it was saved and loaded.
LEMMA ReloadedIs ==
  ASSUME NEW cfg, Shaped(cfg), cfg.mtu # 0, cfg.dns # <<>>
  PROVE  LET r == Reloaded(cfg)
         IN  /\ Shaped(r) /\ Alike(r, cfg)
             /\ r.keepalive_ms = Kept(cfg.keepalive_ms, 30000)
             /\ r.reconnect_delay_ms = Kept(cfg.reconnect_delay_ms, 1000)
             /\ r.noise.delay_min_ms = Kept(cfg.noise.delay_min_ms, 0)
             /\ r.noise.delay_max_ms = Kept(cfg.noise.delay_max_ms, 0)
<1> DEFINE doc == serialize(cfg)
           c == parse_settings(doc)
           r == Defaulted(c)
<1>1. /\ Get(doc, "private_key", NoKey) = cfg.private_key
      /\ Get(doc, "id", NoKey) = cfg.device
      /\ Get(doc, "mtu", 1280) = cfg.mtu
      /\ Get(doc, "dns", <<>>) = cfg.dns
  BY DEF serialize, Get
<1>2. /\ Get(doc, "congestion", "bbr") = cfg.congestion.type
      /\ Get(doc, "brutal_bps", 0) = cfg.congestion.brutal_bps
      /\ Get(doc, "count", 0) = cfg.noise.count
      /\ Get(doc, "min_size", 0) = cfg.noise.min_size
      /\ Get(doc, "max_size", 0) = cfg.noise.max_size
  BY DEF serialize, Get
<1>3. Get(doc, "endpoint_v4", FALSE) = cfg.reachable
  BY DEF serialize, Get
<1>4. Get(doc, "enabled", FALSE) = cfg.noise.enabled
  BY DEF serialize, Get
<1>5. /\ get_duration_ms(doc, "keepalive_period", 30000) =
           ReadBack(cfg.keepalive_ms, 30000)
      /\ get_duration_ms(doc, "reconnect_delay", 1000) =
           ReadBack(cfg.reconnect_delay_ms, 1000)
      /\ get_duration_ms(doc, "delay_min", 0) =
           ReadBack(cfg.noise.delay_min_ms, 0)
      /\ get_duration_ms(doc, "delay_max", 0) =
           ReadBack(cfg.noise.delay_max_ms, 0)
  BY SerializedTexts DEF get_duration_ms, Get, DurationNames, ReadBack
<1>6. Shaped(Reloaded(cfg))
  BY SerializedTexts, ParsedShaped DEF Reloaded
<1> HIDE DEF doc
<1>7. parse_congestion(doc) = cfg.congestion
  BY <1>2 DEF parse_congestion, Shaped
<1>8. /\ Full(c)
      /\ c.private_key = cfg.private_key /\ c.device = cfg.device
      /\ c.reachable = cfg.reachable /\ c.mtu = cfg.mtu /\ c.dns = cfg.dns
      /\ c.keepalive_ms = ReadBack(cfg.keepalive_ms, 30000)
      /\ c.reconnect_delay_ms = ReadBack(cfg.reconnect_delay_ms, 1000)
      /\ c.congestion = cfg.congestion /\ c.noise = parse_noise(doc)
  <2>1. /\ Full(c)
        /\ c.private_key = Get(doc, "private_key", NoKey)
        /\ c.device = Get(doc, "id", NoKey)
        /\ c.mtu = Get(doc, "mtu", 1280) /\ c.dns = Get(doc, "dns", <<>>)
        /\ c.keepalive_ms = get_duration_ms(doc, "keepalive_period", 30000)
        /\ c.reconnect_delay_ms =
             get_duration_ms(doc, "reconnect_delay", 1000)
        /\ c.congestion = parse_congestion(doc) /\ c.noise = parse_noise(doc)
    BY DEF parse_settings, Full
  <2>2. c.reachable = Get(doc, "endpoint_v4", FALSE)
    BY DEF parse_settings
  <2> HIDE DEF c
  <2>3. c.reachable = cfg.reachable
    BY <1>3, <2>2, Zenon
  <2> QED
    BY <1>1, <1>5, <1>7, <2>1, <2>3
<1>9. LET nc == parse_noise(doc)
      IN  /\ nc.enabled = cfg.noise.enabled /\ nc.count = cfg.noise.count
          /\ nc.min_size = cfg.noise.min_size
          /\ nc.max_size = cfg.noise.max_size
          /\ nc.delay_min_ms = ReadBack(cfg.noise.delay_min_ms, 0)
          /\ nc.delay_max_ms = ReadBack(cfg.noise.delay_max_ms, 0)
  <2> DEFINE nc == parse_noise(doc)
  <2>1. /\ nc.count = Get(doc, "count", 0)
        /\ nc.min_size = Get(doc, "min_size", 0)
        /\ nc.max_size = Get(doc, "max_size", 0)
        /\ nc.delay_min_ms = get_duration_ms(doc, "delay_min", 0)
        /\ nc.delay_max_ms = get_duration_ms(doc, "delay_max", 0)
    BY DEF parse_noise
  <2>2. nc.enabled = Get(doc, "enabled", FALSE)
    BY DEF parse_noise
  <2> HIDE DEF nc
  <2>3. nc.enabled = cfg.noise.enabled
    BY <1>4, <2>2, Zenon
  <2> QED
    BY <1>2, <1>5, <2>1, <2>3 DEF nc
<1> HIDE DEF c
<1>10. Reloaded(cfg) = r
  <2>1. Reloaded(cfg) = apply_defaults(c)
    BY DEF Reloaded, parse_document, doc, c
  <2> QED
    BY <1>8, <2>1, DefaultsAre
<1>11. /\ r.private_key = c.private_key /\ r.device = c.device
       /\ r.reachable = c.reachable /\ r.mtu = c.mtu /\ r.dns = c.dns
       /\ r.keepalive_ms =
            IF c.keepalive_ms = 0 THEN 30000 ELSE c.keepalive_ms
       /\ r.reconnect_delay_ms =
            IF c.reconnect_delay_ms = 0 THEN 1000 ELSE c.reconnect_delay_ms
       /\ r.congestion = c.congestion /\ r.noise = c.noise
  BY <1>8 DEF Defaulted
<1> HIDE DEF r
<1>12. Alike(r, cfg)
  BY <1>8, <1>9, <1>11 DEF Alike
<1>13. /\ r.keepalive_ms = Kept(cfg.keepalive_ms, 30000)
       /\ r.reconnect_delay_ms = Kept(cfg.reconnect_delay_ms, 1000)
  BY <1>8, <1>11 DEF Kept
<1>14. /\ r.noise.delay_min_ms = Kept(cfg.noise.delay_min_ms, 0)
       /\ r.noise.delay_max_ms = Kept(cfg.noise.delay_max_ms, 0)
  <2>1. /\ ReadBack(cfg.noise.delay_min_ms, 0) =
             Kept(cfg.noise.delay_min_ms, 0)
        /\ ReadBack(cfg.noise.delay_max_ms, 0) =
             Kept(cfg.noise.delay_max_ms, 0)
    BY Settles DEF Shaped
  <2> QED
    BY <1>8, <1>9, <1>11, <2>1
<1> QED
  BY <1>6, <1>10, <1>12, <1>13, <1>14

\* The configuration with other durations.
Timed(cfg, k, w, a, b) ==
  [cfg EXCEPT !.keepalive_ms       = k,
              !.reconnect_delay_ms = w,
              !.noise.delay_min_ms = a,
              !.noise.delay_max_ms = b]

\* It is a configuration with these durations and the other settings of cfg.
LEMMA TimedIs ==
  ASSUME NEW cfg, Shaped(cfg), NEW k, NEW w, NEW a, NEW b,
         k \in Int, w \in Int, a \in Int, b \in Int
  PROVE  LET e == Timed(cfg, k, w, a, b)
         IN  /\ Shaped(e) /\ Alike(e, cfg)
             /\ e.keepalive_ms = k /\ e.reconnect_delay_ms = w
             /\ e.noise.delay_min_ms = a /\ e.noise.delay_max_ms = b
<1> DEFINE nc == cfg.noise
           N == [enabled : {nc.enabled}, count : {nc.count},
                 min_size : {nc.min_size}, max_size : {nc.max_size},
                 delay_min_ms : Int, delay_max_ms : Int]
           n1 == [nc EXCEPT !.delay_min_ms = a]
           n2 == [n1 EXCEPT !.delay_max_ms = b]
           S == [private_key : {cfg.private_key}, device : {cfg.device},
                 reachable : {cfg.reachable}, mtu : {cfg.mtu},
                 dns : {cfg.dns}, keepalive_ms : Int,
                 reconnect_delay_ms : Int, congestion : {cfg.congestion},
                 noise : N]
           e1 == [cfg EXCEPT !.keepalive_ms = k, !.reconnect_delay_ms = w]
           e2 == [e1 EXCEPT !.noise = n1]
           e3 == [e2 EXCEPT !.noise = n2]
<1>1. nc \in N
  BY DEF Shaped
<1>2. n2 \in N /\ n2.delay_min_ms = a /\ n2.delay_max_ms = b
  BY <1>1
<1>3. n1 \in N
  BY <1>1
<1>4. cfg \in S
  BY <1>1 DEF Shaped, Full
<1> HIDE DEF N
<1>5. e1 \in S /\ e1.keepalive_ms = k /\ e1.reconnect_delay_ms = w
      /\ e1.noise = nc
  BY <1>4
<1>6. Timed(cfg, k, w, a, b) = e3
  BY <1>5 DEF Timed
<1> HIDE DEF n1, n2, e1, nc
<1>7. e3 \in S /\ e3.keepalive_ms = k /\ e3.reconnect_delay_ms = w
      /\ e3.noise = n2
  BY <1>2, <1>3, <1>5
<1> HIDE DEF e3
<1>8. Full(e3) /\ Alike(e3, cfg)
  BY <1>2, <1>7 DEF Full, Alike, N, nc
<1>9. Shaped(e3)
  BY <1>7, <1>8 DEF Shaped, N
<1> QED
  BY <1>2, <1>6, <1>7, <1>8, <1>9

\* usque_config_save_file, usque_config_load_file: a save and a load change
\* no setting but a duration, a duration only to its default, and a second
\* save and load change nothing.
THEOREM SavesKeep == Spec => []SaveKeeps
<1>1. IInv => SaveKeeps
  <2> SUFFICES ASSUME IInv, NEW p \in Procs, pc[p] = "loaded"
               PROVE  Keeps(held[p])
    BY DEF SaveKeeps
  <2> DEFINE cfg == held[p]
             r == Reloaded(cfg)
             e == [cfg EXCEPT !.keepalive_ms       = r.keepalive_ms,
                              !.reconnect_delay_ms = r.reconnect_delay_ms,
                              !.noise.delay_min_ms = r.noise.delay_min_ms,
                              !.noise.delay_max_ms = r.noise.delay_max_ms]
  <2>1. Shaped(cfg) /\ Usable(cfg, server)
    BY DEF IInv, ProcOK, Using
  <2>2. cfg.mtu # 0 /\ cfg.dns # <<>>
    BY <2>1 DEF Usable, validate
  <2> HIDE DEF cfg
  <2>3. /\ Shaped(r) /\ Alike(r, cfg)
        /\ r.keepalive_ms = Kept(cfg.keepalive_ms, 30000)
        /\ r.reconnect_delay_ms = Kept(cfg.reconnect_delay_ms, 1000)
        /\ r.noise.delay_min_ms = Kept(cfg.noise.delay_min_ms, 0)
        /\ r.noise.delay_max_ms = Kept(cfg.noise.delay_max_ms, 0)
    BY <2>1, <2>2, ReloadedIs
  <2> HIDE DEF r
  <2>4. /\ cfg.keepalive_ms \in Int /\ cfg.reconnect_delay_ms \in Int
        /\ cfg.noise.delay_min_ms \in Int /\ cfg.noise.delay_max_ms \in Int
        /\ 30000 \in Nat /\ 1000 \in Nat /\ 0 \in Nat
    BY <2>1 DEF Shaped
  <2> DEFINE Settled(ms, d) == /\ Kept(ms, d) \in {ms, d}
                               /\ Kept(Kept(ms, d), d) = Kept(ms, d)
  <2>5. /\ Settled(cfg.keepalive_ms, 30000)
        /\ Settled(cfg.reconnect_delay_ms, 1000)
        /\ Settled(cfg.noise.delay_min_ms, 0)
        /\ Settled(cfg.noise.delay_max_ms, 0)
    <3>1. \A ms \in Int : \A d \in Nat : Settled(ms, d)
      BY Settles
    <3> HIDE DEF Settled
    <3> QED
      BY <2>4, <3>1
  <2>6. /\ r.keepalive_ms \in {cfg.keepalive_ms, 30000}
        /\ r.reconnect_delay_ms \in {cfg.reconnect_delay_ms, 1000}
        /\ r.noise.delay_min_ms \in {cfg.noise.delay_min_ms, 0}
        /\ r.noise.delay_max_ms \in {cfg.noise.delay_max_ms, 0}
    BY <2>3, <2>5
  <2>7. r = e
    <3>1. /\ Shaped(e) /\ Alike(e, cfg)
          /\ e.keepalive_ms = r.keepalive_ms
          /\ e.reconnect_delay_ms = r.reconnect_delay_ms
          /\ e.noise.delay_min_ms = r.noise.delay_min_ms
          /\ e.noise.delay_max_ms = r.noise.delay_max_ms
      <4>1. /\ r.keepalive_ms \in Int /\ r.reconnect_delay_ms \in Int
            /\ r.noise.delay_min_ms \in Int /\ r.noise.delay_max_ms \in Int
        BY <2>3 DEF Shaped
      <4>2. e = Timed(cfg, r.keepalive_ms, r.reconnect_delay_ms,
                      r.noise.delay_min_ms, r.noise.delay_max_ms)
        BY DEF Timed
      <4> HIDE DEF e
      <4> QED
        BY <2>1, <4>1, <4>2, TimedIs
    <3> HIDE DEF e
    <3>2. Alike(r, e)
      BY <2>3, <3>1 DEF Alike
    <3> QED
      BY <2>3, <3>1, <3>2, AlikeIsSame
  <2>8. Reloaded(r) = r
    <3>1. r.mtu # 0 /\ r.dns # <<>>
      BY <2>2, <2>3 DEF Alike
    <3> DEFINE rr == Reloaded(r)
    <3>2. /\ Shaped(rr) /\ Alike(rr, r)
          /\ rr.keepalive_ms = Kept(r.keepalive_ms, 30000)
          /\ rr.reconnect_delay_ms = Kept(r.reconnect_delay_ms, 1000)
          /\ rr.noise.delay_min_ms = Kept(r.noise.delay_min_ms, 0)
          /\ rr.noise.delay_max_ms = Kept(r.noise.delay_max_ms, 0)
      BY <2>3, <3>1, ReloadedIs
    <3> HIDE DEF rr
    <3>3. /\ rr.keepalive_ms = r.keepalive_ms
          /\ rr.reconnect_delay_ms = r.reconnect_delay_ms
          /\ rr.noise.delay_min_ms = r.noise.delay_min_ms
          /\ rr.noise.delay_max_ms = r.noise.delay_max_ms
      BY <2>3, <2>5, <3>2
    <3> QED
      BY <2>3, <3>2, <3>3, AlikeIsSame DEF rr
  <2>9. Accepted(serialize(cfg)) => Accepted(serialize(r))
    <3>1. \A c : Get(serialize(c), "type", "") = "tun"
      BY DEF serialize, Get
    <3>2. \A c : Accepted(serialize(c)) <=> validate(Reloaded(c))
      BY <3>1 DEF Accepted, Reloaded
    <3> QED
      BY <2>8, <3>2 DEF r
  <2> QED
    BY <2>6, <2>7, <2>8, <2>9 DEF r, cfg, e, Keeps
<1> QED
  BY <1>1, ConfigInvariant, PTL

\* cmd_register: the old file is gone only once a whole document of an
\* enrolled device is in hand.
THEOREM ReplacementIsInHand == Spec => ReplacementInHand
<1>1. IInv /\ [Next]_vars =>
        [file.kind = "whole" /\ file'.kind # "whole" =>
           \E p \in Procs : /\ pc[p] \in Writing \union Using
                            /\ server[DeviceOf(p)] = "masque"]_vars
  <2> SUFFICES ASSUME IInv, Next, file.kind = "whole", file'.kind # "whole"
               PROVE  \E p \in Procs : /\ pc[p] \in Writing \union Using
                                       /\ server[DeviceOf(p)] = "masque"
    OBVIOUS
  <2>1. ~Edit
    <3>1. \A doc : Whole(doc).kind = "whole"
      BY DEF Whole
    <3>2. Edit => \E doc : file' = Whole(doc)
      BY Zenon DEF Edit
    <3> QED
      BY <3>1, <3>2
  <2>2. PICK p \in Procs : OpenNew(p) \/ OpenSave(p) \/ Close(p)
    BY <2>1 DEF Next, PostReg, PatchReg, RequestFails, Load, Check, Run, Crash
  <2>3. pc[p] \in Writing \union Using
    BY <2>2 DEF OpenNew, OpenSave, Close, Writing, Using
  <2>4. ProcOK(pc[p], held[p], server)
    BY DEF IInv
  <2>5. CASE pc[p] \in Using
    BY <2>3, <2>4, <2>5 DEF ProcOK, Usable, DeviceOf
  <2>6. CASE pc[p] \notin Using
    BY <2>3, <2>4, <2>6 DEF ProcOK, Enrolled, DeviceOf
  <2> QED
    BY <2>5, <2>6
<1> QED
  BY <1>1, ConfigInvariant, PTL DEF Spec, ReplacementInHand
=============================================================================
