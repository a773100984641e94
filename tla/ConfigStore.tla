---------------------------- MODULE ConfigStore ----------------------------
(***************************************************************************)
(* The configuration file and the processes that share it: `register`      *)
(* (src/main.cpp, src/api) enrols a device in two requests and writes a    *)
(* new file; `run`, `check` and users of the library load a file           *)
(* (src/config/parse.cpp, defaults.cpp, validate.cpp); a user of the       *)
(* library saves what it loaded (serialize.cpp); somebody edits the file.  *)
(* Processes crash at any point, requests and their answers get lost, and  *)
(* the disk may be full.                                                   *)
(*                                                                         *)
(* A document is a function from the names of its members to their values. *)
(* A member of the wrong JSON type reads as an absent one and is not       *)
(* represented.  Of the members that are copied as they are, one stands    *)
(* for all (id); of the two noise sections, noise.                         *)
(*                                                                         *)
(* A definition named <definition>_<slip> is the definition with a slip a  *)
(* change of the code could make; Next uses none of them.                  *)
(***************************************************************************)
EXTENDS Duration, TLC

CONSTANTS Procs,     \* processes that run a command or use the library
          Devices,   \* devices the service can hand out (bounds registrations)
          NoKey,     \* the empty private_key or id
          Edits,     \* settings somebody may write into the file by hand
          MaxDns     \* USQUE_MAX_DNS_COUNT

DurationNames == {"keepalive_period", "reconnect_delay", "delay_min", "delay_max"}

\* A device is none of the values a process holds otherwise, an edit leaves
\* the id of the account alone, DNS servers are a list and durations texts.
ASSUME ConfigAssumption ==
  /\ NoKey \notin Devices /\ <<>> \notin Devices
  /\ MaxDns \in Nat \ {0}
  /\ \A settings \in Edits :
       /\ "id" \notin DOMAIN settings
       /\ "dns" \in DOMAIN settings =>
            settings["dns"] \in Seq(Range(settings["dns"]))
       /\ \A name \in DurationNames \intersect DOMAIN settings :
            settings[name] \in Texts

VARIABLES
  file,      \* the file: absent, torn (not a JSON document) or whole
  server,    \* server[d]: how far the service has enrolled device d
  pc,        \* pc[p]: where p is
  held,      \* held[p]: the device, configuration or document p works on
  told       \* told[p]: how p's last command ended

vars == <<file, server, pc, held, told>>

Nothing    == <<>>
Absent     == [kind |-> "absent", doc |-> Nothing]
Torn       == [kind |-> "torn",   doc |-> Nothing]
Whole(doc) == [kind |-> "whole",  doc |-> doc]

-----------------------------------------------------------------------------
(* Reading a document.                                                     *)

\* get_string, get_int, get_bool, get_uint64: the member, or the default.
Get(doc, name, default) == IF name \in DOMAIN doc THEN doc[name] ELSE default

get_duration_ms(doc, name, default) ==
  parse_duration_ms(Get(doc, name, Nothing), default)

parse_noise(doc) ==
  [enabled      |-> Get(doc, "enabled", FALSE),
   count        |-> Get(doc, "count", 0),
   min_size     |-> Get(doc, "min_size", 0),
   max_size     |-> Get(doc, "max_size", 0),
   delay_min_ms |-> get_duration_ms(doc, "delay_min", 0),
   delay_max_ms |-> get_duration_ms(doc, "delay_max", 0)]

\* An unknown type reads as bbr.
parse_congestion(doc) ==
  LET type == Get(doc, "congestion", "bbr")
  IN  [type       |-> IF type \in {"reno", "brutal"} THEN type ELSE "bbr",
       brutal_bps |-> Get(doc, "brutal_bps", 0)]

parse_settings(doc) ==
  [private_key        |-> Get(doc, "private_key", NoKey),
   device             |-> Get(doc, "id", NoKey),
   reachable          |-> Get(doc, "endpoint_v4", FALSE),
   mtu                |-> Get(doc, "mtu", 1280),
   dns                |-> Get(doc, "dns", <<>>),
   keepalive_ms       |-> get_duration_ms(doc, "keepalive_period", 30000),
   reconnect_delay_ms |-> get_duration_ms(doc, "reconnect_delay", 1000),
   congestion         |-> parse_congestion(doc),
   noise              |-> parse_noise(doc)]

\* A slip: the pause is left as it is read.
apply_defaults_noDelay(cfg) ==
  [cfg EXCEPT
     !.mtu          = IF @ = 0 THEN 1280 ELSE @,
     !.dns          = IF @ = <<>> THEN <<"v4", "v6">> ELSE @,
     !.keepalive_ms = IF @ = 0 THEN 30000 ELSE @]

\* A zero or an empty list counts as not given; a negative number does not.
apply_defaults(cfg) ==
  [cfg EXCEPT
     !.mtu                = IF @ = 0 THEN 1280 ELSE @,
     !.dns                = IF @ = <<>> THEN <<"v4", "v6">> ELSE @,
     !.keepalive_ms       = IF @ = 0 THEN 30000 ELSE @,
     !.reconnect_delay_ms = IF @ = 0 THEN 1000 ELSE @]

validate_congestion(cc) == (cc.brutal_bps # 0) = (cc.type = "brutal")

\* A slip: the delays are compared the wrong way round.
validate_noise_swapped(nc) ==
  nc.enabled => /\ nc.count >= 0
                /\ nc.min_size <= nc.max_size
                /\ nc.delay_max_ms <= nc.delay_min_ms

validate_noise(nc) ==
  nc.enabled => /\ nc.count >= 0
                /\ nc.min_size <= nc.max_size
                /\ nc.delay_min_ms <= nc.delay_max_ms

validate(cfg) ==
  /\ cfg.private_key # NoKey
  /\ cfg.mtu > 0
  /\ validate_congestion(cfg.congestion)
  /\ validate_noise(cfg.noise)

\* parse_document: the configuration of a document, if it is accepted.
parse_document(doc) == apply_defaults(parse_settings(doc))

Accepted(doc) == Get(doc, "type", "") = "tun" /\ validate(parse_document(doc))

-----------------------------------------------------------------------------
(* Writing a document.                                                     *)

\* usque_config_save_file: every member, the durations as text.
serialize(cfg) ==
  [private_key |-> cfg.private_key, id |-> cfg.device,
   endpoint_v4 |-> cfg.reachable, type |-> "tun", mtu |-> cfg.mtu,
   dns |-> cfg.dns,
   keepalive_period |-> format_duration_ms(cfg.keepalive_ms),
   reconnect_delay |-> format_duration_ms(cfg.reconnect_delay_ms),
   congestion |-> cfg.congestion.type,
   brutal_bps |-> cfg.congestion.brutal_bps,
   enabled |-> cfg.noise.enabled, count |-> cfg.noise.count,
   min_size |-> cfg.noise.min_size, max_size |-> cfg.noise.max_size,
   delay_min |-> format_duration_ms(cfg.noise.delay_min_ms),
   delay_max |-> format_duration_ms(cfg.noise.delay_max_ms)]

\* cmd_register: the document a registration writes.  The key pair is its
\* own, so the device stands for it; an answer without the peers leaves the
\* endpoint empty.
register_doc(d, endpoint) ==
  [private_key |-> d, id |-> d, endpoint_v4 |-> endpoint, type |-> "tun",
   mtu |-> 1280, dns |-> <<"v4", "v6">>,
   keepalive_period |-> <<Piece(30, "s")>>,
   reconnect_delay |-> <<Piece(1, "s")>>,
   congestion |-> "bbr", brutal_bps |-> 0,
   enabled |-> TRUE, count |-> 5, min_size |-> 100, max_size |-> 400,
   delay_min |-> <<Piece(10, "ms")>>, delay_max |-> <<Piece(50, "ms")>>]

\* usque_config_build_tunnel_config: at most MaxDns servers are taken over.
build_tunnel_config(cfg) ==
  [cfg EXCEPT !.dns = SubSeq(@, 1, Min({Len(@), MaxDns}))]

-----------------------------------------------------------------------------

Init ==
  /\ file = Absent
  /\ server = [d \in Devices |-> "unknown"]
  /\ pc = [p \in Procs |-> "idle"]
  /\ held = [p \in Procs |-> Nothing]
  /\ told = [p \in Procs |-> "none"]

Become(p, where, what) ==
  /\ pc' = [pc EXCEPT ![p] = where]
  /\ held' = [held EXCEPT ![p] = what]

Report(p, how) == told' = [told EXCEPT ![p] = how]

\* p's command ends.
Return(p, how) == Become(p, "idle", Nothing) /\ Report(p, how)

Proceed(p, where, what) == Become(p, where, what) /\ Report(p, "none")

\* https_request gives no status 200: no connection, an error of the service,
\* or an answer that got lost.
RequestFails(p) == Return(p, "failed") /\ UNCHANGED file

\* register_device, POST /reg: the service creates a device with the random
\* key of a first request.
PostReg(p) ==
  /\ pc[p] = "idle"
  /\ \/ RequestFails(p) /\ UNCHANGED server
     \/ \E d \in Devices :
          /\ server[d] = "unknown"
          /\ server' = [server EXCEPT ![d] = "wireguard"]
          /\ \/ RequestFails(p)
             \/ Proceed(p, "posted", d) /\ UNCHANGED file

\* A slip: the status of the second answer is not looked at.
PatchReg_unchecked(p) ==
  /\ pc[p] = "posted"
  /\ server' \in {server, [server EXCEPT ![held[p]] = "masque"]}
  /\ \E endpoint \in BOOLEAN :
       Proceed(p, "patched", register_doc(held[p], endpoint))
  /\ UNCHANGED file

\* register_device, PATCH /reg/{id}: the service takes the new key.  An
\* answer cut short is accepted as long as its status line says 200.
PatchReg(p) ==
  /\ pc[p] = "posted"
  /\ \/ RequestFails(p) /\ UNCHANGED server
     \/ /\ server' = [server EXCEPT ![held[p]] = "masque"]
        /\ \/ RequestFails(p)
           \/ /\ \E endpoint \in BOOLEAN :
                   Proceed(p, "patched", register_doc(held[p], endpoint))
              /\ UNCHANGED file

\* A slip: the file is opened before the second request.
OpenNew_early(p) ==
  /\ pc[p] \in {"posted", "patched"}
  /\ file' = Torn
  /\ Proceed(p, "registering",
             IF pc[p] = "posted" THEN register_doc(held[p], TRUE) ELSE held[p])
  /\ UNCHANGED server

\* cmd_register, fopen "w": the old content is gone.
OpenNew(p) ==
  /\ pc[p] = "patched"
  /\ \/ Return(p, "failed") /\ UNCHANGED file
     \/ Proceed(p, "registering", held[p]) /\ file' = Torn
  /\ UNCHANGED server

\* usque_config_save_file, fopen "w".
OpenSave(p) ==
  /\ pc[p] = "loaded"
  /\ \/ Return(p, "failed") /\ UNCHANGED file
     \/ Proceed(p, "saving", serialize(held[p])) /\ file' = Torn
  /\ UNCHANGED server

\* fwrite and fclose.  The document goes through a buffer, so a full disk may
\* show only in fclose, whose result is not used; cmd_register does not use
\* fwrite's either.  Over what another process has written since, the
\* shorter of two documents leaves the tail of the longer one.
Close(p) ==
  /\ pc[p] \in {"registering", "saving"}
  /\ \/ /\ file' \in {Whole(held[p])}
                     \union (IF file = Torn THEN {} ELSE {Torn})
        /\ Return(p, "ok")
     \/ /\ file' = Torn
        /\ \E how \in {"ok"} \union (IF pc[p] = "saving" THEN {"failed"}
                                                         ELSE {}) :
             Return(p, how)
  /\ UNCHANGED server

\* usque_config_load_file.
Load(p) ==
  /\ pc[p] = "idle"
  /\ IF file.kind = "whole" /\ Accepted(file.doc)
     THEN Proceed(p, "loaded", parse_document(file.doc))
     ELSE Return(p, "failed")
  /\ UNCHANGED <<file, server>>

\* A slip: the configuration is not destroyed.
Check_leak(p) ==
  /\ pc[p] = "loaded"
  /\ pc' = [pc EXCEPT ![p] = "idle"]
  /\ Report(p, "ok")
  /\ UNCHANGED <<file, server, held>>

\* cmd_check, or the end of a use of the library: usque_config_destroy.
Check(p) ==
  /\ pc[p] = "loaded"
  /\ Return(p, "ok")
  /\ UNCHANGED <<file, server>>

\* cmd_run: the tunnel gets its own copy, the configuration is destroyed.
Run(p) ==
  /\ pc[p] = "loaded"
  /\ Proceed(p, "running", build_tunnel_config(held[p]))
  /\ UNCHANGED <<file, server>>

\* The process is killed, or the tunnel ends.
Crash(p) ==
  /\ pc[p] # "idle"
  /\ Return(p, "none")
  /\ UNCHANGED <<file, server>>

Account == {"private_key", "id", "endpoint_v4"}

\* Somebody writes other settings into the file, keeping the account unless
\* the settings replace its key or its endpoint.  Not while a process has the
\* file open.
Edit ==
  /\ file.kind = "whole"
  /\ \A p \in Procs : pc[p] \notin {"registering", "saving"}
  /\ \E settings \in Edits :
       file' = Whole([name \in DOMAIN settings \union Account |->
                       IF name \in DOMAIN settings THEN settings[name]
                                                   ELSE file.doc[name]])
  /\ UNCHANGED <<server, pc, held, told>>

Next ==
  \/ \E p \in Procs :
       \/ PostReg(p) \/ PatchReg(p) \/ OpenNew(p)
       \/ Load(p) \/ Check(p) \/ Run(p) \/ OpenSave(p)
       \/ Close(p) \/ Crash(p)
  \/ Edit

Spec == Init /\ [][Next]_vars

-----------------------------------------------------------------------------
(* Properties.                                                             *)

TypeOK ==
  /\ file.kind \in {"absent", "torn", "whole"}
  /\ (file.kind = "whole") = (file.doc # Nothing)
  /\ server \in [Devices -> {"unknown", "wireguard", "masque"}]
  /\ pc \in [Procs -> {"idle", "posted", "patched", "registering",
                       "loaded", "saving", "running"}]
  /\ told \in [Procs -> {"none", "ok", "failed"}]
  /\ \A p \in Procs : (pc[p] = "idle") = (held[p] = Nothing)

Writing == {"patched", "registering", "saving"}
Using   == {"loaded", "running"}

\* The device whose account p holds.
DeviceOf(p) == IF pc[p] \in Using THEN held[p].device ELSE held[p].id

\* Every account that the file, a process about to write it or a tunnel holds
\* belongs to a device the service has taken the MASQUE key of: no order of
\* registrations, failed requests, crashes, saves and edits leaves a file
\* with credentials that cannot connect (register.cpp:232-238).
AccountsEnrolled ==
  /\ file.kind = "whole" => server[file.doc.id] = "masque"
  /\ \A p \in Procs :
       pc[p] \in Writing \union Using => server[DeviceOf(p)] = "masque"

\* ms is what the settings of an edit give the duration, with a minus sign.
WrittenNegative(name, default, ms) ==
  ms < 0 /\ \E settings \in Edits : ms = get_duration_ms(settings, name, default)

PositiveUnlessWritten(name, default, ms) ==
  ms > 0 \/ WrittenNegative(name, default, ms)

\* A tunnel is started with a key, an MTU above zero, one to MaxDns servers for
\* the DNS hijack, noise ranges that are not empty if noise is on, and with
\* durations above zero, or else the very negative number that somebody wrote
\* into the file: no default, save, reload or copy makes one of zero or a
\* negative one.  A negative one passes apply_defaults and validate.  With
\* such a reconnect_delay nanosleep fails and the attempts follow each other
\* without a pause (tunnel.cpp:553-556).  An endpoint is not asked for.
RunsValid ==
  \A p \in Procs : pc[p] = "running" =>
    LET cfg == held[p] IN
      /\ cfg.private_key # NoKey /\ cfg.mtu > 0
      /\ Len(cfg.dns) \in 1 .. MaxDns
      /\ PositiveUnlessWritten("keepalive_period", 30000, cfg.keepalive_ms)
      /\ PositiveUnlessWritten("reconnect_delay", 1000, cfg.reconnect_delay_ms)
      /\ cfg.noise.enabled => /\ cfg.noise.min_size <= cfg.noise.max_size
                              /\ cfg.noise.delay_min_ms <= cfg.noise.delay_max_ms

\* What is read back after cfg was saved.
Reloaded(cfg) == parse_document(serialize(cfg))

\* A save and a load change no setting but a duration, and a duration only to
\* the value an absent member has: format_duration_ms writes 90 s as 1m30s,
\* which parse_duration_ms does not read, but never reads as something else.
\* And saving settles at once: a configuration that was saved and could be
\* loaded again is saved and loaded from then on without a change.
Keeps(cfg) ==
  LET r == Reloaded(cfg)
  IN  /\ r = [cfg EXCEPT !.keepalive_ms       = r.keepalive_ms,
                         !.reconnect_delay_ms = r.reconnect_delay_ms,
                         !.noise.delay_min_ms = r.noise.delay_min_ms,
                         !.noise.delay_max_ms = r.noise.delay_max_ms]
      /\ r.keepalive_ms \in {cfg.keepalive_ms, 30000}
      /\ r.reconnect_delay_ms \in {cfg.reconnect_delay_ms, 1000}
      /\ r.noise.delay_min_ms \in {cfg.noise.delay_min_ms, 0}
      /\ r.noise.delay_max_ms \in {cfg.noise.delay_max_ms, 0}
      /\ Accepted(serialize(cfg)) =>
           Reloaded(r) = r /\ Accepted(serialize(r))

SaveKeeps == \A p \in Procs : pc[p] = "loaded" => Keeps(held[p])

\* The old file is destroyed only by a process that holds a whole document to
\* put in its place, of a device that is enrolled: a registration that fails
\* in either request leaves the old account usable (main.cpp:55-59).
ReplacementInHand ==
  [][file.kind = "whole" /\ file'.kind # "whole" =>
       \E p \in Procs : /\ pc[p] \in Writing \union Using
                        /\ server[DeviceOf(p)] = "masque"]_vars

\* What tests/test_config.cpp says of a save ("reload saved file"): the file
\* it leaves is accepted by usque_config_load_file.
SavedLoads ==
  \A p \in Procs : pc[p] = "saving" => Accepted(held[p])
=============================================================================
