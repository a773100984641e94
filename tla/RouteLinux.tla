----------------------------- MODULE RouteLinux -----------------------------
(***************************************************************************)
(* The system configuration that src/tun/route_linux.c installs around a   *)
(* connection: the endpoint's bypass route, the default route of table     *)
(* 2022, the ip rule that selects the table, and the DNS servers (through  *)
(* resolvectl, or by moving /etc/resolv.conf aside), together with what    *)
(* the kernel takes away by itself.  run_connection (src/tunnel.cpp) calls *)
(* usque_route_setup once an attempt, ignores its result, and calls        *)
(* usque_route_cleanup only after an event loop has run.                   *)
(*                                                                         *)
(* The process may be killed between any two calls and started again, also *)
(* with another account or another name for its device; the machine may be *)
(* rebooted, and a physical interface go down or come up.  The account may *)
(* have no IPv4 endpoint: nothing in src/config asks for one.              *)
(*                                                                         *)
(* A definition named <action>_<slip> is the action with a slip a change   *)
(* of the code could make; it is no part of Next.                          *)
(***************************************************************************)
EXTENDS Integers, FiniteSets

CONSTANTS Ifaces,       \* physical network interfaces
          Tun,          \* the TUN device as an interface
          Score,        \* Score[i]: rank of i in the interface detection
          None,         \* no interface
          Endpoints,    \* IPv4 endpoints an account can have
          NoEndpoint,   \* the empty endpoint_v4
          MaxAttempts   \* bound: connection attempts of a behaviour

Links == Ifaces \cup {Tun}

\* Names of one score are ranked by their order in the directory.
ASSUME RouteAssumption ==
  /\ IsFiniteSet(Ifaces)
  /\ Tun \notin Ifaces /\ None \notin Links
  /\ Score \in [Links -> Nat]
  /\ \A i, j \in Links : Score[i] = Score[j] => i = j
  /\ NoEndpoint \notin Endpoints
  /\ MaxAttempts \in Nat

VARIABLES
  pc,          \* where run_connection is
  tun,         \* the TUN device exists
  up,          \* physical interfaces that are up
  endpoint,    \* the account's endpoint_v4
  shown,       \* the detection does not skip the TUN device by its name
  bypass,      \* host routes <<endpoint, interface>> in the main table
  tunRoute,    \* table 2022 has its default route over the TUN device
  rules,       \* ip rules of priority 9000
  linkDns,     \* resolvectl has DNS servers for the TUN device
  conf,        \* whose file /etc/resolv.conf is
  bak,         \* whose file /etc/resolv.conf.usque.bak is
  resolvectl,  \* the system has resolvectl (never changes)
  hadConf,     \* /etc/resolv.conf existed at first (never changes)
  attempts,    \* connection attempts so far
  disturbed,   \* the detection found nothing, or an interface, the account
               \* or the device's name changed, or the machine was rebooted
  dropped      \* an attempt that wrote resolv.conf ended without clean-up

vars == <<pc, tun, up, endpoint, shown, bypass, tunRoute, rules, linkDns,
          conf, bak, resolvectl, hadConf, attempts, disturbed, dropped>>

Files == {"user", "usque", "absent"}

TypeOK ==
  /\ pc \in {"down", "bypass", "route", "rule", "dns", "write", "engine",
             "up", "cleaned"}
  /\ tun \in BOOLEAN
  /\ up \subseteq Ifaces
  /\ endpoint \in Endpoints \cup {NoEndpoint}
  /\ shown \in BOOLEAN
  /\ bypass \subseteq Endpoints \X Links
  /\ tunRoute \in BOOLEAN
  /\ rules \in Nat
  /\ linkDns \in BOOLEAN
  /\ conf \in Files
  /\ bak \in Files
  /\ resolvectl \in BOOLEAN
  /\ hadConf \in BOOLEAN
  /\ attempts \in 0 .. MaxAttempts
  /\ disturbed \in BOOLEAN
  /\ dropped \in BOOLEAN

Init ==
  /\ pc = "down"
  /\ tun = FALSE
  /\ up \in SUBSET Ifaces
  /\ endpoint \in Endpoints \cup {NoEndpoint}
  /\ shown \in BOOLEAN
  /\ bypass = {}
  /\ tunRoute = FALSE
  /\ rules = 0
  /\ linkDns = FALSE
  /\ hadConf \in BOOLEAN
  /\ conf = IF hadConf THEN "user" ELSE "absent"
  /\ bak = "absent"
  /\ resolvectl \in BOOLEAN
  /\ attempts = 0
  /\ disturbed = FALSE
  /\ dropped = FALSE

world   == <<up, endpoint, shown, resolvectl, hadConf, attempts, disturbed>>
routing == <<bypass, tunRoute, rules>>
dns     == <<linkDns, conf, bak, dropped>>

-----------------------------------------------------------------------------
(* usque_route_setup, one step for each request it makes.                  *)

\* The TUN device is one of the candidates unless its name begins with tun
\* or another of the prefixes that are skipped.
Shown == IF shown THEN {Tun} ELSE {}

Best(links) == CHOOSE i \in links : \A j \in links : Score[j] <= Score[i]

\* usque_route_detect_physical_iface: the best interface that is up.
Detected ==
  LET links == up \cup (IF tun THEN Shown ELSE {})
  IN  IF links = {} THEN None ELSE Best(links)

\* The TUN device is created, and the socket opened and connected.  Each of
\* these may fail: the descriptor is closed, the device goes with it, and the
\* attempt ends.
usque_tun_create ==
  /\ pc = "down"
  /\ attempts < MaxAttempts
  /\ attempts' = attempts + 1
  /\ \/ tun' = TRUE /\ pc' = "bypass"
     \/ UNCHANGED <<tun, pc>>
  /\ UNCHANGED <<up, endpoint, shown, resolvectl, hadConf, disturbed, routing,
                 dns>>

\* A request fails, for whatever reason: usque_route_setup returns -1 and
\* run_connection prints it and goes on.
RequestFails ==
  /\ pc \in {"bypass", "route", "rule"}
  /\ pc' = "engine"
  /\ UNCHANGED <<tun, world, routing, dns>>

\* Two slips: the old route is replaced; the index is not looked at.
add_endpoint_bypass_replace ==
  /\ pc = "bypass"
  /\ endpoint # NoEndpoint /\ Detected # None
  /\ bypass' = {<<endpoint, Detected>>}
  /\ pc' = "route"
  /\ UNCHANGED <<tun, world, tunRoute, rules, dns>>

add_endpoint_bypass_unchecked ==
  /\ pc = "bypass"
  /\ endpoint # NoEndpoint
  /\ bypass' = bypass \cup {<<endpoint, Detected>>}
  /\ pc' = "route"
  /\ UNCHANGED <<tun, world, tunRoute, rules, dns>>

\* RTM_NEWROUTE with NLM_F_CREATE and without NLM_F_REPLACE: a route that is
\* there already is EEXIST, and that is a failed request.
add_endpoint_bypass ==
  /\ pc = "bypass"
  /\ endpoint # NoEndpoint /\ Detected # None
  /\ <<endpoint, Detected>> \notin bypass
  /\ bypass' = bypass \cup {<<endpoint, Detected>>}
  /\ pc' = "route"
  /\ UNCHANGED <<tun, world, tunRoute, rules, dns>>

\* Without an endpoint there is no request, and the set-up goes on.  Neither
\* is there one when the detection finds nothing: no interface is up, or a
\* file of the directory cannot be opened.
SkipBypass ==
  /\ pc = "bypass"
  /\ disturbed' = (disturbed \/ endpoint # NoEndpoint)
  /\ pc' = "route"
  /\ UNCHANGED <<tun, up, endpoint, shown, resolvectl, hadConf, attempts,
                 routing, dns>>

add_tunnel_route ==
  /\ pc = "route"
  /\ tunRoute' = TRUE
  /\ pc' = "rule"
  /\ UNCHANGED <<tun, world, bypass, rules, dns>>

\* RTM_NEWRULE without NLM_F_EXCL: a second, equal rule is added.
add_tunnel_rule ==
  /\ pc = "rule"
  /\ rules' = rules + 1
  /\ pc' = "dns"
  /\ UNCHANGED <<tun, world, bypass, tunRoute, dns>>

\* dns_setup_resolvectl, whose failure is ignored.
dns_setup_resolvectl ==
  /\ pc = "dns"
  /\ resolvectl
  /\ linkDns' \in {linkDns, TRUE}
  /\ pc' = "engine"
  /\ UNCHANGED <<tun, world, routing, conf, bak, dropped>>

\* dns_setup_resolv_conf: the rename.  A missing file is not an error; after
\* any other error (EBUSY on a mount point, EROFS) nothing more is done.
BackupResolvConf ==
  /\ pc = "dns"
  /\ ~resolvectl
  /\ \/ /\ conf # "absent"
        /\ conf' = "absent"
        /\ bak' = conf
        /\ pc' = "write"
     \/ conf = "absent" /\ pc' = "write" /\ UNCHANGED <<conf, bak>>
     \/ conf # "absent" /\ pc' = "engine" /\ UNCHANGED <<conf, bak>>
  /\ UNCHANGED <<tun, world, routing, linkDns, dropped>>

\* dns_setup_resolv_conf: fopen and the nameserver lines, or fopen fails.
WriteResolvConf ==
  /\ pc = "write"
  /\ conf' \in {"usque", conf}
  /\ pc' = "engine"
  /\ UNCHANGED <<tun, world, routing, linkDns, bak, dropped>>

-----------------------------------------------------------------------------
(* The rest of the attempt.                                                *)

\* What the kernel removes with the interface: the routes over it, not the
\* rule; the resolver forgets the link.  A file of usque's own in the user's
\* place is what the next set-up would move over the backup.
DropTun ==
  /\ tun' = FALSE
  /\ tunRoute' = FALSE
  /\ bypass' = {route \in bypass : route[2] # Tun}
  /\ linkDns' = FALSE
  /\ dropped' = (dropped \/ conf = "usque")
  /\ pc' = "down"
  /\ UNCHANGED <<world, rules, conf, bak>>

EngineStarts ==
  /\ pc = "engine"
  /\ pc' = "up"
  /\ UNCHANGED <<tun, world, routing, dns>>

\* engine.setup fails: the TUN device is destroyed, usque_route_cleanup is
\* not called.
EngineFails ==
  /\ pc = "engine"
  /\ DropTun

usque_route_cleanup_forget ==
  /\ pc = "up"
  /\ linkDns' = FALSE
  /\ pc' = "cleaned"
  /\ UNCHANGED <<tun, world, routing, conf, bak, dropped>>

\* The event loop has ended.  The rename of dns_cleanup_resolv_conf does
\* nothing when there is no backup; no result is looked at.
usque_route_cleanup ==
  /\ pc = "up"
  /\ IF resolvectl
       THEN linkDns' \in {linkDns, FALSE} /\ UNCHANGED <<conf, bak>>
       ELSE /\ IF bak # "absent" THEN conf' = bak /\ bak' = "absent"
                                 ELSE UNCHANGED <<conf, bak>>
            /\ UNCHANGED linkDns
  /\ pc' = "cleaned"
  /\ UNCHANGED <<tun, world, routing, dropped>>

usque_tun_destroy ==
  /\ pc = "cleaned"
  /\ DropTun

-----------------------------------------------------------------------------
(* The environment.                                                        *)

\* The process is killed; a TUN device that is not persistent goes with it.
Crash ==
  /\ pc # "down"
  /\ DropTun

\* Routes and rules are gone, files are not.
Reboot ==
  /\ pc = "down"
  /\ bypass' = {}
  /\ rules' = 0
  /\ disturbed' = TRUE
  /\ UNCHANGED <<pc, tun, up, endpoint, shown, resolvectl, hadConf, attempts,
                 tunRoute, dns>>

\* Between two runs of the program its file gets another account or another
\* name for the device.
Reconfigure ==
  /\ pc = "down"
  /\ endpoint' \in Endpoints \cup {NoEndpoint}
  /\ shown' \in BOOLEAN
  /\ <<endpoint', shown'>> # <<endpoint, shown>>
  /\ disturbed' = TRUE
  /\ UNCHANGED <<pc, tun, up, resolvectl, hadConf, attempts, routing, dns>>

\* An interface loses its carrier, or is set down and loses its routes.
LinkDown(i) ==
  /\ i \in up
  /\ up' = up \ {i}
  /\ bypass' \in {bypass, {route \in bypass : route[2] # i}}
  /\ disturbed' = TRUE
  /\ UNCHANGED <<pc, tun, endpoint, shown, resolvectl, hadConf, attempts,
                 tunRoute, rules, dns>>

LinkUp(i) ==
  /\ i \in Ifaces \ up
  /\ up' = up \cup {i}
  /\ disturbed' = TRUE
  /\ UNCHANGED <<pc, tun, endpoint, shown, resolvectl, hadConf, attempts,
                 routing, dns>>

-----------------------------------------------------------------------------
Next ==
  \/ usque_tun_create
  \/ RequestFails
  \/ add_endpoint_bypass
  \/ SkipBypass
  \/ add_tunnel_route
  \/ add_tunnel_rule
  \/ dns_setup_resolvectl
  \/ BackupResolvConf
  \/ WriteResolvConf
  \/ EngineStarts
  \/ EngineFails
  \/ usque_route_cleanup
  \/ usque_tun_destroy
  \/ Crash
  \/ Reboot
  \/ Reconfigure
  \/ \E i \in Ifaces : LinkDown(i) \/ LinkUp(i)

Spec == Init /\ [][Next]_vars

-----------------------------------------------------------------------------
(* Properties.                                                             *)

\* What makes a set-up that was not cleaned up stop the next one: the account
\* has an endpoint, nothing has changed, and the detection prefers a physical
\* interface to the TUN device.  Then the host route that was left behind is
\* the one the next set-up asks for.
Guarded ==
  /\ endpoint # NoEndpoint
  /\ ~disturbed
  /\ up # {} /\ Best(up \cup Shown) # Tun

\* There are two reasons why the user's resolv.conf is not lost, and one is
\* enough.  As long as no attempt that had written the file ended without its
\* clean-up, it is in its place or in the backup, with any account and on any
\* network.  And however many attempts did, the guard makes the next set-up
\* fail before it would move usque's own file over the backup.  Without an
\* endpoint only the first reason is left.
UserDnsSurvives ==
  hadConf /\ (Guarded \/ ~dropped) => "user" \in {conf, bak}

\* In the same two cases, whenever a connection is shut down in order the
\* user's resolv.conf is back, also when earlier attempts had crashed or
\* failed half-way and left it moved aside.
ShutdownRestoresDns ==
  pc = "cleaned" /\ hadConf /\ (Guarded \/ ~dropped) =>
    conf = "user" /\ bak = "absent"

\* Behind the guard there is never a second copy of the ip rule, although
\* rules outlive the TUN device and are added without NLM_F_EXCL.  Without an
\* endpoint each set-up adds one.
OneRuleWhileGuarded == Guarded => rules <= 1

\* The rule and the file are only in place behind the bypass route: if the
\* guard holds and no host route leads to the endpoint, there is no tunnel
\* route, no ip rule, and resolv.conf has not been touched, whatever failed or
\* crashed before.
BypassFirst ==
  Guarded /\ bypass = {} =>
    rules = 0 /\ ~tunRoute /\ bak = "absent" /\ conf # "usque"
=============================================================================
