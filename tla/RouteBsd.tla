------------------------------ MODULE RouteBsd ------------------------------
(***************************************************************************)
(* The system configuration that src/tun/route_bsd.c installs around a     *)
(* connection on macOS and FreeBSD: the endpoint's host route through the  *)
(* default gateway, the /1 routes that divert everything else into the     *)
(* TUN device, and the resolver, through networksetup where a network      *)
(* service is found or by moving /etc/resolv.conf aside.  Everything is a  *)
(* shell command or a rename whose result is not looked at; only a missing *)
(* default gateway ends usque_route_setup_bsd.  run_connection             *)
(* (src/tunnel.cpp) calls it once an attempt and calls                     *)
(* usque_route_cleanup_bsd only after an event loop has run.               *)
(*                                                                         *)
(* The process may be killed between any two commands and started again,   *)
(* also with another account; the machine may be rebooted, and the default *)
(* gateway change or go.  The account may have no IPv4 endpoint.           *)
(*                                                                         *)
(* A definition named <action>_<slip> is the action with a slip a change   *)
(* of the code could make; it is no part of Next.                          *)
(***************************************************************************)
EXTENDS Naturals

CONSTANTS Gateways,    \* default gateways the machine can have
          NoGateway,   \* no default route
          Endpoints,   \* IPv4 endpoints an account can have
          NoEndpoint,  \* the empty endpoint_v4
          MaxSetups    \* bound: connection attempts of a behaviour

\* What is asked of the constants; the composing MC module assumes it.
RouteBsdAssumption ==
  /\ NoGateway \notin Gateways
  /\ NoEndpoint \notin Endpoints
  /\ MaxSetups \in Nat

VARIABLES
  at,        \* where run_connection is
  device,    \* the TUN device exists
  gateway,   \* what "route get default" finds
  setupGw,   \* the gateway the running usque_route_setup_bsd has found
  target,    \* the account's endpoint_v4
  host,      \* host[e]: gateway of the host route of e, or NoGateway
  halves,    \* /1 routes over the TUN device
  service,   \* networksetup lists an enabled service (never changes)
  serviceDns,\* whose servers that service asks
  resolv,    \* whose file /etc/resolv.conf is
  backup,    \* whose file /etc/resolv.conf.usque.bak is
  hadFile,   \* /etc/resolv.conf existed at first (never changes)
  fixed,     \* /etc/resolv.conf cannot be renamed (never changes)
  setups,    \* connection attempts so far
  moved,     \* the gateway changed, or the machine was rebooted
  refused,   \* the command for the host route failed
  dropped    \* an attempt that wrote resolv.conf ended without clean-up

vars == <<at, device, gateway, setupGw, target, host, halves, service, serviceDns,
             resolv, backup, hadFile, fixed, setups, moved, refused, dropped>>

Halves == {"0/1", "128/1", "::/1", "8000::/1"}
Owners == {"user", "usque", "absent"}

TypeOK ==
  /\ at \in {"down", "gateway", "bypass", "halves", "dns", "write", "engine",
             "up", "cleaned"}
  /\ device \in BOOLEAN
  /\ {gateway, setupGw} \subseteq Gateways \cup {NoGateway}
  /\ target \in Endpoints \cup {NoEndpoint}
  /\ host \in [Endpoints -> Gateways \cup {NoGateway}]
  /\ halves \subseteq Halves
  /\ service \in BOOLEAN
  /\ serviceDns \in {"user", "usque"}
  /\ resolv \in Owners
  /\ backup \in Owners
  /\ hadFile \in BOOLEAN
  /\ fixed \in BOOLEAN
  /\ setups \in 0 .. MaxSetups
  /\ {moved, refused, dropped} \subseteq BOOLEAN

Init ==
  /\ at = "down"
  /\ device = FALSE
  /\ gateway \in Gateways \cup {NoGateway}
  /\ setupGw = NoGateway
  /\ target \in Endpoints \cup {NoEndpoint}
  /\ host = [e \in Endpoints |-> NoGateway]
  /\ halves = {}
  /\ service \in BOOLEAN
  /\ serviceDns = "user"
  /\ hadFile \in BOOLEAN
  /\ resolv = IF hadFile THEN "user" ELSE "absent"
  /\ backup = "absent"
  /\ fixed \in BOOLEAN
  /\ setups = 0
  /\ moved = FALSE
  /\ refused = FALSE
  /\ dropped = FALSE

machine == <<gateway, target, service, hadFile, fixed, moved>>
routes  == <<setupGw, host, halves, refused>>
dns     == <<serviceDns, resolv, backup, dropped>>

-----------------------------------------------------------------------------
(* usque_route_setup_bsd, one step for each thing it does.                 *)

\* The TUN device is created and the socket opened and connected, or one of
\* these fails and the attempt ends.
usque_tun_create ==
  /\ at = "down"
  /\ setups < MaxSetups
  /\ setups' = setups + 1
  /\ \/ device' = TRUE /\ at' = "gateway"
     \/ UNCHANGED <<device, at>>
  /\ UNCHANGED <<machine, routes, dns>>

\* Without a default gateway nothing is set up, and run_connection goes on.
get_default_gateway ==
  /\ at = "gateway"
  /\ setupGw' = gateway
  /\ at' = IF gateway = NoGateway THEN "engine" ELSE "bypass"
  /\ UNCHANGED <<device, setups, machine, host, halves, refused, dns>>

\* route add <endpoint>/32: fails if there is such a route already, or for
\* another reason; the command's result is not looked at.  Without an endpoint
\* there is no command.
add_endpoint_bypass ==
  /\ at = "bypass"
  /\ \/ target = NoEndpoint /\ UNCHANGED <<host, refused>>
     \/ /\ target # NoEndpoint
        /\ IF host[target] # NoGateway
             THEN UNCHANGED <<host, refused>>
             ELSE \/ /\ host' = [host EXCEPT ![target] = setupGw]
                     /\ UNCHANGED refused
                  \/ refused' = TRUE /\ UNCHANGED host
  /\ at' = "halves"
  /\ UNCHANGED <<device, setups, machine, setupGw, halves, dns>>

add_halves_eager ==
  /\ at \in {"bypass", "halves"}
  /\ halves' \in SUBSET Halves
  /\ at' = IF at = "bypass" THEN "halves" ELSE "dns"
  /\ UNCHANGED <<device, setups, machine, setupGw, host, refused, dns>>

\* Four route commands over the TUN device, each of which may fail; an
\* interruption between two of them takes the device and its routes away.
add_halves ==
  /\ at = "halves"
  /\ halves' \in SUBSET Halves
  /\ at' = "dns"
  /\ UNCHANGED <<device, setups, machine, setupGw, host, refused, dns>>

\* macOS: networksetup -setdnsservers on the first enabled service.
SetServiceDns ==
  /\ at = "dns"
  /\ service
  /\ serviceDns' \in {serviceDns, "usque"}
  /\ at' = "engine"
  /\ UNCHANGED <<device, setups, machine, routes, resolv, backup, dropped>>

\* The rename to the backup, over a backup that may be there already.
BackupResolvConf ==
  /\ at = "dns"
  /\ ~service
  /\ IF resolv = "absent" \/ fixed
       THEN UNCHANGED <<resolv, backup>>
       ELSE resolv' = "absent" /\ backup' = resolv
  /\ at' = "write"
  /\ UNCHANGED <<device, setups, machine, routes, serviceDns, dropped>>

\* fopen with "w" and the nameserver lines, or fopen fails.
WriteResolvConf ==
  /\ at = "write"
  /\ resolv' \in {"usque", resolv}
  /\ at' = "engine"
  /\ UNCHANGED <<device, setups, machine, routes, serviceDns, backup, dropped>>

-----------------------------------------------------------------------------
(* The rest of the attempt.                                                *)

\* The device is gone and its routes with it; nothing else is undone.  A file
\* of usque's own in the user's place is what the next set-up would back up.
Abandon ==
  /\ device' = FALSE
  /\ halves' = {}
  /\ at' = "down"
  /\ dropped' = (dropped \/ resolv = "usque")
  /\ UNCHANGED <<setups, setupGw, host, refused, serviceDns, resolv, backup>>

EngineStarts ==
  /\ at = "engine"
  /\ at' = "up"
  /\ UNCHANGED <<device, setups, machine, routes, dns>>

\* engine.setup fails: the TUN device is destroyed, usque_route_cleanup_bsd
\* is not called.
EngineFails ==
  /\ at = "engine"
  /\ Abandon
  /\ UNCHANGED machine

usque_route_cleanup_bsd_keepFile ==
  /\ at = "up"
  /\ halves' = {}
  /\ at' = "cleaned"
  /\ UNCHANGED <<device, setups, machine, setupGw, host, refused, dns>>

\* The event loop has ended: the /1 routes are deleted and the backup, if
\* there is one, is moved back over resolv.conf.  The host route and the
\* servers of a network service stay.
usque_route_cleanup_bsd ==
  /\ at = "up"
  /\ halves' = {}
  /\ IF backup # "absent" /\ ~fixed
       THEN resolv' = backup /\ backup' = "absent"
       ELSE UNCHANGED <<resolv, backup>>
  /\ at' = "cleaned"
  /\ UNCHANGED <<device, setups, machine, setupGw, host, refused, serviceDns,
                 dropped>>

usque_tun_destroy ==
  /\ at = "cleaned"
  /\ Abandon
  /\ UNCHANGED machine

-----------------------------------------------------------------------------
(* The environment.                                                        *)

\* The process is killed; the TUN device goes with its descriptor.
Crash ==
  /\ at # "down"
  /\ Abandon
  /\ UNCHANGED machine

\* Routes are gone, files and the settings of a service are not.
Reboot ==
  /\ at = "down"
  /\ host' = [e \in Endpoints |-> NoGateway]
  /\ moved' = TRUE
  /\ UNCHANGED <<at, device, setups, gateway, target, service, hadFile, fixed,
                 setupGw, halves, refused, dns>>

\* Between two runs of the program its file gets another account.
Reconfigure ==
  /\ at = "down"
  /\ target' \in (Endpoints \cup {NoEndpoint}) \ {target}
  /\ UNCHANGED <<at, device, setups, gateway, service, hadFile, fixed, moved,
                 routes, dns>>

\* Another network, or none; with the interface the kernel may take the host
\* routes over it away.
GatewayChanges(g) ==
  /\ g # gateway
  /\ gateway' = g
  /\ host' \in {host, [e \in Endpoints |-> NoGateway]}
  /\ moved' = TRUE
  /\ UNCHANGED <<at, device, setups, target, service, hadFile, fixed, setupGw,
                 halves, refused, dns>>

-----------------------------------------------------------------------------
Next ==
  \/ usque_tun_create
  \/ get_default_gateway
  \/ add_endpoint_bypass
  \/ add_halves
  \/ SetServiceDns
  \/ BackupResolvConf
  \/ WriteResolvConf
  \/ EngineStarts
  \/ EngineFails
  \/ usque_route_cleanup_bsd
  \/ usque_tun_destroy
  \/ Crash
  \/ Reboot
  \/ Reconfigure
  \/ \E g \in Gateways \cup {NoGateway} : GatewayChanges(g)

Spec == Init /\ [][Next]_vars

-----------------------------------------------------------------------------
(* Properties.                                                             *)

\* Unlike on Linux nothing stops a second set-up, so that it is the clean-up
\* that protects the user's resolv.conf: as long as no attempt that had
\* written the file ended without it, the user's file is there or in the
\* backup at every moment, crashes between the rename and the write included,
\* and after an orderly end of a connection it is back in its place.
UserFileKept ==
  hadFile /\ ~fixed /\ ~dropped =>
    /\ "user" \in {resolv, backup}
    /\ at = "cleaned" => resolv = "user" /\ backup = "absent"

\* The host route of an endpoint is never deleted, which is what later
\* attempts rely on when they cannot add it, also when the program ran with
\* another account in between: as long as the gateway stays and no route
\* command for an endpoint was refused, nothing is diverted into the TUN device
\* unless the endpoint, if the account has one, is reached through the gateway
\* of now.
DivertedBehindBypass ==
  ~moved /\ ~refused /\ target # NoEndpoint /\ halves # {} =>
    host[target] = gateway
=============================================================================
