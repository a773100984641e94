------------------------------ MODULE MCRoutes ------------------------------
(***************************************************************************)
(* The two route modules side by side.  A build of the program has one of  *)
(* them: platform says which, and the machine of the other stays at rest.  *)
(***************************************************************************)
EXTENDS RouteLinux, TLC

CONSTANTS eth0, wlan0, Gateways, NoGateway, MaxSetups

VARIABLES platform, at, device, gateway, setupGw, target, host, halves,
          service, serviceDns, resolv, backup, hadFile, fixed, setups, moved,
          refused, lost

bsd == <<at, device, gateway, setupGw, target, host, halves, service,
         serviceDns, resolv, backup, hadFile, fixed, setups, moved, refused,
         lost>>

Bsd == INSTANCE RouteBsd WITH dropped <- lost

ASSUME Bsd!RouteBsdAssumption

MCIfaces == {eth0, wlan0}

\* A device named en... is ranked between the two.
MCScore  == (eth0 :> 11) @@ (Tun :> 10) @@ (wlan0 :> 9)

LinuxRests ==
  up = {} /\ endpoint = NoEndpoint /\ ~shown /\ ~hadConf /\ ~resolvectl
BsdRests ==
  /\ gateway = NoGateway /\ target = NoEndpoint
  /\ ~hadFile /\ ~service /\ ~fixed

MCInit ==
  /\ Init
  /\ Bsd!Init
  /\ \/ platform = "linux" /\ BsdRests
     \/ platform = "bsd" /\ LinuxRests

MCNext ==
  \/ platform = "linux" /\ Next /\ UNCHANGED <<platform, bsd>>
  \/ platform = "bsd" /\ Bsd!Next /\ UNCHANGED <<platform, vars>>

MCSpec == MCInit /\ [][MCNext]_<<platform, vars, bsd>>

\* The type invariants of both modules.
TypesOK == TypeOK /\ Bsd!TypeOK

\* RouteLinux: the user's resolver file is never lost, and is back after an
\* orderly end, as long as usque_route_cleanup followed each write of it or the
\* EEXIST of add_endpoint_bypass stands in the way of the next.
LinuxFileKept == UserDnsSurvives /\ ShutdownRestoresDns

\* RouteBsd: the same where nothing stops the next set-up.
BsdFileKept == Bsd!UserFileKept

\* Both modules: nothing is diverted into the tunnel before the endpoint of
\* the account is reached around it.
BypassBeforeTunnel == BypassFirst /\ Bsd!DivertedBehindBypass
=============================================================================
