----------------------------- MODULE RouteProofs -----------------------------
(***************************************************************************)
(* Proofs about MCRoutes, which is RouteLinux next to RouteBsd.  Each half *)
(* has an inductive invariant of its own: what is said of the routes needs *)
(* an endpoint and a network that stays, what is said of the resolver file *)
(* as long as no attempt was dropped needs neither.  A step of one half    *)
(* leaves the other at rest.                                               *)
(***************************************************************************)
EXTENDS MCRoutes, FiniteSetTheorems, WellFoundedInduction, TLAPS

-----------------------------------------------------------------------------
(* The interface detection.                                                *)

\* There is a best one among some interfaces: the sets of those that are
\* better than one are finite, and a least of these sets is empty.
LEMMA BestExists ==
  ASSUME RouteAssumption, NEW U \in SUBSET Links, U # {}
  PROVE  \E i \in U : \A j \in U : Score[j] <= Score[i]
<1> DEFINE Better(i) == {j \in U : Score[j] > Score[i]}
           Sets      == {Better(i) : i \in U}
<1>0. IsFiniteSet(Links)
  BY FS_AddElement DEF RouteAssumption, Links
<1>1. Sets \subseteq FiniteSubsetsOf(Links) /\ Sets # {}
  <2>1. \A i \in U : Better(i) \subseteq Links
    OBVIOUS
  <2>2. \A i \in U : IsFiniteSet(Better(i))
    BY <1>0, <2>1, FS_Subset
  <2>3. \A i \in U : Better(i) \in FiniteSubsetsOf(Links)
    BY <2>1, <2>2 DEF FiniteSubsetsOf
  <2>4. PICK i \in U : TRUE
    OBVIOUS
  <2>5. Better(i) \in Sets
    BY <2>4
  <2> HIDE DEF Better
  <2> QED
    BY <2>3, <2>5
<1>2. \E A \in Sets : \A B \in Sets :
        ~(<<B, A>> \in StrictSubsetOrdering(Links))
  BY <1>1, FS_StrictSubsetOrderingWellFounded, WFMin, Zenon
<1>3. PICK i \in U : \A B \in Sets :
        ~(<<B, Better(i)>> \in StrictSubsetOrdering(Links))
  BY <1>2
<1>4. \A k \in U : Score[k] \in Nat
  BY DEF RouteAssumption
<1>5. ASSUME NEW j \in U, Score[j] > Score[i] PROVE FALSE
  <2>1. Better(j) \subseteq Better(i) /\ j \in Better(i) /\ j \notin Better(j)
    BY <1>4, <1>5
  <2>2. <<Better(j), Better(i)>> \in StrictSubsetOrdering(Links)
    BY <2>1 DEF StrictSubsetOrdering
  <2> QED
    BY <1>3, <2>2
<1> QED
  BY <1>4, <1>5

\* Best finds it.
LEMMA BestIs ==
  ASSUME RouteAssumption, NEW U \in SUBSET Links, U # {}
  PROVE  Best(U) \in U /\ \A j \in U : Score[j] <= Score[Best(U)]
  BY BestExists DEF Best

\* The detection finds one of the interfaces, or nothing.
LEMMA DetectedIs ==
  ASSUME RouteAssumption, up \subseteq Ifaces
  PROVE  Detected \in Links \cup {None}
<1> DEFINE links == up \cup (IF tun THEN Shown ELSE {})
<1>1. links \in SUBSET Links
  BY DEF Links, Shown
<1>2. Detected = IF links = {} THEN None ELSE Best(links)
  BY DEF Detected
<1> HIDE DEF links
<1> QED
  BY <1>1, <1>2, BestIs

\* Behind the guard it is the best physical interface, with the TUN device
\* and without it.
LEMMA DetectedIsPhysical ==
  ASSUME RouteAssumption, up \subseteq Ifaces, Guarded
  PROVE  Detected = Best(up) /\ Best(up) \in up
<1> DEFINE b == Best(up \cup Shown)
           c == Best(up)
<1>1. /\ up \in SUBSET Links /\ up # {}
      /\ up \cup Shown \in SUBSET Links /\ up \cup Shown # {}
  BY DEF Guarded, Links, Shown
<1>2. c \in up /\ \A j \in up : Score[j] <= Score[c]
  BY <1>1, BestIs
<1>3. b \in up /\ \A j \in up : Score[j] <= Score[b]
  <2>1. b \in up \cup Shown /\ \A j \in up \cup Shown : Score[j] <= Score[b]
    BY <1>1, BestIs
  <2>2. b # Tun
    BY DEF Guarded
  <2> HIDE DEF b
  <2> QED
    BY <2>1, <2>2 DEF Shown
<1>4. Detected \in {b, c}
  BY <1>1 DEF Detected
<1> HIDE DEF b, c
<1>5. Score[b] \in Nat /\ Score[c] \in Nat /\ b \in Links /\ c \in Links
  BY <1>1, <1>2, <1>3 DEF RouteAssumption
<1>6. Score[b] = Score[c]
  BY <1>2, <1>3, <1>5
<1>7. b = c
  BY <1>5, <1>6 DEF RouteAssumption
<1> QED
  BY <1>2, <1>4, <1>7 DEF c

-----------------------------------------------------------------------------
(* Linux.                                                                  *)

\* What resolv.conf was at first.
Original == IF hadConf THEN "user" ELSE "absent"

\* Without the bypass route nothing has been done, and no set-up is past it.
Untouched ==
  bypass = {} =>
    /\ rules = 0 /\ ~tunRoute
    /\ bak = "absent" /\ conf = Original
    /\ pc \in {"down", "bypass", "engine", "up", "cleaned"}

\* A set-up that is past the bypass route is the first one to get so far.
FirstOfItsKind ==
  /\ pc \in {"route", "rule"} => rules = 0
  /\ pc \in {"route", "rule", "dns"} => bak = "absent" /\ conf = Original
  /\ pc = "write" => ~resolvectl /\ (hadConf => bak = "user")

\* The user's file is in its place or in the backup, which holds no other.
UserFile ==
  /\ hadConf => "user" \in {conf, bak} /\ bak # "usque"
  /\ resolvectl => conf = Original /\ bak = "absent"
  /\ pc = "cleaned" /\ hadConf => conf = "user" /\ bak = "absent"

\* The one host route there is behind the guard: it leads to the endpoint of
\* every set-up, over the interface every set-up detects.
GuardRoute == <<endpoint, Best(up)>>

\* What the guard protects.
GuardInv ==
  Guarded =>
    /\ bypass \subseteq {GuardRoute}
    /\ rules <= 1
    /\ Untouched
    /\ FirstOfItsKind
    /\ UserFile

\* The resolver file as long as no attempt with the file written was dropped,
\* whatever the account and the network: the user's file is in one place only,
\* and no set-up begins over usque's.
LinuxFile ==
  hadConf /\ ~dropped =>
    /\ bak # "usque"
    /\ conf = "user" <=> bak = "absent"
    /\ pc \in {"down", "bypass", "route", "rule", "dns"} => conf # "usque"
    /\ pc = "write" => conf = "absent"
    /\ pc = "cleaned" \/ resolvectl => conf = "user"

LinuxInv == GuardInv /\ LinuxFile

\* A step of RouteLinux keeps its types.
LEMMA LinuxTypeStep ==
  ASSUME RouteAssumption, TypeOK, [Next]_vars
  PROVE  TypeOK'
<1> USE DEF TypeOK, Files, world, routing, dns
<1>1. CASE usque_tun_create
  <2>1. attempts' \in 0 .. MaxAttempts
    BY <1>1 DEF usque_tun_create, RouteAssumption
  <2>2. tun' \in BOOLEAN /\ pc' \in {"down", "bypass"}
    BY <1>1 DEF usque_tun_create
  <2>3. UNCHANGED <<up, endpoint, shown, resolvectl, hadConf, disturbed,
                    routing, dns>>
    BY <1>1 DEF usque_tun_create
  <2> QED
    BY <2>1, <2>2, <2>3
<1>2. CASE RequestFails
  BY <1>2 DEF RequestFails
<1>3. CASE add_endpoint_bypass
  <2>1. Detected \in Links /\ endpoint \in Endpoints
    BY <1>3, DetectedIs DEF add_endpoint_bypass
  <2>2. bypass' \subseteq Endpoints \X Links
    BY <1>3, <2>1 DEF add_endpoint_bypass
  <2> QED
    BY <1>3, <2>2 DEF add_endpoint_bypass
<1>4. CASE SkipBypass
  BY <1>4 DEF SkipBypass
<1>5. CASE add_tunnel_route
  BY <1>5 DEF add_tunnel_route
<1>6. CASE add_tunnel_rule
  BY <1>6 DEF add_tunnel_rule
<1>7. CASE dns_setup_resolvectl
  <2>1. linkDns' \in BOOLEAN /\ pc' = "engine"
    BY <1>7 DEF dns_setup_resolvectl
  <2>2. UNCHANGED <<tun, world, routing, conf, bak, dropped>>
    BY <1>7 DEF dns_setup_resolvectl
  <2> QED
    BY <2>1, <2>2
<1>8. CASE BackupResolvConf
  BY <1>8 DEF BackupResolvConf
<1>9. CASE WriteResolvConf
  BY <1>9 DEF WriteResolvConf
<1>10. CASE EngineStarts
  BY <1>10 DEF EngineStarts
<1>11. CASE EngineFails \/ usque_tun_destroy \/ Crash
  BY <1>11 DEF EngineFails, usque_tun_destroy, Crash, DropTun
<1>12. CASE usque_route_cleanup
  <2>1. linkDns' \in BOOLEAN /\ pc' = "cleaned"
    BY <1>12 DEF usque_route_cleanup
  <2>2. conf' \in {conf, bak} /\ bak' \in {bak, "absent"}
    BY <1>12 DEF usque_route_cleanup
  <2>3. UNCHANGED <<tun, world, routing, dropped>>
    BY <1>12 DEF usque_route_cleanup
  <2> QED
    BY <2>1, <2>2, <2>3
<1>13. CASE Reboot
  BY <1>13 DEF Reboot
<1>14. CASE Reconfigure
  BY <1>14 DEF Reconfigure
<1>15. ASSUME NEW i \in Ifaces, LinkDown(i) \/ LinkUp(i) PROVE TypeOK'
  <2>1. up' \subseteq Ifaces /\ bypass' \subseteq Endpoints \X Links
    BY <1>15 DEF LinkDown, LinkUp
  <2>2. /\ disturbed' \in BOOLEAN
        /\ UNCHANGED <<pc, tun, tunRoute, rules, linkDns, conf, bak, dropped>>
        /\ UNCHANGED <<endpoint, shown, resolvectl, hadConf, attempts>>
    BY <1>15 DEF LinkDown, LinkUp
  <2> QED
    BY <2>1, <2>2
<1>16. CASE UNCHANGED vars
  BY <1>16 DEF vars
<1> QED
  BY <1>1, <1>2, <1>3, <1>4, <1>5, <1>6, <1>7, <1>8, <1>9, <1>10, <1>11,
     <1>12, <1>13, <1>14, <1>15, <1>16 DEF Next

\* A step that leaves the guard standing has found it, and changes nothing it
\* rests on: what it protects is said of the same route before and after.
LEMMA GuardStays ==
  ASSUME TypeOK, Guarded', [Next]_vars
  PROVE  /\ Guarded /\ GuardRoute' = GuardRoute
         /\ UNCHANGED <<up, endpoint, resolvectl, hadConf>>
<1>1. /\ UNCHANGED <<up, endpoint, shown, resolvectl, hadConf>>
      /\ ~disturbed
  <2>1. ~disturbed'
    BY DEF Guarded
  <2> QED
    BY <2>1 DEF TypeOK, Next, vars, world, usque_tun_create, RequestFails,
       add_endpoint_bypass, SkipBypass, add_tunnel_route, add_tunnel_rule,
       dns_setup_resolvectl, BackupResolvConf, WriteResolvConf, EngineStarts,
       EngineFails, usque_route_cleanup, usque_tun_destroy, Crash, DropTun,
       Reboot, Reconfigure, LinkDown, LinkUp
<1>2. Best(up)' = Best(up) /\ Best(up \cup Shown)' = Best(up \cup Shown)
  BY <1>1 DEF Best, Shown
<1> QED
  BY <1>1, <1>2 DEF Guarded, GuardRoute

\* A step of RouteLinux keeps what the guard protects.
LEMMA GuardStep ==
  ASSUME RouteAssumption, TypeOK, GuardInv, [Next]_vars
  PROVE  GuardInv'
<1> USE DEF TypeOK, Files, world, routing, dns
<1> DEFINE Parts == Untouched /\ FirstOfItsKind /\ UserFile
<1>1. SUFFICES ASSUME Guarded' PROVE GuardInv'
  BY DEF GuardInv
<1>2. /\ Guarded /\ GuardRoute' = GuardRoute
      /\ UNCHANGED <<up, endpoint, resolvectl, hadConf>>
  BY <1>1, GuardStays
<1>3. bypass \subseteq {GuardRoute} /\ rules <= 1 /\ Parts
  BY <1>2 DEF GuardInv
<1>4. /\ GuardRoute = <<endpoint, Detected>>
      /\ GuardRoute[2] # Tun /\ endpoint # NoEndpoint
  <2>1. Detected = Best(up) /\ Best(up) \in Ifaces
    BY <1>2, DetectedIsPhysical
  <2> QED
    BY <1>2, <2>1 DEF GuardRoute, Guarded, RouteAssumption
<1>5. ~disturbed'
  BY <1>1 DEF Guarded
<1> HIDE DEF GuardRoute
<1> USE <1>2, <1>3 DEF Untouched, FirstOfItsKind, UserFile, Original
<1>6. SUFFICES bypass' \subseteq {GuardRoute} /\ rules' <= 1 /\ Parts'
  BY DEF GuardInv
<1>7. CASE usque_tun_create
  BY <1>7 DEF usque_tun_create
<1>8. CASE RequestFails
  BY <1>8 DEF RequestFails
<1>9. CASE add_endpoint_bypass
  \* The route is not there yet, so that nothing has been done before.
  <2>1. bypass = {} /\ bypass' = {GuardRoute}
    BY <1>4, <1>9 DEF add_endpoint_bypass
  <2> QED
    BY <1>9, <2>1 DEF add_endpoint_bypass
<1>10. CASE SkipBypass
  BY <1>4, <1>5, <1>10 DEF SkipBypass
<1>11. CASE add_tunnel_route
  BY <1>11 DEF add_tunnel_route
<1>12. CASE add_tunnel_rule
  BY <1>12 DEF add_tunnel_rule
<1>13. CASE dns_setup_resolvectl
  BY <1>13 DEF dns_setup_resolvectl
<1>14. CASE BackupResolvConf
  BY <1>14 DEF BackupResolvConf
<1>15. CASE WriteResolvConf
  BY <1>15 DEF WriteResolvConf
<1>16. CASE EngineStarts
  BY <1>16 DEF EngineStarts
<1>17. CASE EngineFails \/ usque_tun_destroy \/ Crash
  \* The route does not lead over the TUN device.
  <2>1. bypass' = bypass
    BY <1>4, <1>17 DEF EngineFails, usque_tun_destroy, Crash, DropTun
  <2> QED
    BY <1>17, <2>1 DEF EngineFails, usque_tun_destroy, Crash, DropTun
<1>18. CASE usque_route_cleanup
  <2>1. /\ pc = "up" /\ pc' = "cleaned"
        /\ UNCHANGED <<bypass, tunRoute, rules>>
    BY <1>18 DEF usque_route_cleanup
  <2>2. IF resolvectl THEN UNCHANGED <<conf, bak>>
        ELSE IF bak # "absent" THEN conf' = bak /\ bak' = "absent"
                               ELSE UNCHANGED <<conf, bak>>
    BY <1>18 DEF usque_route_cleanup
  <2>3. Untouched' /\ FirstOfItsKind'
    BY <2>1, <2>2
  <2>4. UserFile'
    BY <2>1, <2>2
  <2> QED
    BY <2>1, <2>3, <2>4
<1>19. CASE \/ Reboot \/ Reconfigure
            \/ \E i \in Ifaces : LinkDown(i) \/ LinkUp(i)
  BY <1>5, <1>19 DEF Reboot, Reconfigure, LinkDown, LinkUp
<1>20. CASE UNCHANGED vars
  BY <1>20 DEF vars
<1> QED
  BY <1>7, <1>8, <1>9, <1>10, <1>11, <1>12, <1>13, <1>14, <1>15, <1>16,
     <1>17, <1>18, <1>19, <1>20 DEF Next

\* A step of RouteLinux keeps what is said of the file without the guard.
LEMMA LinuxFileStep ==
  ASSUME TypeOK, LinuxFile, [Next]_vars
  PROVE  LinuxFile'
<1> USE DEF TypeOK, Files, world, routing, dns, LinuxFile
<1>1. CASE usque_tun_create
  BY <1>1 DEF usque_tun_create
<1>2. CASE \/ RequestFails \/ add_endpoint_bypass \/ SkipBypass
           \/ add_tunnel_route \/ add_tunnel_rule
  BY <1>2 DEF RequestFails, add_endpoint_bypass, SkipBypass,
     add_tunnel_route, add_tunnel_rule
<1>3. CASE dns_setup_resolvectl
  BY <1>3 DEF dns_setup_resolvectl
<1>4. CASE BackupResolvConf
  BY <1>4 DEF BackupResolvConf
<1>5. CASE WriteResolvConf
  BY <1>5 DEF WriteResolvConf
<1>6. CASE EngineStarts
  BY <1>6 DEF EngineStarts
<1>7. CASE EngineFails \/ usque_tun_destroy \/ Crash
  BY <1>7 DEF EngineFails, usque_tun_destroy, Crash, DropTun
<1>8. CASE usque_route_cleanup
  BY <1>8 DEF usque_route_cleanup
<1>9. CASE \/ Reboot \/ Reconfigure
           \/ \E i \in Ifaces : LinkDown(i) \/ LinkUp(i)
  <2>1. UNCHANGED <<pc, conf, bak, dropped, resolvectl, hadConf>>
    BY <1>9 DEF Reboot, Reconfigure, LinkDown, LinkUp
  <2> QED
    BY <2>1
<1>10. CASE UNCHANGED vars
  BY <1>10 DEF vars
<1> QED
  BY <1>1, <1>2, <1>3, <1>4, <1>5, <1>6, <1>7, <1>8, <1>9, <1>10 DEF Next

-----------------------------------------------------------------------------
(* The BSDs.                                                               *)

\* The resolver file as long as no attempt with the file written was dropped:
\* the user's file is in one place only, and no set-up begins over usque's.
BsdFile ==
  hadFile /\ ~fixed /\ ~lost =>
    /\ backup # "usque"
    /\ resolv = "user" <=> backup = "absent"
    /\ at \in {"down", "gateway", "bypass", "halves", "dns"} =>
         resolv # "usque"
    /\ at = "write" => resolv = "absent"
    /\ at = "cleaned" => resolv = "user"

\* The host routes as long as the gateway stays: the set-up has found the
\* gateway of now, and the route of the endpoint leads there once the set-up is
\* past it.
BsdRoute ==
  /\ ~moved => /\ at \in {"bypass", "halves"} => setupGw = gateway
               /\ \A e \in Endpoints : host[e] \in {NoGateway, gateway}
  /\ ~moved /\ ~refused /\ target # NoEndpoint =>
       /\ at \in {"halves", "dns"} => host[target] = gateway
       /\ halves # {} => host[target] = gateway

\* The /1 routes are there only while an attempt is under way.
BsdDown == at = "down" => halves = {}

BsdInv == BsdFile /\ BsdRoute /\ BsdDown

\* A step of RouteBsd keeps its types.
LEMMA BsdTypeStep ==
  ASSUME Bsd!RouteBsdAssumption, Bsd!TypeOK, [Bsd!Next]_(Bsd!vars)
  PROVE  Bsd!TypeOK'
<1> USE DEF Bsd!TypeOK, Bsd!Owners, Bsd!machine, Bsd!routes, Bsd!dns
<1>1. CASE Bsd!usque_tun_create
  <2>1. setups' \in 0 .. MaxSetups
    BY <1>1 DEF Bsd!usque_tun_create, Bsd!RouteBsdAssumption
  <2> QED
    BY <1>1, <2>1 DEF Bsd!usque_tun_create
<1>2. CASE Bsd!get_default_gateway
  BY <1>2 DEF Bsd!get_default_gateway
<1>3. CASE Bsd!add_endpoint_bypass
  BY <1>3 DEF Bsd!add_endpoint_bypass
<1>4. CASE Bsd!add_halves
  BY <1>4 DEF Bsd!add_halves
<1>5. CASE Bsd!SetServiceDns
  BY <1>5 DEF Bsd!SetServiceDns
<1>6. CASE Bsd!BackupResolvConf
  BY <1>6 DEF Bsd!BackupResolvConf
<1>7. CASE Bsd!WriteResolvConf
  BY <1>7 DEF Bsd!WriteResolvConf
<1>8. CASE Bsd!EngineStarts
  BY <1>8 DEF Bsd!EngineStarts
<1>9. CASE Bsd!EngineFails \/ Bsd!usque_tun_destroy \/ Bsd!Crash
  BY <1>9 DEF Bsd!EngineFails, Bsd!usque_tun_destroy, Bsd!Crash, Bsd!Abandon
<1>10. CASE Bsd!usque_route_cleanup_bsd
  BY <1>10 DEF Bsd!usque_route_cleanup_bsd
<1>11. CASE Bsd!Reboot
  BY <1>11 DEF Bsd!Reboot
<1>12. CASE Bsd!Reconfigure
  BY <1>12 DEF Bsd!Reconfigure
<1>13. ASSUME NEW g \in Gateways \cup {NoGateway}, Bsd!GatewayChanges(g)
       PROVE  Bsd!TypeOK'
  BY <1>13 DEF Bsd!GatewayChanges
<1>14. CASE UNCHANGED Bsd!vars
  BY <1>14 DEF Bsd!vars
<1> QED
  BY <1>1, <1>2, <1>3, <1>4, <1>5, <1>6, <1>7, <1>8, <1>9, <1>10, <1>11,
     <1>12, <1>13, <1>14 DEF Bsd!Next

\* A step of RouteBsd keeps the invariant.
LEMMA BsdStep ==
  ASSUME Bsd!RouteBsdAssumption, Bsd!TypeOK, BsdInv, [Bsd!Next]_(Bsd!vars)
  PROVE  BsdInv'
<1> USE DEF BsdInv, BsdFile, BsdRoute, BsdDown, Bsd!TypeOK, Bsd!Owners,
            Bsd!machine, Bsd!routes, Bsd!dns
<1>1. CASE Bsd!usque_tun_create
  BY <1>1 DEF Bsd!usque_tun_create
<1>2. CASE Bsd!get_default_gateway
  BY <1>2 DEF Bsd!get_default_gateway
<1>3. CASE Bsd!add_endpoint_bypass
  BY <1>3 DEF Bsd!add_endpoint_bypass
<1>4. CASE Bsd!add_halves
  BY <1>4 DEF Bsd!add_halves
<1>5. CASE Bsd!SetServiceDns
  BY <1>5 DEF Bsd!SetServiceDns
<1>6. CASE Bsd!BackupResolvConf
  BY <1>6 DEF Bsd!BackupResolvConf
<1>7. CASE Bsd!WriteResolvConf
  BY <1>7 DEF Bsd!WriteResolvConf
<1>8. CASE Bsd!EngineStarts
  BY <1>8 DEF Bsd!EngineStarts
<1>9. CASE Bsd!EngineFails \/ Bsd!usque_tun_destroy \/ Bsd!Crash
  BY <1>9 DEF Bsd!EngineFails, Bsd!usque_tun_destroy, Bsd!Crash, Bsd!Abandon
<1>10. CASE Bsd!usque_route_cleanup_bsd
  BY <1>10 DEF Bsd!usque_route_cleanup_bsd
<1>11. CASE Bsd!Reboot
  BY <1>11 DEF Bsd!Reboot
<1>12. CASE Bsd!Reconfigure
  BY <1>12 DEF Bsd!Reconfigure
<1>13. ASSUME NEW g \in Gateways \cup {NoGateway}, Bsd!GatewayChanges(g)
       PROVE  BsdInv'
  BY <1>13 DEF Bsd!GatewayChanges
<1>14. CASE UNCHANGED Bsd!vars
  BY <1>14 DEF Bsd!vars
<1> QED
  BY <1>1, <1>2, <1>3, <1>4, <1>5, <1>6, <1>7, <1>8, <1>9, <1>10, <1>11,
     <1>12, <1>13, <1>14 DEF Bsd!Next

-----------------------------------------------------------------------------
(* Both.                                                                   *)

IInv == TypesOK /\ LinuxInv /\ BsdInv

\* The inductive invariant of both halves holds at first and after each step.
THEOREM RouteInvariant == MCSpec => []IInv
<1> USE RouteAssumption, Bsd!RouteBsdAssumption
<1>1. MCInit => IInv
  <2> SUFFICES ASSUME MCInit PROVE IInv
    OBVIOUS
  <2>a. 0 \in 0 .. MaxAttempts /\ 0 \in 0 .. MaxSetups
    BY DEF RouteAssumption, Bsd!RouteBsdAssumption
  <2>1. TypeOK
    BY <2>a DEF MCInit, Init, TypeOK, Files
  <2>2. Bsd!TypeOK
    BY <2>a DEF MCInit, Bsd!Init, Bsd!TypeOK, Bsd!Owners
  <2>3. LinuxInv
    <3>1. bypass \subseteq {GuardRoute} /\ rules <= 1
      BY DEF MCInit, Init
    <3>2. Untouched /\ FirstOfItsKind /\ UserFile
      BY DEF MCInit, Init, Untouched, FirstOfItsKind, UserFile, Original
    <3>3. LinuxFile
      BY DEF MCInit, Init, LinuxFile
    <3> QED
      BY <3>1, <3>2, <3>3 DEF LinuxInv, GuardInv
  <2>4. BsdInv
    BY DEF MCInit, Bsd!Init, BsdInv, BsdFile, BsdRoute, BsdDown
  <2> QED
    BY <2>1, <2>2, <2>3, <2>4 DEF IInv, TypesOK
<1>2. IInv /\ [MCNext]_<<platform, vars, bsd>> => IInv'
  <2> SUFFICES ASSUME IInv, [MCNext]_<<platform, vars, bsd>>
               PROVE  IInv'
    OBVIOUS
  <2>1. [Next]_vars /\ [Bsd!Next]_(Bsd!vars)
    BY DEF MCNext, bsd, Bsd!vars
  <2>2. TypeOK' /\ LinuxInv'
    BY <2>1, LinuxTypeStep, GuardStep, LinuxFileStep
       DEF IInv, TypesOK, LinuxInv
  <2>3. Bsd!TypeOK' /\ BsdInv'
    BY <2>1, BsdTypeStep, BsdStep DEF IInv, TypesOK
  <2> QED
    BY <2>2, <2>3 DEF IInv, TypesOK
<1> QED
  BY <1>1, <1>2, PTL DEF MCSpec

\* Type correctness of the two route modules, for any interfaces, endpoints
\* and gateways and any number of attempts.
THEOREM TypesCorrect == MCSpec => []TypesOK
<1>1. IInv => TypesOK
  BY DEF IInv
<1> QED
  BY <1>1, RouteInvariant, PTL

\* dns_setup_resolv_conf never overwrites the user's file, and
\* usque_route_cleanup brings it back, in two cases: as long as no attempt
\* that had written resolv.conf ended without the clean-up, with any account
\* and on any network; and, however many did, as long as the account has an
\* endpoint and the network stays, because add_endpoint_bypass then fails.
THEOREM LinuxFileSafe == MCSpec => []LinuxFileKept
<1>1. TypesOK /\ LinuxInv => UserDnsSurvives /\ ShutdownRestoresDns
  <2> SUFFICES ASSUME TypesOK, LinuxInv, hadConf, Guarded \/ ~dropped
               PROVE  /\ "user" \in {conf, bak}
                      /\ pc = "cleaned" => conf = "user" /\ bak = "absent"
    BY DEF UserDnsSurvives, ShutdownRestoresDns
  <2>1. CASE Guarded
    BY <2>1 DEF LinuxInv, GuardInv, UserFile
  <2>2. CASE ~dropped
    BY <2>2 DEF LinuxInv, LinuxFile, TypesOK, TypeOK, Files
  <2> QED
    BY <2>1, <2>2
<1>2. IInv => LinuxFileKept
  BY <1>1 DEF IInv, LinuxFileKept
<1> QED
  BY <1>2, RouteInvariant, PTL

\* add_tunnel_rule adds at most one rule as long as the account has an
\* endpoint and the network stays.
THEOREM OneRule == MCSpec => []OneRuleWhileGuarded
<1>1. IInv => OneRuleWhileGuarded
  BY DEF IInv, LinuxInv, GuardInv, OneRuleWhileGuarded
<1> QED
  BY <1>1, RouteInvariant, PTL

\* usque_route_setup_bsd and its clean-up keep the user's file as long as no
\* attempt that had written resolv.conf ended without the clean-up.
THEOREM BsdFileSafe == MCSpec => []BsdFileKept
<1>1. IInv => BsdFileKept
  BY DEF IInv, TypesOK, BsdInv, BsdFile, BsdFileKept, Bsd!UserFileKept,
         Bsd!TypeOK, Bsd!Owners
<1> QED
  BY <1>1, RouteInvariant, PTL

\* On neither system is anything diverted into the tunnel before the endpoint
\* is reached around it, if the account has one and the network stays.
THEOREM BypassIsFirst == MCSpec => []BypassBeforeTunnel
<1>1. IInv => BypassFirst
  BY DEF IInv, LinuxInv, GuardInv, Untouched, Original, BypassFirst
<1>2. IInv => Bsd!DivertedBehindBypass
  BY DEF IInv, BsdInv, BsdRoute, Bsd!DivertedBehindBypass
<1>3. IInv => BypassBeforeTunnel
  BY <1>1, <1>2 DEF BypassBeforeTunnel
<1> QED
  BY <1>3, RouteInvariant, PTL
=============================================================================
