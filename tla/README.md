# A verification project for usque-a

usque-a is a client for Cloudflare WARP over MASQUE: it creates a TUN device,
opens a QUIC connection with an HTTP/3 CONNECT-IP request to an endpoint, and
forwards IP packets between the two. This directory holds TLA+ modules of its
core, the TLC configurations that check them, and proofs for TLAPS.

Paths below are those of the repository (`src/tunnel.cpp`, ...).

## 1. The system

| component | source | state | operations |
|---|---|---|---|
| tunnel supervisor | `src/tunnel.cpp` | `usque_tunnel`: `running`, the TUN device, the DNS context, the engine, libuv handles | `usque_tunnel_new/run/stop/destroy`, `run_connection` |
| event loop | `src/tunnel.cpp` | poll, timer and async handles, `post_noise_sent` | `on_udp_read`, `on_tun_read`, the timer callback, `on_stop`, `on_send` |
| hand-over from other threads | `src/tunnel.cpp` | `send_buf`, `send_len`, `send_pending` | `usque_tunnel_send_packet`, `on_send` |
| QUIC engine | `src/transport/quic_engine.cpp` | ngtcp2 connection, TLS session, `handshake_done`, `tunnel_ready` | `setup`, `on_read`, `on_write`, `on_expiry`, `send_packet`, `cleanup` |
| CONNECT-IP request | `src/transport/http3_connect.cpp` | nghttp3 connection, `connected`, `connect_stream_id` | `http3_setup`, `http3_submit_connect`, stream callbacks |
| DNS hijack | `src/tun/dns_hijack.c` | `pending[256]`, `pending_count` | `rewrite_query`, `rewrite_response` |
| Linux routes and DNS | `src/tun/route_linux.c` | none of its own: kernel routes and rules, `/etc/resolv.conf` and its backup, resolved's links | `usque_route_setup`, `usque_route_cleanup` |
| BSD and macOS routes | `src/tun/route_bsd.c` | none of its own: routes, a service's DNS servers, `/etc/resolv.conf` and its backup | `usque_route_setup_bsd`, `usque_route_cleanup_bsd` |
| Windows routes | `src/tun/route_windows.c` | as above | declared, called by nobody in `src/` |
| TUN devices | `src/tun/tun_*.c` | file descriptors, a wintun session | create, read, write, destroy |
| Windows reader | `src/tunnel.cpp` | `tun_thread_running`, `tun_async`, the session's read event | `tun_read_thread`, `on_tun_async` |
| datagrams | `src/connectip/connect_ip.c` | none | compose, parse, noise packet |
| TLS | `src/transport/tls_setup.cpp` | the SSL context, the pinned key | `tls_context_create`, `tls_create_session` |
| configuration | `src/config/*.cpp` | the parsed configuration | parse, defaults, validate, serialise, durations |
| registration | `src/api/*.cpp` | a key pair, a device at the service | `register_device`, `enroll_key` |
| command line | `src/main.cpp` | `g_tunnel` | run, register, check, the signal handler |

How they interact. One thread is inside `usque_tunnel_run`: it makes attempts,
each a call of `run_connection`, and an attempt creates everything it uses, runs
the event loop and tears everything down. Other threads and signal handlers
reach it through async handles (`stop_async`, `send_async`, on Windows `tun_async`) and
through plain fields (`running`, the send slot, `tun_thread_running`). Within the loop ngtcp2 calls back into
the engine and nghttp3, which set `tunnel_ready` or hand a packet to `recv_cb`;
the timer is the only thing that drives retransmission. Route and DNS set-up act
on state that outlives the process. So do `register` and the configuration API:
they share one file with every other process, and `register` shares the account
with the service.

What is hard in it: stop requests that arrive in every phase; early returns that
free different subsets of what was acquired; libuv handles that are used again
by the next attempt; a timer that two of its three triggers start again and one
does not; an unsynchronised slot; a table of mappings without expiry under
packet loss; kernel and file state that survives a crash; stages of a set-up that
each free by hand what came before; a write loop between two libraries whose
answers end it in different ways; an event and wake-ups that coalesce; a configuration that
is written in a form the reader does not read; header arithmetic at the ends of
its ranges.
`PROJECT.json` lists each such hazard at its line, with the properties aimed at
it or the reason there is none yet.

What makes each component correct:

* supervisor: nothing an attempt acquires is lost, watchers never call back into
  freed objects, a stop request is heard, failures are retried;
* event loop: the timer is never parked, loss is recovered from, post-noise is
  sent exactly once and only behind an accepted request;
* HTTP/3: the two libraries agree on every byte of a stream, the request is
  written once credit allows;
* tunnel object and TLS: a failing stage leaves nothing behind, what a tunnel
  uses stays there as long as it does, nothing is freed twice;
* hand-over: the slot is always emptied; an undisturbed packet arrives whole;
* Windows reader: no packet is stranded in the ring, the end of an attempt does
  not wait for ever, and the reader never outlives what it uses;
* DNS hijack: a reply gets the address of a server its client really asked, and
  no mapping is lost by removals;
* routes, on each platform: the user's resolver file survives; if the account has
  an endpoint, rules do not pile up and nothing is diverted before the endpoint
  is reached around the tunnel;
* configuration and registration: an account in the file is one the service
  knows with its key, a tunnel is started with a key, an MTU, DNS servers and
  delays above zero unless somebody wrote others, saving and loading do not
  change them;
* datagrams: the checksum holds after each hop, the two ends accept the same
  packets, a looping packet ends.

## 2. Modules and runs

| module | models | run by |
|---|---|---|
| `Supervisor` | run loop, `run_connection`, stop calls | `supervisor`, `supervisor_stop` |
| `EventLoop` | one connection's callbacks, timer and network | `event_loop`, `event_loop_loss` |
| `SendSlot` | `usque_tunnel_send_packet` against `on_send` | `send_slot`, `send_slot_overlap` |
| `DnsHijack` | the pending array, the network around it | `dns_hijack`, `dns_hijack_full` |
| `DnsNat` | what the hijack promises: a bounded bag of mappings | refined by `DnsHijack` |
| `TlsSetup` | `usque_tunnel_new` and `usque_tunnel_destroy`, the TLS context, sessions | `event_loop` |
| `Http3Connect` | opening the streams, `on_write` call by call | `connect_ip` |
| `WintunReader` | the Windows device and its reader thread | `send_slot` |
| `RouteLinux` | set-up and clean-up requests, kernel and files | `route_linux` |
| `RouteBsd` | the same on macOS and FreeBSD | `route_linux` |
| `Duration` | durations as text, read and written | through `ConfigStore` |
| `ConfigStore` | the configuration file, registration, the processes that share them | `config_store`, `config_reload` |
| `ConnectIp` | compose, parse and noise packets on the path of one packet | `connect_ip` |
| `SupervisorProofs`, `ConnectionProofs`, `HandoverProofs`, `DnsHijackProofs`, `RouteProofs`, `DurationProofs`, `ConfigStoreProofs`, `WireProofs` | theorems (section 3) | TLAPS |

Each `MC...` module names values for the constants. Four of them also put two
modules side by side, so that one run answers for both: `MCConnection`
(`EventLoop`, `TlsSetup`), `MCWire` (`ConnectIp`, `Http3Connect`), `MCHandover`
(`SendSlot`, `WintunReader`) and `MCRoutes` (`RouteLinux`, `RouteBsd`). The two
share no variable in the code either: a variable that never changes picks the
one a behaviour follows, the other rests in an initial state, and fairness is
asked only of the one that moves. `TypesOK` is the conjunction of both type
invariants. In every module a
definition `<name>_<slip>` is `<name>` with a slip a change of the code could
make; `PROJECT.json` pairs it with the property that must then fail.

### Supervisor

`pc` is the place in `run_connection` or around it: one action per step of the
function, with a disjunct per early return. `live` counts the objects that
exist, `held` names the fields that refer to one; overwriting a field leaks,
which is how `dns_hj` and the QUIC connection are lost on failed attempts.
`Release` gives up what a branch of the code frees and no more. `watch` is the
libuv state of the three watchers and `misuse` records initialising one again
while the loop still lists it. `StopFlag` and `StopSend` are the two statements
of `usque_tunnel_stop`; they interleave with every step.

* `supervisor` (two callers, three failed attempts, three stop requests). What
  fails to be freed is bounded by the failed attempts (`LeakPaidByFailures`);
  descriptors are never lost (`NoDescriptorLeak`); `WatchersServed`; each exit of
  a loop uses up a stop request (`ExitNeedsStop`); no request is lost in any phase
  (`StopHeard`), although `running = true` overwrites the flag, because the
  wake-up is pending until the loop runs. `NeverReturns` says what the code does
  about the end of the run: the flag that `return t->running ? 0 : -1` tests is
  always false there (`ExitFlagClear`, part of the proof).
* `supervisor_stop` is the other side of the last point: `tunnel.h` promises that
  `usque_tunnel_stop` ends `usque_tunnel_run`, and it does not. One failure and
  one request are enough.

Bounds: three failures let every pair of early returns follow one another and
leave a third to see what they left; three requests let a caller stop the next
attempt as well. Fairness: weak for the run thread and for a caller between its
two statements, since both are straight code; none for the calls themselves, nor
for `Abort` (libuv may or may not notice a handle that was initialised twice).

### EventLoop

The callbacks run one at a time, so each is one action, including the engine
call, `on_write` and `update_timer` where the code has them. A message stands
for the datagrams of one purpose; ngtcp2's retransmission state is one
outstanding message, and its deadline is ranked "soon", "later" or "never". A
connection at rest is taken to have a keep-alive, which a configuration with a
negative `keepalive_period` does not set. `on_write` is one step that ends; its
loop, and the call that spins in it when the congestion window is full, are in
`Http3Connect` alone, and `LossRecovered` says nothing of such a call. The
model keeps two facts about the code that matter: `on_tun_read` does not start
the timer again, and the results of `on_read`, `on_write` and `on_expiry` are
dropped.

* `event_loop`: any message may be lost any number of times, the server may end
  the stream or the connection, the handshake may fail. `TimerStaysArmed` and
  `LossRecovered` hold from the first datagram of the server on; before that, the
  timer may be parked at UINT64_MAX, since it is started before the first flight
  is written, and a lost first flight is not recovered from. `PostNoiseOnce`:
  noise at most once, only behind an accepted request, and in the end for certain.
* `event_loop_loss`: the loop does not end when the connection is lost, so the
  reconnection that `tunnel.h` promises does not take place.

`EventLoop` has no constants. Fairness: weak for the timer, which libuv fires,
and for the start; strong for serving and reading a message: a network that
loses every copy is not one any transport recovers from.

### TlsSetup

`refs` is the set of references, pairs of a holder and an object; `new` stands for
the local variables of `usque_tunnel_new` and `tls_context_create`. The objects
of BoringSSL go with their last reference (`Swept`), everything else only when
the code frees it, so that what an early return forgets stays as a reference of
`new` and what it frees twice sets `twice`.

* `event_loop` (three calls, each failing at any stage or not, with and without a
  pinned key): `TunnelAccounted`. What a failing call does lose is the `backend`
  of its loop: `uv_loop_close` refuses while the two async handles are listed, and
  nobody closes them on that path. A tunnel that has run is never destroyed here,
  since `usque_tunnel_run` does not return.

Three calls let a tunnel be made after a failed and after a destroyed one.

### SendSlot

The stores of a call reach the loop in any order before its `uv_async_send`,
since the fields are plain; the packet is two halves. `on_send` reads the flag,
the length and the bytes in separate steps.

* `send_slot` (two threads, two calls each; empty, ordinary and oversized
  packets): a waiting packet is always taken out (`SlotDrains`), and a call that
  finds the slot at rest and is followed by no other before it was taken is read
  whole (`LoneCallWhole`). `lone` records such a call.
* `send_slot_overlap`: with overlapping calls the engine reads torn packets,
  although the header says "Thread-safe".

Two calls per thread are enough for a call to meet its own predecessor and a
call of the other thread. Fairness: weak for `on_send` (the loop runs) and for a
call once begun.

### WintunReader

The main thread creates the device stage by stage, starts the reader, runs the
loop and takes everything down; the reader waits for the session's event for at
most 100 ms, tests the flag a second time and wakes the loop; the loop drains
the ring. The event resets itself when a wait returns and, like the wake-up, it
counts to one. The reader's flag is a plain bool, but the reader makes a system
call between any two tests of it.

* `send_slot` (three devices, three packets): `DeviceAccounted` (what a failed
  stage or an attempt held is given back, and the reader never outlives it),
  `RingDrained` (no order of arrivals, waits and reads strands a packet) and
  `AttemptEnds` (the join ends because the wait does).

Three packets are one before the reader starts, one while the loop drains and
one between its last read and the next wait; with three devices an attempt
follows a failed set-up and a finished attempt. Fairness: weak for both threads;
none for the host's packets or for the end of the loop.

### DnsHijack

`pending` is the array as a sequence. A client is a source address and port.
`net` counts, per client, the queries whose reply may still come; the network
may lose, duplicate and reorder. `excess` counts, per client, queries that found the array
full and duplicated replies; `asked` is what this context has seen.

* `dns_hijack` (two clients, two servers, three slots, five queries, two
  duplicates): `RestoredIsAsked`; `NoneForgotten` relates replies under way to
  mappings held; `ImplementsNat` shows that the array with its swap-removal
  implements `DnsNat`, where a reply uses up any one mapping of its client. Five
  queries over three slots fill the array, empty it and fill it again.
* `dns_hijack_full`: without duplicates, one query more than slots after lost
  replies: a reply reaches the client with the hijack target as its source.

### RouteLinux

One action per netlink request or file operation, so that a crash can fall
between any two; creating the TUN device may fail, which ends the attempt. A host
route is a pair of an endpoint and an interface, and the same pair cannot be
added twice. `endpoint` is the account's, or none: `register` writes an account
with an empty `endpoint_v4` when the service's answer has no peers, and
validation lets it pass. `SkipBypass` is then the set-up without a bypass
(`route_linux.c:329`), as it is when the detection finds no interface. `shown` says
that the detection does not skip the TUN device by its name (it skips `tun...` but
not the `usque0` of `full.json`), so that the bypass may lead into the device
itself. `Reconfigure` starts the program with another account or name.

`disturbed` is true once an interface, the account or the name changed, the machine
was rebooted, or the detection failed; `dropped` once an attempt that had written
`resolv.conf` ended without `usque_route_cleanup`. `Guarded` is the case in which
a set-up that was not cleaned up stops the next one: there is an endpoint,
nothing is disturbed, and the detection prefers a physical interface to the TUN
device. The host route that was left behind is then the very one the next set-up
asks for (EEXIST), and it leaves the reconnected tunnel without routes.

* `route_linux` (two interfaces with the TUN device ranked between them, two
  endpoints or none, four attempts, crashes, reboots, other accounts and names):
  `UserDnsSurvives` and `ShutdownRestoresDns` (as `LinuxFileKept`) hold for two
  reasons, each of which is enough. As long as no attempt was `dropped` the
  clean-up follows each write, with any account and on any network; and behind
  the guard the EEXIST comes before the rename that would move usque's own file
  over the backup. Without an endpoint only the first is left: after a crash
  with the file written, the next set-up destroys the user's backup. The guard
  also keeps rules from piling up (`OneRuleWhileGuarded`) and is what
  `BypassFirst` (in `BypassBeforeTunnel`) is about; without an endpoint each
  set-up adds a rule, and tunnel route, rule and DNS are set up with no bypass.
  The header says of `usque_route_cleanup` that it cleans up "all routes, rules, and
  DNS configuration"; it undoes the last, and the comment in its body leaves the
  rest to the kernel, which takes the routes over the device away but neither the
  ip rule, which names no interface, nor the endpoint's host route. `DropTun` keeps
  both, and they stay until a reboot.

Four attempts allow a failed, a crashed and a complete one before the last; two
endpoints let a route of another account stay behind.

### RouteBsd

One action per shell command or file operation; no result is looked at, so each
command may fail, and only a missing default gateway ends the set-up. `target` is
the account's endpoint or none, in which case there is no command for a host route
(`route_bsd.c:78`) and the /1 routes are added all the same; `host` has the gateway
of each endpoint's route. `service`
says whether `networksetup` lists an enabled service, whose DNS servers are then
set and never reset; otherwise `resolv.conf` is moved aside. `fixed` is a file that
cannot be renamed and is then written over in place.

* `route_linux` (two gateways or none, two endpoints or none, three attempts,
  crashes, reboots, other accounts, changes of the gateway): `BsdFileKept` holds
  as long as no attempt that had written the file ended without its clean-up.
  Unlike on Linux nothing stops the next set-up then, and the rename puts
  usque's own file over the user's backup; the property says that this is the
  only way. `BypassBeforeTunnel`: the host route of the account's endpoint, if it
  has one, is there before the /1 routes, also after the program ran with
  another account, as long as the gateway stays and no command was refused.

Three attempts are one that is interrupted, one that finds what it left, and one
after a clean end.

### ConfigStore and Duration

`file` is the file: absent, torn, or whole with its document. `server` is what the
service knows of each device. A process registers (`PostReg`, `PatchReg`,
`OpenNew`, `Close`), or loads and then checks, runs or saves (`Load`, `Check`,
`Run`, `OpenSave`, `Close`), and may be killed between any two of these; `Edit`
is a person with an editor. A document is a function from member names to
values, so that an absent member is one outside its domain, and the reading
operators (`parse_settings`, `apply_defaults`, `validate`) are those of the
code, in its order. `Close` may leave a torn file and report success, because
the result of `fclose` is not used.

`Duration` represents the text of a duration as a sequence of pieces, a number
with its unit, and what follows the unit: this is all `parse_unit_factor` looks
at. Numbers are whole; a text with a fraction, in nanoseconds, or with a bare
`s` is left out.

* `config_store` (two processes, two devices, 20 edits): `AccountsEnrolled` over
  all interleavings of registrations, lost answers, crashes and saves;
  `ReplacementInHand`: only a process with an enrolled account in its hands
  destroys the old file, so that a failed registration leaves it usable;
  `RunsValid`: a tunnel is started with a key, an MTU above zero, servers, ordered
  noise ranges, and durations above zero, by way of the order of parsing,
  defaults and validation. Of the durations it excepts what somebody wrote with a
  minus sign: "-5s" reads as -5000, passes both, and makes `nanosleep` at
  `tunnel.cpp:553` fail, so that attempts follow each other without a pause; no
  default, save or copy makes such a number. Nothing in the code asks for the
  endpoint that `tunnel.cpp:331` connects to, so the property does not either
  (what follows is in `RouteLinux` and `RouteBsd`). `SaveKeeps`: a save changes a duration to its
  default or not at all, and does so once.
* `config_reload`: such a change can contradict another member, and the saved
  file is then refused.

Bounds: two devices let a second registration replace the account of a first,
or meet it half-way; the edits hold one document for each way a member is
defaulted, refused or changed. `MaxDns` is 2 instead of 16, with one list of
three. No `Edit` happens while a process has the file open. Safety only: the
commands may be given up at any point, so there is no fairness.

### ConnectIp

One packet at a time, with the header fields the code reads; the remaining words
of the header enter the checksum as their sum. `where` is the host, the wire, or
dropped for good; a packet that arrives may be sent again, so that it loops.
`first` and `hops` remember how it came and how often it was sent.

* `connect_ip`: about two thousand packets and datagrams on both sides of every
  comparison, with sums that carry not at all, once and twice. `HopsPaid`,
  `ChecksumSound` and `ComposedParses` relate what goes out to what came, and the
  sender's checks to the receiver's; `LoopEnds` is the reason for a TTL.
  `ChecksumSound` says exactly when the checksum is right: `cip_ipv4_checksum`
  covers 20 bytes whatever the header length, while headers with options are let
  through, so that the options have to add up to nothing.

`hops` counts modulo 256, more than the 254 hops a TTL allows, so that a packet
that does not pay shows as one that never ends. Fairness: weak for the one who
has the packet, who sends, receives or drops it. A run stops once its packet was
dropped.

### Http3Connect

`on_write` one library call at a time: what nghttp3 offers (`Offered`, in the
order control, QPACK, request), what ngtcp2 answers, and what the code then
does. Stream data is counted in units, of which `Capacity` fill a packet. Between
calls the server may grant credit, stop the request or end the connection, and
the congestion window may change (`CongestionMoves`, which also stands for all
other packets). `tight` remembers whether a call began with less window than the
data on offer needed.

* `connect_ip` (packets of two units, five units in four streams, every initial
  credit, zero to two packets of window): `BytesOnce`: after each call ngtcp2 has
  taken exactly what nghttp3 no longer offers, and no packet is left under
  construction. `RequestWritten`: a request with enough credit is written,
  although another stream's blockade ends a call early. The property names what
  the code does not handle: a call that runs into a full congestion window
  gets 0 from `writev_stream`, offers the same data again and never ends (`spin`),
  and a stream that was blocked once is never unblocked.

A request of one packet behind three streams of half a packet crosses a packet
border in each order of answers. Fairness: weak for a call that has begun and
for the loop that calls `on_write` again, which is `TimerStaysArmed`.

## 3. Proofs

The proof modules show, for every value of the constants, every invariant and
every action property that the passing runs check, and the refinement of
`DnsNat`. Each inductive invariant was first checked by TLC on the run's instance.
A theorem about a module that is run side by side with another is stated for the
specification of the run (`MCSpec`), from an invariant that is the conjunction
of both halves: a step of one leaves the other at rest.

What they rest on are the assumptions named in the modules, which TLC evaluates
in each run:

* `SupervisorAssumption`, `SendAssumption`, `DnsAssumption`, `TlsAssumption`,
  `WintunAssumption`, `RouteBsdAssumption`: the bounds are natural numbers, and
  the names for "none" differ from what they are compared with;
* `RouteAssumption`: the interfaces are finitely many, the TUN device is none of
  them, and their scores differ, so that there is a best one;
* `ConnectIpAssumption`: a packet's fields have the widths of the header's and its
  bytes fit the buffer, which is shorter than 65536;
* `Http3Assumption`: lengths and credits are natural numbers, and a request is
  not longer than the largest credit;
* `ConfigAssumption`: no device is taken for the empty key or for nothing, at least
  one server may be taken over, and an edit leaves the `id` alone, writes servers
  as a list and durations as texts (a member of another JSON type reads as an
  absent one, see `parse.cpp`).

### Supervisor (SupervisorProofs)

| theorem | statement |
|---|---|
| `IInvHolds` | `Spec => []IInv` |
| `TypeCorrect` | `Spec => []TypeOK` |
| `DescriptorsKept` | `Spec => []NoDescriptorLeak` |
| `LeaksBounded` | `Spec => []LeakPaidByFailures` |
| `CallbacksServed` | `Spec => []WatchersServed` |
| `HandlesFresh` | `Spec => []HandlesSoundUntilExit` |
| `ExitsArePaid` | `Spec => []ExitNeedsStop` |
| `RunNeverEnds` | `Spec => [](ExitFlagClear /\ NeverReturns)` |

None of the safety properties is inductive. `IInv` adds what the reader of
`run_connection` has in mind at each line: `OwnedByPhase` (which fields refer to
an object in which phase), `HeldIsLive` (a field never refers to a freed
object, which is what keeps the counts from going below zero), `DebtPaid` (a
reference that outlived its attempt counts as leaked at once, since the next
attempt overwrites it), `WatchedByPhase` and `FreshUntilExit`. The proof has
three lemmas over the steps, one per group of conjuncts: `TypeStep`,
`ResourceStep` and `HandleStep`, each with one case per action; `AcquireTyped`
and `ReleaseTyped` treat creating and freeing for an arbitrary set of fields.

### EventLoop and TlsSetup (ConnectionProofs)

| theorem | statement |
|---|---|
| `ConnectionInvariant` | `MCSpec => []IInv` |
| `TypesCorrect` | `MCSpec => []TypesOK` |
| `TimerArmed` | `MCSpec => []TimerStaysArmed` |
| `NoiseOnce` | `MCSpec => []OneBurst`, the safety half of `PostNoiseOnce` |
| `TunnelHeld` | `MCSpec => []TunnelAccounted` |

That the timer stays armed needs that nothing of the server was heard before
the loop runs (`TimerInv`); that noise is sent once needs what readiness rests on
(`ReadyBehindRequest`). `TunnelAccounted` speaks of what can be reached through
references; `RefsInv` says which references there are at each of the stages of
`tls_context_create`, and reachability is then computed for each of them.

### SendSlot and WintunReader (HandoverProofs)

| theorem | statement |
|---|---|
| `HandoverInvariant` | `MCSpec => []IInv` |
| `TypesCorrect` | `MCSpec => []TypesOK` |
| `LoneCallsArrive` | `MCSpec => []LoneCallWhole` |
| `DeviceHeld` | `MCSpec => []DeviceAccounted` |

`LoneOK` is the argument that a call without another beside it needs no lock: until
its `uv_async_send` the loop is asleep, so each store it has made stays, and the
copy that `on_send` makes later finds them. `DeviceInv` lists what
`usque_tun_create` holds after each stage and when the reader may live.

### DnsHijack (DnsHijackProofs)

| theorem | statement |
|---|---|
| `TypeCorrect` | `Spec => []TypeOK` |
| `RestoredAreAsked` | `Spec => []RestoredIsAsked` |
| `NoReplyForgotten` | `Spec => []NoneForgotten` |
| `ArrayImplementsNat` | `Spec => ImplementsNat` |

Everything is counting: `Where(q, E)` are the positions of the entries that lie
in a set, and the lemmas say what an append and the swap-removal do to their
number, for any array. The refinement maps the array to the number of times each
mapping occurs; a query becomes `Ask`, a reply that finds a mapping `Restore`, one
that finds none `PassThrough`, and a lost query or a new connection the rest.

### RouteLinux and RouteBsd (RouteProofs)

| theorem | statement |
|---|---|
| `RouteInvariant` | `MCSpec => []IInv` |
| `TypesCorrect` | `MCSpec => []TypesOK` |
| `LinuxFileSafe` | `MCSpec => []LinuxFileKept` |
| `OneRule` | `MCSpec => []OneRuleWhileGuarded` |
| `BsdFileSafe` | `MCSpec => []BsdFileKept` |
| `BypassIsFirst` | `MCSpec => []BypassBeforeTunnel` |

`LinuxInv` makes the two reasons precise for which the user's file survives on
Linux. `GuardInv`: behind the guard every set-up detects the best physical
interface, whether the TUN device is there or not (`DetectedIsPhysical`), hence
there is at most one bypass route; without it nothing has been done yet
(`Untouched`), and a set-up that got past it is the first of its kind
(`FirstOfItsKind`), so that the rename never meets usque's own file. `GuardStays`
shows that a step after which the guard stands has found it. `LinuxFile`, like
`BsdFile`, needs no guard, endpoint or network, but holds only as long as no
attempt was dropped: no set-up then begins over usque's file. `BsdRoute` follows
the host route of the endpoint through the set-up, and the other endpoints' for
the accounts to come.

### Duration and ConfigStore (DurationProofs, ConfigStoreProofs)

| theorem | statement |
|---|---|
| `DurationRead` | every text reads as an integer |
| `DurationKept` | what was written of `ms > 0` reads as `ms` or as the default, of `ms <= 0` as 0 |
| `ConfigInvariant` | `Spec => []IInv` |
| `TypeCorrect` | `Spec => []TypeOK` |
| `AccountsAreEnrolled` | `Spec => []AccountsEnrolled` |
| `RunsAreValid` | `Spec => []RunsValid` |
| `SavesKeep` | `Spec => []SaveKeeps` |
| `ReplacementIsInHand` | `Spec => ReplacementInHand` |

The sums of `Total` are folds of the community modules, recursive functions on
finite sets. `FoldExists` shows that there is such a function, for the subsets
of one size after the other, by taking a smallest counterexample; the recurrence
follows, and with it the sum of one piece. That is all `DurationKept` needs,
because a text of several units stops at its first piece.

`IInv` of `ConfigStore` says what may be held, of a document (`Enrolled`), of a
loaded configuration (`Usable`, `Shaped`) and of the file (`FileOK`), each judged by
what the service knows. A negative duration of a document is one of an edit
(`DurationOK`), because registration and `format_duration_ms` write none. `StillOK` shows that none of this is lost when the
service learns more; the steps then only have to show it of the one entry they
change. `SaveKeeps` follows from `Shaped` and `DurationKept`: `ReloadedIs` computes a
configuration that was saved and loaded, and `Settles` shows that a duration does
not change a second time.

### ConnectIp and Http3Connect (WireProofs)

| theorem | statement |
|---|---|
| `WireInvariant` | `MCSpec => []IInv` |
| `TypesCorrect` | `MCSpec => []TypesOK` |
| `HopsArePaid` | `MCSpec => []HopsPaid` |
| `ChecksumIsSound` | `MCSpec => []ChecksumSound` |
| `ComposedAreParsed` | `MCSpec => []ComposedParses` |
| `BytesAreOnce` | `MCSpec => []BytesOnce` |

The checksum is arithmetic: folding a sum keeps it modulo 65535 and keeps it
from becoming nothing, and two folds are enough for a header's sum. TLC checks
this for a few sums, the proof covers all of them. `HopsInv` says that a packet
differs from the one that came in its TTL alone, `UnitsInv` that every unit of a
stream is either taken or still offered, and `PacketInv` that a packet under
construction is there only within a call.

### Model-checked only

The temporal properties that need fairness (`StopHeard`, `LossRecovered`,
`PostNoiseOnce` beyond `OneBurst`, `SlotDrains`, `RingDrained`, `AttemptEnds`,
`LoopEnds`, `RequestWritten`) and the five disagreements the violation runs show.
The prover has no rules for `WF` and `ENABLED`, and a counterexample is TLC's to
find.

## 4. Plan

1. Proofs of facts that say why the conditional properties have their
   conditions, such as that `RouteBsd` loses the file only by a dropped attempt,
   and lemmas behind the liveness properties: what makes the timer's, the slot's
   and the ring's progress possible in each state, without the fairness.
2. Of the system itself, `Supervisor` together with the routes and the event loop
   as one machine (which routes are in place while a connection forwards) is
   open.

## 5. Not modelled

`route_windows.c`, which nothing in `src/` calls; the Darwin and FreeBSD wrappers
of TUN system calls, which keep a descriptor and nothing else; the sockets of
the HTTP client (a request fails or it does not); JSON as text, and members of
the configuration that are copied as they are, for which one stands; the public
key comparison of `pinning_verify_cb`, a function of its arguments; checksums and
packet layout inside `DnsHijack`; `cip_varint_encode` and
`cip_compose_icmp_too_big`, which only tests call; the text of the request's
headers; credit for received stream data; time in milliseconds, and noise
delays; pre-noise, which changes no state; the signal handler, which is one of
`Supervisor`'s callers, before `g_tunnel` is set. The NDEBUG and the asserting build
of libuv differ once a handle was initialised twice: `Abort` is the choice between
them.

Five more places are hard to test and outside the models, since what bites there
is data or a library's inside: `tunnel.cpp:261` (a noise delay of a second or more
makes `nanosleep` fail), `quic_engine.cpp:261` (an error of `http3_writev` looks
like "nothing to send"), `http3_connect.cpp:135` (value lengths longer than the
strings they describe), `tls_setup.cpp:116` (the certificate callback reads the
SSL's application data, which `QuicEngine::setup` overwrites) and `http3_connect.cpp:163` (received stream data is not
credited back). `route_bsd.c:125` resets no DNS server that `networksetup` was
given; `RouteBsd` has that as it is (`serviceDns`) and no property forbids it.
