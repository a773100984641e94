------------------------------- MODULE DnsNat -------------------------------
(***************************************************************************)
(* What the DNS hijack promises, without its array: a bounded bag of       *)
(* mappings from a client (address and port) to the server it had asked.   *)
(* A reply uses up one mapping of its client, any one, and appears to come *)
(* from that server; with no mapping left it still shows the hijack        *)
(* target.  DnsHijack implements this specification.                       *)
(***************************************************************************)
EXTENDS Integers

CONSTANTS Clients, Servers, Target, Capacity

VARIABLES table,  \* table[<<c, s>>]: mappings held for client c and server s
          size,   \* mappings held altogether
          reply   \* the reply handed to a client by the last step

NoReply == [client |-> {}, from |-> {}]

Init ==
  /\ table = [cs \in Clients \X Servers |-> 0]
  /\ size = 0
  /\ reply = NoReply

\* A query is remembered, unless the bag is full.
Ask(c, s) ==
  /\ IF size < Capacity
       THEN /\ table' = [table EXCEPT ![<<c, s>>] = @ + 1]
            /\ size' = size + 1
       ELSE UNCHANGED <<table, size>>
  /\ reply' = NoReply

\* A reply to c is restored with some mapping of c, used up by it.
Restore(c, s) ==
  /\ table[<<c, s>>] > 0
  /\ table' = [table EXCEPT ![<<c, s>>] = @ - 1]
  /\ size' = size - 1
  /\ reply' = [client |-> c, from |-> s]

\* No mapping of c: the reply is handed over as it came.
PassThrough(c) ==
  /\ \A s \in Servers : table[<<c, s>>] = 0
  /\ reply' = [client |-> c, from |-> Target]
  /\ UNCHANGED <<table, size>>

\* A query or a reply is lost: nobody is handed anything.
Quiet ==
  /\ reply' = NoReply
  /\ UNCHANGED <<table, size>>

\* A new connection starts with an empty bag.
Reset ==
  /\ table' = [cs \in Clients \X Servers |-> 0]
  /\ size' = 0
  /\ reply' = NoReply

Next ==
  \/ \E c \in Clients, s \in Servers : Ask(c, s) \/ Restore(c, s)
  \/ \E c \in Clients : PassThrough(c)
  \/ Quiet
  \/ Reset

Spec == Init /\ [][Next]_<<table, size, reply>>
=============================================================================
