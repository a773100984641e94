---------------------------- MODULE MCDnsHijack -----------------------------
(* Values for checking DnsHijack: two clients, each of which may ask two     *)
(* servers, in every order.                                                  *)
EXTENDS DnsHijack

CONSTANTS c1, c2, s1, s2, hijack

MCClients == {c1, c2}
MCServers == {s1, s2}
=============================================================================
