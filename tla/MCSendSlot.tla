----------------------------- MODULE MCSendSlot -----------------------------
(* Values for checking SendSlot: two threads with two calls each.            *)
EXTENDS SendSlot

CONSTANTS t1, t2

MCSenders == {t1, t2}
=============================================================================
