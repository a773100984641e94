---------------------------- MODULE MCEventLoop -----------------------------
(* EventLoop has no constants: its state space is finite as it stands.       *)
EXTENDS EventLoop
=============================================================================
