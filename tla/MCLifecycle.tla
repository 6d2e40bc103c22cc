----------------------------- MODULE MCLifecycle -----------------------------
(* Both roles are initial states, so one run covers the two processes.       *)
EXTENDS Lifecycle, TLC
=============================================================================
