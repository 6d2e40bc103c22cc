------------------------------ MODULE MCIntake ------------------------------
(***************************************************************************)
(* UpdateIntake on small instances: an update that captures and one that   *)
(* is answered by a reply, or asks for nothing this build does.            *)
(***************************************************************************)
EXTENDS UpdateIntake, TLC

CONSTANTS u1, u2, w1, w2

MCMixes == {u1 :> "capture" @@ u2 :> "reply", u1 :> "none" @@ u2 :> "unreadable"}

=============================================================================
