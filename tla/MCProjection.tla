---------------------------- MODULE MCProjection ----------------------------
(***************************************************************************)
(* Projection on a small instance.  Operations are numbers because the     *)
(* follower scans them in order, so there is no symmetry to use.           *)
(***************************************************************************)
EXTENDS Projection

MCOperation == {1, 2}
MCFrames == <<2, 1>>

=============================================================================
