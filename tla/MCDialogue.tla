----------------------------- MODULE MCDialogue -----------------------------
(***************************************************************************)
(* RepositoryDialogue on small instances: a second mode, a second decision *)
(* and a repeated press after the first ones.                              *)
(***************************************************************************)
EXTENDS RepositoryDialogue, Sequences

CONSTANTS d1, w1, w2

MCScripts == {<<"track", "star", "confirm">>, <<"star", "confirm", "confirm">>,
              <<"track", "confirm", "cancel">>, <<"track", "cancel", "confirm">>}

=============================================================================
