--------------------------- MODULE MCNotifications ---------------------------
(***************************************************************************)
(* Notifications on a small instance: a notification whose second envelope *)
(* raises it again or cannot be read, and two pairs of settings commands   *)
(* for its chat.  Its hint is quiet over midnight, the custom window not.  *)
(***************************************************************************)
EXTENDS Notifications, TLC

CONSTANTS e1, e2, n1, k1, c1, s1, s2, d1, d2

MCLoads   == {e1 :> n1 @@ e2 :> x : x \in {n1, Unreadable}}
MCClassOf == n1 :> k1
MCHigh    == n1 :> TRUE
MCHints   == n1 :> {<<2, 1>>}

Ask(f, v) == [chat |-> c1, field |-> f, value |-> v]
MCRequests ==
  {s1 :> Ask("on", FALSE) @@ s2 :> Ask("quiet", [mode |-> "custom", window |-> <<0, 2>>]),
   s1 :> Ask(k1, "off") @@ s2 :> Ask("bypass", TRUE)}

=============================================================================
