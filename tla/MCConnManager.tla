--------------------------- MODULE MCConnManager ---------------------------
(* Small instances of ConnManager for TLC. *)
EXTENDS ConnManager, TLC

CONSTANTS c1, c2, c3, u1, u2

Two   == {c1, c2}
Three == {c1, c2, c3}

\* c1 and c2 are opened for one user, one after the other.
Reconnecting == (c1 :> u1) @@ (c2 :> u1) @@ (c3 :> u2)
Apart == (c1 :> u1) @@ (c2 :> u2)
=============================================================================
