---------------------------- MODULE MCWebStream ----------------------------
(* A small instance of WebStream for TLC: one browser, for browsers share the *)
(* ring and none of them writes it.                                           *)
EXTENDS WebStream

CONSTANT v1

One == {v1}
=============================================================================
