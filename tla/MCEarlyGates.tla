---------------------------- MODULE MCEarlyGates ----------------------------
(* Two cars, one of them registered, before one or two spots. *)
EXTENDS EarlyGates, TLC

CONSTANTS c1, c2
MCCarType == (c1 :> 1)
=============================================================================
