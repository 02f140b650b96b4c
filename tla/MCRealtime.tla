----------------------------- MODULE MCRealtime -----------------------------
(* A small instance of the fan-out for TLC: a pod that polls for itself. *)
EXTENDS Realtime

CONSTANTS p1, k1

AllOnOnePod == [c \in Clients |-> p1]
OneKey == [c \in Clients |-> k1]
=============================================================================
