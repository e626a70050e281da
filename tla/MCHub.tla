------------------------------- MODULE MCHub -------------------------------
(***************************************************************************)
(* Instances of RealtimeHub: a rider, and a driver that may connect a      *)
(* second time while its first connection is still there.                  *)
(***************************************************************************)
EXTENDS RealtimeHub

CONSTANTS d1, r1, dA, dB, rA

OwnerOf == [c \in Conns |-> IF c \in {dA, dB} THEN d1 ELSE r1]
=============================================================================
