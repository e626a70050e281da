----------------------------- MODULE MCProcess -----------------------------
(***************************************************************************)
(* Instances of ServerProcess: a driver connection, a rider connection and *)
(* an HTTP request.                                                        *)
(***************************************************************************)
EXTENDS ServerProcess

CONSTANTS d1, r1, dA, rA, q1

OwnerOf == [c \in Conns |-> IF c = dA THEN d1 ELSE r1]
=============================================================================
