------------------------------- MODULE MCPool -------------------------------
(***************************************************************************)
(* Instances of WorkerPool: jobs are numbers.                              *)
(***************************************************************************)
EXTENDS WorkerPool

CONSTANTS a, b, w1, w2

\* Five jobs, one more than the channels and two workers hold at once.
Batches == [c \in Callers |-> IF c = a THEN <<1, 2, 3>> ELSE <<4, 5>>]
=============================================================================
