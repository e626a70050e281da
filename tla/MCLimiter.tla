----------------------------- MODULE MCLimiter -----------------------------
(***************************************************************************)
(* Instances of RateLimiter with Lua numbers of two bits: the integers up  *)
(* to 4 are exact, between 4 and 8 only 6 is.                              *)
(***************************************************************************)
EXTENDS RateLimiter

CONSTANTS k1, k2, a, b

\* The nearest number; 5 and 7 are ties and go to an even mantissa.
TwoBits == [n \in 0 .. Largest |-> IF n <= Exact THEN n ELSE IF n = 5 THEN 4 ELSE IF n = 6 THEN 6 ELSE 8]
=============================================================================
