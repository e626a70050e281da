------------------------------- MODULE MCScan -------------------------------
(***************************************************************************)
(* An instance of StatusScan.                                              *)
(***************************************************************************)
EXTENDS StatusScan

CONSTANTS d1, d2
=============================================================================
