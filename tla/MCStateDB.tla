---------------------------- MODULE MCStateDB -------------------------------
(* A small transaction for TLC: one funded address and one that does not   *)
(* exist yet.                                                              *)
EXTENDS StateDB

CONSTANTS a, b, m
=============================================================================
