------------------------------ MODULE MCStream ------------------------------
(* The stream with a subscriber and a filter, and segments of two items.   *)
EXTENDS Stream

CONSTANTS s1, f1
=============================================================================
