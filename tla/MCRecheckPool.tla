--------------------------- MODULE MCRecheckPool ----------------------------
(* Two signers.  t1 and t2 follow each other for signer a; t3 is signed by *)
(* a and b at the sequence of t1; t4 follows t3 for signer b.              *)
EXTENDS RecheckPool, TLC

CONSTANTS a, b, p1, t1, t2, t3, t4

MCSequence ==
    (t1 :> (a :> 0)) @@ (t2 :> (a :> 1)) @@ (t3 :> (a :> 0 @@ b :> 0)) @@ (t4 :> (b :> 1))

MCFirst == (t1 :> a) @@ (t2 :> a) @@ (t3 :> a) @@ (t4 :> b)
=============================================================================
