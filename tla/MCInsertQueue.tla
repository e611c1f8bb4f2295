--------------------------- MODULE MCInsertQueue ----------------------------
(***************************************************************************)
(* Four calls, one of them without a transaction, on a queue of two        *)
(* places: a batch of two, a deque that fills while a batch of one is      *)
(* under way, and a call that is refused.                                  *)
(***************************************************************************)
EXTENDS InsertQueue
=============================================================================
