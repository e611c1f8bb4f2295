---------------------------- MODULE MCIncentives ----------------------------
(***************************************************************************)
(* A small instance of Incentives: years of one to four blocks, periods of *)
(* one to three, rates of which the products do not divide, two sets of    *)
(* parameters that are not valid and one with a period that outlasts the   *)
(* block numbers.                                                          *)
(***************************************************************************)
EXTENDS Incentives

CONSTANTS gov, user

MCParam(rate, year, blocks) ==
    [rate |-> rate, blocksPerYear |-> year, periodBlocks |-> blocks]

MCDefaultParams == MCParam(7, 4, 3)

(* The last one ends beyond the last block number from block 3 on.         *)
MCParams == {MCDefaultParams, MCParam(10, 3, 2), MCParam(10, 1, 1), MCParam(0, 4, 1),
             MCParam(11, 4, 3), MCParam(5, 2, 3), MCParam(7, MaxUint64, MaxUint64 - 2)}
=============================================================================
