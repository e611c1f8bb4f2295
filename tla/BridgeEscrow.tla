---------------------------- MODULE BridgeEscrow ----------------------------
(***************************************************************************)
(* What the bridge promises, without routes, limits, signatures, pauses or *)
(* time: a transfer is executed at most once, for its own amount, and      *)
(* nothing is redeemed that was not executed before.                       *)
(***************************************************************************)
EXTENDS Integers

CONSTANT Transfers  \* the transfers there may be, each with its amount

VARIABLES
    done,     \* the transfers executed so far
    held,     \* the coins executed and not redeemed
    redeemed  \* all the coins redeemed so far

escrow == <<done, held, redeemed>>

Init == done = {} /\ held = 0 /\ redeemed = 0

Execute(id) ==
    /\ id \notin done
    /\ id.amount > 0
    /\ done' = done \cup {id}
    /\ held' = held + id.amount
    /\ UNCHANGED redeemed

Redeem(amount) ==
    /\ held' = held - amount
    /\ redeemed' = redeemed + amount
    /\ UNCHANGED done

Next ==
    \/ \E id \in Transfers : Execute(id)
    \/ \E amount \in 1..held : Redeem(amount)

Spec == Init /\ [][Next]_escrow
=============================================================================
