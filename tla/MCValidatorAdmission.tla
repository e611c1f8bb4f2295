------------------------ MODULE MCValidatorAdmission ------------------------
(***************************************************************************)
(* A small instance of ValidatorAdmission: two or three operators, a       *)
(* capacity they can exhaust, coins of two denominations, every message    *)
(* alone, staking messages also inside a MsgExec or from a precompile, and *)
(* pairs of messages, of which the second may fail or run in a policy that *)
(* the first has changed.                                                  *)
(***************************************************************************)
EXTENDS ValidatorAdmission

CONSTANTS v1, v2, v3, admin, user

MCCoin == [denom : {"axtc", "dev"}, amount : 0..2]
MCDefaultMinimum == [denom |-> "axtc", amount |-> 2]

MCApprove(s, v) == [type |-> "approve", carrier |-> "tx", signer |-> s, validator |-> v]
MCRevoke(s, v) == [type |-> "revoke", carrier |-> "tx", signer |-> s, validator |-> v]
MCUpdate(s, max, min) ==
    [type |-> "update", carrier |-> "tx", signer |-> s, max |-> max, minimum |-> min]
MCCreate(v, c) == [type |-> "create", carrier |-> "tx", validator |-> v, value |-> c]
MCUnjail(v) == [type |-> "unjail", carrier |-> "tx", validator |-> v]

MCAdministrative ==
    {MCApprove(admin, v) : v \in Validator} \cup {MCRevoke(admin, v) : v \in Validator}
    \cup {MCUpdate(admin, max, min) : max \in Capacity, min \in Coin}

MCForeign == {MCApprove(user, v1), MCRevoke(user, v1), MCUpdate(user, 2, MCDefaultMinimum)}

MCStaking ==
    {MCCreate(v, c) : v \in Validator, c \in Coin} \cup {MCUnjail(v) : v \in Validator}

(* The carriers of messages that the ante handler does not look into.      *)
MCExec(m) == [m EXCEPT !.carrier = "exec"]

MCCall(v, m) ==
    [f \in DOMAIN m \cup {"caller"} |->
        IF f = "caller" THEN v ELSE IF f = "carrier" THEN "evm" ELSE m[f]]

MCCarried ==
    {MCExec(m) : m \in {MCCreate(v1, MCDefaultMinimum), MCUnjail(v1), MCRevoke(admin, v2),
                        [type |-> "submit_proposal", carrier |-> "tx"],
                        [type |-> "mint_update_params", carrier |-> "tx"]}}
    \cup {MCCall(v, m) : v \in {v1, v2}, m \in {MCCreate(v1, MCDefaultMinimum), MCUnjail(v1)}}

MCOther == {[type |-> type, carrier |-> "tx"] : type \in {"mint_update_params", "submit_proposal"}}

MCMessage == MCAdministrative \cup MCForeign \cup MCStaking \cup MCCarried \cup MCOther

MCSingle == {<<m>> : m \in MCMessage}

MCPairs ==
    {<<MCApprove(admin, v), MCApprove(admin, w)>> : v, w \in Validator}
    \cup {<<MCUpdate(admin, max, MCDefaultMinimum), MCApprove(admin, v)>> :
             max \in Capacity, v \in Validator}
    \cup {<<MCRevoke(admin, v), MCUpdate(admin, 1, MCDefaultMinimum)>> : v \in Validator}
    \cup {<<MCRevoke(admin, v), MCUnjail(w)>> : v, w \in Validator}
    \cup {<<MCUpdate(admin, 2, MCDefaultMinimum), MCCreate(v, c)>> : v \in Validator, c \in Coin}

MCTransaction == MCSingle \cup MCPairs
=============================================================================
