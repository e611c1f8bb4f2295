-------------------------- MODULE MCBridgeEndToEnd --------------------------
(***************************************************************************)
(* A small instance of BridgeEndToEnd: signer rotation with a faulty       *)
(* signer before and after it and with tighter limits, a route that is     *)
(* closed, a configuration that is not valid, two deposits, one of them    *)
(* attested again with a later deadline and in two spellings, a blocked    *)
(* destination, and the lists of signatures a faulty signer can produce    *)
(* alone.                                                                  *)
(***************************************************************************)
EXTENDS BridgeEndToEnd

CONSTANTS s1, s2, s3, s4, g1, alice, bob, vault

E2EConfig(signers, transfer, daily, out) ==
    [routeID |-> "r", signers |-> signers, guardian |-> g1,
     maxTransfer |-> transfer, dailyLimit |-> daily, maxOutstanding |-> out,
     enabled |-> TRUE]

E2EFirst == E2EConfig({s1, s2, s3}, 2, 3, 4)
E2ERotated == E2EConfig({s2, s3, s4}, 1, 2, 2)

E2EClosed == [E2EFirst EXCEPT !.enabled = FALSE]
E2EInvalid == [E2EConfig({s1, s2}, 2, 3, 4) EXCEPT !.enabled = FALSE]

E2ERouteConfig == {E2EFirst, E2ERotated, E2EClosed, E2EInvalid,
                   [E2ERotated EXCEPT !.enabled = FALSE]}

E2EControl(action, payload) ==
    [routeID |-> "r", action |-> action, payload |-> payload, nonce |-> 1,
     notBefore |-> 1, expires |-> 4]

E2EControlAction ==
    {E2EControl("update_route_config", E2EFirst),
     E2EControl("update_route_config", E2ERotated),
     E2EControl("update_route_config", E2EClosed),
     E2EControl("update_route_config", E2EInvalid),
     E2EControl("resume_route", E2EFirst),
     E2EControl("resume_route", E2ERotated)}

E2EPauseAction == {[routeID |-> "r", nonce |-> 1, expires |-> 2]}

E2EAttest(event, to, amount, deadline) ==
    [routeID |-> "r", direction |-> "cronos_to_xitcoin", event |-> event,
     spelling |-> "lower", destination |-> to, amount |-> amount,
     deadline |-> deadline]

E2EAttestation ==
    {E2EAttest("e1", alice, 2, 1), E2EAttest("e1", alice, 2, 3),
     [E2EAttest("e1", alice, 2, 3) EXCEPT !.spelling = "upper"],
     E2EAttest("e1", bob, 1, 3), E2EAttest("e2", bob, 1, 2), E2EAttest("e2", vault, 1, 3)}

E2EDepositAmount == [e \in {"e1", "e2"} |-> IF e = "e1" THEN 2 ELSE 1]

(* s1 is faulty in the first configuration, s4 in the rotated one.         *)
E2ESignatures == {<<s1>>, <<s1, s1>>, <<s4, s4>>, <<s1, s4>>, <<s1, s2>>, <<s2, s3>>}

E2EInitialBalance == [a \in {alice, bob, vault} |-> IF a = bob THEN 1 ELSE 0]
=============================================================================
