------------------------ MODULE BridgeEndToEndProofs ------------------------
(***************************************************************************)
(* The proof that a source event is executed at most once, for every set   *)
(* of signers that satisfies SignersAssumption, every set of attestations  *)
(* and every rotation of the configuration.                                *)
(***************************************************************************)
EXTENDS BridgeEndToEnd, BridgeProofs

Expired(id) == now > id.deadline /\ id \notin processed

(* EventSettledOnce is not inductive: it says nothing of attestations that *)
(* are signed and not submitted yet.  Of two endorsed attestations of the  *)
(* same event one is dead: past its deadline and not processed.            *)
EndorsedInv ==
    /\ endorsed \subseteq AttestationIDs
    /\ processed \subseteq endorsed
    /\ \A id \in endorsed : id.event \in locked /\ id.amount = DepositAmount[id.event]
    /\ \A id, other \in endorsed :
          id.event = other.event /\ id # other => Expired(id) \/ Expired(other)

E2EInv == TypeOK /\ EndorsedInv

(* An attestation identifier keeps the event, amount and deadline of its   *)
(* attestation.                                                            *)
LEMMA IDFields ==
    ASSUME NEW a \in Attestation
    PROVE  /\ AttestationID(a) \in AttestationIDs
           /\ AttestationID(a).event = a.event
           /\ AttestationID(a).amount = a.amount
           /\ AttestationID(a).deadline = a.deadline
BY DEF AttestationID, AttestationIDs

(* Two or three different signers of a configuration include an honest     *)
(* one, so that what is submitted was endorsed.                            *)
LEMMA ApprovalsNeedHonest ==
    ASSUME NEW c \in RouteConfig, NEW sigs \in Signatures,
           VerifyApprovals(c.signers, sigs)
    PROVE  \E i \in 1..Len(sigs) : sigs[i] \in Honest
<1>1. Len(sigs) \in 2..3
  BY DEF VerifyApprovals
<1>2. 1 \in 1..Len(sigs) /\ 2 \in 1..Len(sigs)
  <2>1. \A n \in 2..3 : 1 \in 1..n /\ 2 \in 1..n
    OBVIOUS
  <2> QED BY <1>1, <2>1, Zenon
<1>3. sigs[1] \in c.signers /\ sigs[2] \in c.signers /\ sigs[1] # sigs[2]
  BY <1>2 DEF VerifyApprovals
<1>4. sigs[1] \in Honest \/ sigs[2] \in Honest
  BY <1>3, SignersAssumption
<1> QED BY <1>2, <1>4

(* A signature of an honest signer (Endorse) preserves EndorsedInv.        *)
LEMMA EndorseStep ==
    ASSUME E2EInv, NEW a \in Attestation, Endorse(a)
    PROVE  EndorsedInv'
<1>1. UNCHANGED <<processed, now, locked>> /\ endorsed' = endorsed \cup {AttestationID(a)}
  BY DEF Endorse, vars, store
<1>2. \A id \in endorsed :
          id.event = a.event /\ id # AttestationID(a) => Expired(id)
  BY DEF Endorse, Expired
<1>3. a.event \in locked /\ a.amount = DepositAmount[a.event]
  BY DEF Endorse
<1>4. \A id : Expired(id)' <=> Expired(id)
  BY <1>1 DEF Expired
<1>5. (endorsed \subseteq AttestationIDs /\ processed \subseteq endorsed)'
  BY <1>1, IDFields DEF E2EInv, EndorsedInv
<1>6. \A id \in endorsed' : id.event \in locked' /\ id.amount = DepositAmount[id.event]
  BY <1>1, <1>3, IDFields DEF E2EInv, EndorsedInv
<1>7. \A id, other \in endorsed' :
          id.event = other.event /\ id # other => Expired(id)' \/ Expired(other)'
  BY <1>1, <1>2, <1>4, IDFields DEF E2EInv, EndorsedInv
<1> QED BY <1>5, <1>6, <1>7 DEF EndorsedInv

(* SubmitAttestation preserves EndorsedInv: two signatures include one of  *)
(* an honest signer.                                                       *)
LEMMA SubmitStep ==
    ASSUME E2EInv, NEW a \in Attestation, NEW sigs \in Signatures, Submit(a, sigs)
    PROVE  EndorsedInv'
<1> DEFINE x == AttestationID(a)
<1>1. UNCHANGED <<now, locked, endorsed>> /\ processed' = processed \cup {x}
  BY DEF Submit, SubmitAttestation, AdmitAttestation, cronos
<1>2. x \in endorsed
  <2>1. config \in RouteConfig /\ VerifyApprovals(config.signers, sigs)
    BY DEF Submit, SubmitAttestation, AdmitAttestation, E2EInv, TypeOK, StoreTypeOK
  <2> QED BY <2>1, ApprovalsNeedHonest DEF Submit
<1>3. ~Expired(x)
  <2>1. now <= a.deadline
    BY DEF Submit, SubmitAttestation, AdmitAttestation, ValidAttestationAt, ValidAttestation
  <2>2. now \in Int /\ a.deadline \in Int
    BY MessageAssumption DEF E2EInv, TypeOK
  <2> QED BY <2>1, <2>2, IDFields DEF Expired
<1>4. \A id : id # x /\ Expired(id) => Expired(id)'
  BY <1>1 DEF Expired
<1> HIDE DEF x
<1>5. \A id, other \in endorsed' :
          id.event = other.event /\ id # other => Expired(id)' \/ Expired(other)'
  BY <1>1, <1>3, <1>4 DEF E2EInv, EndorsedInv
<1>6. (endorsed \subseteq AttestationIDs /\ processed \subseteq endorsed)'
  BY <1>1, <1>2 DEF E2EInv, EndorsedInv
<1> QED BY <1>1, <1>5, <1>6 DEF E2EInv, EndorsedInv

(* Every other step endorses and processes nothing, and time only moves    *)
(* forward.                                                                *)
LEMMA QuietStep ==
    ASSUME E2EInv, now' \in Int, now <= now', UNCHANGED <<processed, endorsed>>,
           locked \subseteq locked'
    PROVE  EndorsedInv'
<1>1. \A id \in AttestationIDs : id.deadline \in Int
  BY IDFields, MessageAssumption DEF AttestationIDs, AttestationID
<1>2. \A id \in AttestationIDs : Expired(id) => Expired(id)'
  BY <1>1 DEF Expired, E2EInv, TypeOK
<1>3. \A id, other \in endorsed' :
          id.event = other.event /\ id # other => Expired(id)' \/ Expired(other)'
  BY <1>2 DEF E2EInv, EndorsedInv
<1> QED BY <1>3 DEF E2EInv, EndorsedInv

(* Every step of the two ends preserves EndorsedInv.                       *)
LEMMA E2EStep ==
    ASSUME E2EInv, [E2ENext]_e2eVars
    PROVE  E2EInv'
<1>1. [Next]_vars
  BY DEF E2ENext, Lock, Endorse, Submit, Release, Redeem, Govern, Next, Transfer, e2eVars
<1>2. TypeOK'
  BY <1>1, StepType DEF E2EInv
<1>3. now \in Int /\ now' \in Int
  BY <1>2 DEF E2EInv, TypeOK
<1>4. ASSUME NEW e \in Event, Lock(e)
      PROVE  EndorsedInv'
  BY <1>3, <1>4, QuietStep DEF Lock, vars, store
<1>5. ASSUME NEW i \in 1..Len(receipts), Release(i)
      PROVE  EndorsedInv'
  BY <1>3, <1>5, QuietStep DEF Release, vars, store
<1>6. CASE Redeem
  <2>1. UNCHANGED <<processed, endorsed, now, locked>>
    BY <1>6 DEF Redeem, InitiateOutboundTransfer, cronos
  <2> QED BY <1>2, <1>3, <2>1, QuietStep DEF E2EInv
<1>7. CASE Govern
  <2>1. UNCHANGED <<processed, endorsed, locked>>
    BY <1>7 DEF Govern, cronos, Administer, Environment, InitializeRouteConfig,
       EmergencyPauseRoute, PauseRoute, ResumeRoute, ResumePausedRoute,
       UpdateRouteConfig, ApplyRouteConfigUpdate,
       NextBlock, BankSend, store
  <2>2. now <= now'
    BY <1>3, <1>7 DEF Govern, Administer, Environment, InitializeRouteConfig,
       EmergencyPauseRoute, PauseRoute, ResumeRoute, ResumePausedRoute,
       UpdateRouteConfig, ApplyRouteConfigUpdate,
       NextBlock, BankSend
  <2> QED BY <1>2, <1>3, <2>1, <2>2, QuietStep DEF E2EInv
<1>8. CASE UNCHANGED e2eVars
  <2>1. UNCHANGED <<processed, endorsed, now, locked>>
    BY <1>8 DEF e2eVars, vars, store, cronos
  <2> QED BY <1>2, <1>3, <2>1, QuietStep DEF E2EInv
<1> QED BY <1>2, <1>4, <1>5, <1>6, <1>7, <1>8, EndorseStep, SubmitStep DEF E2ENext, E2EInv

(* A source event is executed at most once and for the amount it locked,   *)
(* as long as one of any two signers of each configuration follows the     *)
(* policy of Endorse.                                                      *)
THEOREM EventOnce == E2ESpec => []EventSettledOnce
<1>1. E2EInit => E2EInv
  BY InitType DEF E2EInit, Init, E2EInv, EndorsedInv
<1>2. E2EInv /\ [E2ENext]_e2eVars => E2EInv'
  BY E2EStep
<1>3. E2EInv => EventSettledOnce
  BY DEF E2EInv, EndorsedInv, EventSettledOnce, Expired
<1> QED BY <1>1, <1>2, <1>3, PTL DEF E2ESpec
=============================================================================
