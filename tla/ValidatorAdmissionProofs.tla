---------------------- MODULE ValidatorAdmissionProofs ----------------------
(***************************************************************************)
(* Proofs about ValidatorAdmission, for every set of operators, messages   *)
(* and transactions.                                                       *)
(*                                                                         *)
(* PolicyInv is inductive as it stands: a failed message goes back to a    *)
(* saved state that satisfied it.  AdmissionInv adds what the approval of  *)
(* active validators rests on: a message of the transaction that creates   *)
(* or unjails a validator and is still to run meets the policy that the    *)
(* ante handler saw, which is the saved one.                               *)
(***************************************************************************)
EXTENDS ValidatorAdmission, FiniteSetTheorems, SequenceTheorems, TLAPS

PolicyInv == TypeOK /\ CapacityRespected

(* The head of the running transaction is a message.                       *)
LEMMA HeadIsMessage ==
    ASSUME TypeOK, tx # <<>>
    PROVE  Head(tx) \in Message /\ Tail(tx) \in Seq(Message)
BY HeadTailProperties DEF TypeOK

(* Finishing a message keeps the saved state exactly while messages are    *)
(* left.                                                                   *)
LEMMA FinishKeepsSaved ==
    ASSUME PolicyInv, tx # <<>>, Finish
    PROVE  /\ tx' \in Seq(Message)
           /\ tx' # <<>> => /\ saved' \in Saved
                            /\ ValidPolicy(saved'.maxApproved, saved'.minimum)
                            /\ Cardinality(saved'.approved) <= saved'.maxApproved
           /\ tx' = <<>> => saved' = NoTx
BY HeadIsMessage DEF PolicyInv, TypeOK, CapacityRespected, Finish

(* A genesis the application accepts satisfies the policy.                 *)
LEMMA PolicyInit == Init => PolicyInv
<1> SUFFICES ASSUME Init PROVE PolicyInv
  OBVIOUS
<1>1. maxApproved \in Nat
  BY AdmissionAssumption DEF Init
<1>2. Cardinality(approved) <= maxApproved
  <2>1. CASE approved = {}
    BY <1>1, <2>1, FS_EmptySet
  <2>2. CASE approved # {}
    BY <2>2 DEF Init, GenesisValid
  <2> QED BY <2>1, <2>2
<1>3. status \in [Validator -> {"none", "active", "jailed"}]
  BY DEF Init
<1>4. tx \in Seq(Message)
  BY DEF Init
<1> QED BY <1>2, <1>3, <1>4 DEF Init, GenesisValid, PolicyInv, TypeOK, CapacityRespected

(* The size of the approval list after an approval and after a revocation. *)
LEMMA ApprovedSize ==
    ASSUME TypeOK, NEW v \in Validator
    PROVE  /\ Cardinality(approved) \in Nat
           /\ v \notin approved => Cardinality(approved \cup {v}) = Cardinality(approved) + 1
           /\ Cardinality(approved \ {v}) \in Nat
           /\ Cardinality(approved \ {v}) <= Cardinality(approved)
<1>1. IsFiniteSet(approved)
  BY FS_Subset, AdmissionAssumption DEF TypeOK
<1> QED BY <1>1, FS_CardinalityType, FS_AddElement, FS_RemoveElement, FS_Subset

(* A message that is accepted keeps the policy.                            *)
LEMMA MessagePolicy ==
    ASSUME PolicyInv, Messages
    PROVE  PolicyInv'
<1> DEFINE m == Head(tx)
<1>1. tx # <<>>
  BY DEF Messages, ApproveValidator, RevokeValidator, UpdateParams, CreateValidator, Unjail,
     OtherMessage, Fail, Running
<1>2. m \in Message /\ maxApproved \in Nat
  BY <1>1, HeadIsMessage, AdmissionAssumption DEF PolicyInv, TypeOK
<1>3. CASE ApproveValidator
  <2>1. m.validator \in Validator /\ CanApprove(m)
    BY <1>2, <1>3, MessageAssumption DEF ApproveValidator, Running, Accepts
  <2>2. Cardinality(approved \cup {m.validator}) <= maxApproved
    <3>1. CASE m.validator \in approved
      <4>1. approved \cup {m.validator} = approved
        BY <3>1
      <4> QED BY <4>1 DEF PolicyInv, CapacityRespected
    <3>2. CASE m.validator \notin approved
      BY <1>2, <2>1, <3>2, ApprovedSize DEF CanApprove, PolicyInv
    <3> QED BY <3>1, <3>2
  <2> QED BY <1>1, <1>3, <2>1, <2>2, FinishKeepsSaved
          DEF ApproveValidator, PolicyInv, TypeOK, CapacityRespected
<1>4. CASE RevokeValidator
  <2>1. m.validator \in Validator
    BY <1>2, <1>4, MessageAssumption DEF RevokeValidator, Running
  <2>2. Cardinality(approved \ {m.validator}) <= maxApproved
    BY <1>2, <2>1, ApprovedSize DEF PolicyInv, CapacityRespected
  <2>3. status' \in [Validator -> {"none", "active", "jailed"}] /\ unchecked' \subseteq Validator
    BY <1>4, <2>1 DEF RevokeValidator, PolicyInv, TypeOK
  <2> QED BY <1>1, <1>4, <2>2, <2>3, FinishKeepsSaved
          DEF RevokeValidator, PolicyInv, TypeOK, CapacityRespected
<1>5. CASE UpdateParams
  <2>1. /\ m.max \in Capacity /\ m.minimum \in Coin
        /\ ValidPolicy(m.max, m.minimum) /\ m.max >= Cardinality(approved)
    BY <1>2, <1>5, MessageAssumption DEF UpdateParams, Running, Accepts, CanUpdate
  <2>2. Cardinality(approved) <= m.max
    BY <2>1
  <2> QED BY <1>1, <1>5, <2>1, <2>2, FinishKeepsSaved
          DEF UpdateParams, PolicyInv, TypeOK, CapacityRespected
<1>6. CASE CreateValidator \/ Unjail
  <2>1. m.validator \in Validator
    BY <1>2, <1>6, MessageAssumption DEF CreateValidator, Unjail, Running
  <2>2. status' \in [Validator -> {"none", "active", "jailed"}] /\ unchecked' \subseteq Validator
    BY <1>6, <2>1 DEF CreateValidator, Unjail, Enter, PolicyInv, TypeOK
  <2> QED BY <1>1, <1>6, <2>2, FinishKeepsSaved
          DEF CreateValidator, Unjail, Enter, PolicyInv, TypeOK, CapacityRespected, policy
<1>7. CASE OtherMessage
  BY <1>1, <1>7, FinishKeepsSaved
     DEF OtherMessage, PolicyInv, TypeOK, CapacityRespected, policy
<1>8. CASE Fail
  <2>1. saved \in Saved
    BY <1>1 DEF PolicyInv, TypeOK
  <2> QED BY <1>1, <1>8, <2>1 DEF Fail, PolicyInv, TypeOK, CapacityRespected, Saved
<1> QED BY <1>3, <1>4, <1>5, <1>6, <1>7, <1>8 DEF Messages

(* So does everything else.                                                *)
LEMMA PolicyStep ==
    ASSUME PolicyInv, [Next]_vars
    PROVE  PolicyInv'
<1>1. CASE Messages
  BY <1>1, MessagePolicy
<1>2. CASE GovernanceSafeguards
  BY <1>2, AdmissionAssumption
     DEF GovernanceSafeguards, PolicyInv, TypeOK, CapacityRespected, ValidPolicy
<1>3. ASSUME NEW v \in Validator, ChainJails(v) \/ ChainRemoves(v)
      PROVE  PolicyInv'
  <2>1. status' \in [Validator -> {"none", "active", "jailed"}] /\ unchecked' \subseteq Validator
    BY <1>3 DEF ChainJails, ChainRemoves, PolicyInv, TypeOK
  <2> QED BY <1>3, <2>1
          DEF ChainJails, ChainRemoves, PolicyInv, TypeOK, CapacityRespected, policy
<1>4. ASSUME NEW t \in Transaction, Deliver(t)
      PROVE  PolicyInv'
  <2>1. t \in Seq(Message) /\ t # <<>>
    BY MessageAssumption
  <2>2. /\ saved' \in Saved
        /\ saved'.maxApproved = maxApproved /\ saved'.minimum = minimum
        /\ saved'.approved = approved
    BY <1>4 DEF Deliver, Saved, PolicyInv, TypeOK
  <2>3. UNCHANGED <<authority, approved, maxApproved, minimum, status, unchecked>> /\ tx' = t
    BY <1>4 DEF Deliver, policy
  <2> QED BY <2>1, <2>2, <2>3 DEF PolicyInv, TypeOK, CapacityRespected
<1>5. CASE UNCHANGED vars
  BY <1>5 DEF vars, policy, PolicyInv, TypeOK, CapacityRespected
<1> QED BY <1>1, <1>2, <1>3, <1>4, <1>5 DEF Next, Chain

-----------------------------------------------------------------------------
(* Active validators are approved, or came in unchecked *)

Covered(list, active, extra) ==
    \A v \in Validator : active[v] = "active" => v \in list \cup extra

(* What the ante handler found when the transaction began.                 *)
AcceptedAtStart(m) ==
    m.carrier = "tx" =>
        /\ m.type \in {"create", "unjail"} => m.validator \in saved.approved
        /\ m.type = "create" => /\ m.value.denom = saved.minimum.denom
                                /\ m.value.amount >= saved.minimum.amount

AdmissionInv ==
    /\ PolicyInv
    /\ Covered(approved, status, unchecked)
    /\ tx # <<>> => Covered(saved.approved, saved.status, saved.unchecked)
    /\ \A i \in 1..Len(tx) : AcceptedAtStart(tx[i])

(* The message that runs was accepted when its transaction began.          *)
LEMMA HeadAccepted ==
    ASSUME AdmissionInv, tx # <<>>
    PROVE  AcceptedAtStart(Head(tx))
<1>1. 1 \in 1..Len(tx) /\ Head(tx) = tx[1]
  <2>1. tx \in Seq(Message)
    BY DEF AdmissionInv, PolicyInv, TypeOK
  <2> QED BY <2>1, EmptySeq, LenProperties
<1> QED BY <1>1 DEF AdmissionInv

(* So were the messages that are left.                                     *)
LEMMA TailAccepted ==
    ASSUME AdmissionInv, tx # <<>>, Finish
    PROVE  \A i \in 1..Len(tx') : AcceptedAtStart(tx[i])'
<1> SUFFICES ASSUME NEW i \in 1..Len(tx') PROVE AcceptedAtStart(tx[i])'
  OBVIOUS
<1>1. tx \in Seq(Message) /\ tx' = Tail(tx)
  BY DEF AdmissionInv, PolicyInv, TypeOK, Finish
<1>2. Len(Tail(tx)) = Len(tx) - 1 /\ Len(tx) \in Nat
      /\ \A j \in 1..Len(Tail(tx)) : Tail(tx)[j] = tx[j + 1]
  BY <1>1, HeadTailProperties, LenProperties
<1>3. i + 1 \in 1..Len(tx) /\ tx'[i] = tx[i + 1] /\ Tail(tx) # <<>>
  BY <1>1, <1>2
<1>4. AcceptedAtStart(tx[i + 1]) /\ saved' = saved
  BY <1>3 DEF AdmissionInv, Finish
<1> QED BY <1>3, <1>4 DEF AcceptedAtStart

(* Genesis transactions create approved validators only.                   *)
LEMMA AdmissionInit == Init => AdmissionInv
<1> SUFFICES ASSUME Init PROVE AdmissionInv
  OBVIOUS
<1>1. Covered(approved, status, unchecked) /\ tx = <<>>
  BY DEF Init, Covered
<1> QED BY <1>1, PolicyInit DEF AdmissionInv

(* The messages keep every active validator approved or unchecked.         *)
LEMMA MessageAdmission ==
    ASSUME AdmissionInv, Messages
    PROVE  AdmissionInv'
<1> DEFINE m == Head(tx)
<1>1. tx # <<>> /\ PolicyInv'
  BY MessagePolicy DEF AdmissionInv, Messages, ApproveValidator, RevokeValidator, UpdateParams,
     CreateValidator, Unjail, OtherMessage, Fail, Running
<1>2. m \in Message /\ status \in [Validator -> {"none", "active", "jailed"}]
  BY <1>1, HeadIsMessage DEF AdmissionInv, PolicyInv, TypeOK
<1>3. CASE Fail
  <2>1. /\ tx' = <<>> /\ approved' = saved.approved /\ status' = saved.status
        /\ unchecked' = saved.unchecked
    BY <1>3 DEF Fail
  <2>2. Covered(approved, status, unchecked)'
    BY <1>1, <2>1 DEF AdmissionInv, Covered
  <2> QED BY <1>1, <2>1, <2>2 DEF AdmissionInv
<1>4. ASSUME Finish, Covered(approved', status', unchecked')
      PROVE  AdmissionInv'
  <2>1. (\A i \in 1..Len(tx) : AcceptedAtStart(tx[i]))'
    BY <1>1, <1>4, TailAccepted
  <2>2. tx' # <<>> => Covered(saved'.approved, saved'.status, saved'.unchecked)
    BY <1>1, <1>4 DEF Finish, AdmissionInv
  <2>3. Covered(approved, status, unchecked)'
    BY <1>4 DEF Covered
  <2>4. (tx # <<>> => Covered(saved.approved, saved.status, saved.unchecked))'
    BY <2>2 DEF Covered
  <2> QED BY <1>1, <2>1, <2>3, <2>4 DEF AdmissionInv
<1>5. CASE ApproveValidator \/ UpdateParams \/ OtherMessage
  BY <1>4, <1>5 DEF ApproveValidator, UpdateParams, OtherMessage, AdmissionInv, Covered, policy
<1>6. CASE RevokeValidator
  <2>1. Covered(approved', status', unchecked')
    BY <1>2, <1>6 DEF RevokeValidator, AdmissionInv, Covered
  <2> QED BY <1>4, <1>6, <2>1 DEF RevokeValidator
<1>7. CASE CreateValidator \/ Unjail
  <2>1. Checked(m) => m.validator \in approved
    BY <1>1, <1>7, HeadAccepted DEF CreateValidator, Unjail, Running, Checked, AcceptedAtStart
  <2>2. m.validator \in approved \cup unchecked' /\ unchecked \subseteq unchecked'
    BY <1>7, <2>1 DEF CreateValidator, Unjail, Enter
  <2>3. Covered(approved', status', unchecked')
    BY <1>2, <1>7, <2>2 DEF CreateValidator, Unjail, Enter, AdmissionInv, Covered, policy
  <2> QED BY <1>4, <1>7, <2>3 DEF CreateValidator, Unjail, Enter
<1> QED BY <1>3, <1>5, <1>6, <1>7 DEF Messages

(* So does everything else.                                                *)
LEMMA AdmissionStep ==
    ASSUME AdmissionInv, [Next]_vars
    PROVE  AdmissionInv'
<1>1. PolicyInv' /\ status \in [Validator -> {"none", "active", "jailed"}]
  BY PolicyStep DEF AdmissionInv, PolicyInv, TypeOK
<1>2. CASE Messages
  BY <1>2, MessageAdmission
<1>3. ASSUME tx = <<>>, tx' = tx, Covered(approved', status', unchecked')
      PROVE  AdmissionInv'
  BY <1>1, <1>3 DEF AdmissionInv, Covered
<1>4. CASE GovernanceSafeguards
  BY <1>3, <1>4 DEF GovernanceSafeguards, AdmissionInv, Covered
<1>5. ASSUME NEW v \in Validator, ChainJails(v) \/ ChainRemoves(v)
      PROVE  AdmissionInv'
  <2>1. Covered(approved', status', unchecked')
    BY <1>1, <1>5 DEF ChainJails, ChainRemoves, AdmissionInv, Covered, policy
  <2> QED BY <1>3, <1>5, <2>1 DEF ChainJails, ChainRemoves
<1>6. ASSUME NEW t \in Transaction, Deliver(t)
      PROVE  AdmissionInv'
  <2>1. /\ UNCHANGED <<authority, approved, maxApproved, minimum, status, unchecked>> /\ tx' = t
        /\ saved'.approved = approved /\ saved'.status = status /\ saved'.minimum = minimum
        /\ saved'.unchecked = unchecked
        /\ \A i \in 1..Len(t) : AnteAccepts(t[i])
    BY <1>6 DEF Deliver, policy
  <2>2. (\A i \in 1..Len(tx) : AcceptedAtStart(tx[i]))'
    BY <2>1 DEF AnteAccepts, EnoughSelfDelegation, AcceptedAtStart
  <2>3. Covered(approved, status, unchecked)'
    BY <2>1 DEF AdmissionInv, Covered
  <2>4. Covered(saved.approved, saved.status, saved.unchecked)'
    BY <2>1 DEF AdmissionInv, Covered
  <2> QED BY <1>1, <2>2, <2>3, <2>4 DEF AdmissionInv
<1>7. CASE UNCHANGED vars
  BY <1>1, <1>7 DEF vars, policy, AdmissionInv, Covered, AcceptedAtStart
<1> QED BY <1>2, <1>4, <1>5, <1>6, <1>7 DEF Next, Chain

-----------------------------------------------------------------------------
(* The stored policy is always valid and readable.                         *)
THEOREM TypeCorrect == Spec => []TypeOK
<1>1. PolicyInv => TypeOK
  BY DEF PolicyInv
<1> QED BY <1>1, PolicyInit, PolicyStep, PTL DEF Spec

(* ApproveValidator and UpdateParams together keep the approval list       *)
(* within its capacity, between and within transactions.                   *)
THEOREM CapacityHolds == Spec => []CapacityRespected
<1>1. PolicyInv => CapacityRespected
  BY DEF PolicyInv
<1> QED BY <1>1, PolicyInit, PolicyStep, PTL DEF Spec

(* Without an authority nobody is approved, now and in the state to go     *)
(* back to.                                                                *)
NobodyWithoutAuthority ==
    authority = NoAuthority => approved = {} /\ (tx # <<>> => saved.approved = {})

(* ApproveValidator is the only message that adds an approval, and it      *)
(* needs an authority.                                                     *)
LEMMA AuthorityStep ==
    ASSUME PolicyInv, NobodyWithoutAuthority, [Next]_vars
    PROVE  NobodyWithoutAuthority'
<1>1. CASE Messages
  <2>1. tx # <<>> /\ authority' = authority
    BY <1>1 DEF Messages, ApproveValidator, RevokeValidator, UpdateParams, CreateValidator,
       Unjail, Enter, OtherMessage, Fail, Running, policy
  <2>2. tx' # <<>> => saved' = saved
    BY <1>1 DEF Messages, ApproveValidator, RevokeValidator, UpdateParams, CreateValidator,
       Unjail, Enter, OtherMessage, Fail, Finish
  <2>3. ApproveValidator => authority # NoAuthority
    BY <2>1, HeadIsMessage, MessageAssumption, AdmissionAssumption
       DEF ApproveValidator, Running, Accepts, CanApprove, PolicyInv
  <2>4. ~ApproveValidator /\ authority = NoAuthority => approved' = {}
    BY <1>1, <2>1 DEF Messages, RevokeValidator, UpdateParams, CreateValidator, Unjail,
       Enter, OtherMessage, Fail, policy, NobodyWithoutAuthority
  <2> QED BY <2>1, <2>2, <2>3, <2>4 DEF NobodyWithoutAuthority
<1>2. CASE GovernanceSafeguards
  BY <1>2, AdmissionAssumption DEF GovernanceSafeguards, NobodyWithoutAuthority
<1>3. ASSUME NEW v \in Validator, ChainJails(v) \/ ChainRemoves(v)
      PROVE  NobodyWithoutAuthority'
  BY <1>3 DEF ChainJails, ChainRemoves, policy, NobodyWithoutAuthority
<1>4. ASSUME NEW t \in Transaction, Deliver(t)
      PROVE  NobodyWithoutAuthority'
  BY <1>4 DEF Deliver, policy, NobodyWithoutAuthority
<1>5. CASE UNCHANGED vars
  BY <1>5 DEF vars, policy, NobodyWithoutAuthority
<1> QED BY <1>1, <1>2, <1>3, <1>4, <1>5 DEF Next, Chain

(* ExportGenesis writes a state that Validate refuses only when the last   *)
(* approval was revoked, or an authority was set while there was none.     *)
THEOREM RefusedOnlyWhenNobodyApprovedHolds == Spec => []RefusedOnlyWhenNobodyApproved
<1> DEFINE Inv == PolicyInv /\ NobodyWithoutAuthority
<1>1. Init => Inv
  BY PolicyInit DEF Init, GenesisValid, NobodyWithoutAuthority
<1>2. Inv /\ [Next]_vars => Inv'
  BY PolicyStep, AuthorityStep
<1>3. Inv => RefusedOnlyWhenNobodyApproved
  BY DEF PolicyInv, TypeOK, CapacityRespected, NobodyWithoutAuthority, GenesisValid,
     RefusedOnlyWhenNobodyApproved
<1> QED BY <1>1, <1>2, <1>3, PTL DEF Spec

(* Whatever the transactions contain, the ante handler, RevokeValidator    *)
(* and the rollback of failed transactions together keep every validator   *)
(* that is not approved out of the active ones, but for those that a       *)
(* message brought in which the handler did not compare with the policy in *)
(* force: one inside a MsgExec, one from a precompile, or one after a      *)
(* message of its transaction that changed the policy.                     *)
THEOREM OutOnlyUncheckedHolds == Spec => []OutOnlyUnchecked
<1>1. AdmissionInv => OutOnlyUnchecked
  BY DEF AdmissionInv, Covered, OutOnlyUnchecked
<1> QED BY <1>1, AdmissionInit, AdmissionStep, PTL DEF Spec

-----------------------------------------------------------------------------
(* Creation *)

(* A transaction removes no validator, so that taking it back creates none. *)
CreationInv ==
    /\ AdmissionInv
    /\ tx # <<>> => \A v \in Validator : status[v] = "none" => saved.status[v] = "none"

(* The step of CreatedWithMinimum.                                         *)
Creation ==
    \A v \in Validator :
        status[v] = "none" /\ status'[v] = "active" =>
            \/ v \in approved /\ EnoughSelfDelegation(Head(tx).value)
            \/ v \in unchecked' /\ ~Checked(Head(tx))

(* One proof shows both what a step does and what it keeps.                *)
LEMMA CreationStep ==
    ASSUME CreationInv, [Next]_vars
    PROVE  Creation /\ CreationInv'
<1>1. AdmissionInv' /\ status \in [Validator -> {"none", "active", "jailed"}]
  BY AdmissionStep DEF CreationInv, AdmissionInv, PolicyInv, TypeOK
<1>2. CASE Fail
  BY <1>1, <1>2 DEF Fail, CreationInv, Creation
<1>3. CASE CreateValidator
  <2>1. AcceptedAtStart(Head(tx)) /\ Head(tx).type = "create" /\ tx # <<>>
    BY <1>3, HeadAccepted DEF CreateValidator, Running, CreationInv
  <2>2. Checked(Head(tx)) =>
            Head(tx).validator \in approved /\ EnoughSelfDelegation(Head(tx).value)
    BY <2>1 DEF Checked, AcceptedAtStart, EnoughSelfDelegation
  <2>3. ~Checked(Head(tx)) => Head(tx).validator \in unchecked'
    BY <1>3 DEF CreateValidator, Enter
  <2>4. Creation
    BY <1>1, <1>3, <2>2, <2>3 DEF CreateValidator, Enter, Creation
  <2>5. CreationInv'
    BY <1>1, <1>3, <2>1 DEF CreateValidator, Enter, Finish, CreationInv
  <2> QED BY <2>4, <2>5
<1>4. CASE Unjail
  <2>1. status[Head(tx).validator] = "jailed" /\ tx # <<>>
    BY <1>4 DEF Unjail, Running, Accepts, CanUnjail
  <2> QED BY <1>1, <1>4, <2>1 DEF Unjail, Enter, Finish, Creation, CreationInv
<1>5. CASE RevokeValidator
  <2>1. \A v \in Validator : status'[v] = "none" <=> status[v] = "none"
    BY <1>1, <1>5 DEF RevokeValidator
  <2>2. \A v \in Validator : status'[v] = "active" => status[v] = "active"
    BY <1>1, <1>5 DEF RevokeValidator
  <2> QED BY <1>1, <1>5, <2>1, <2>2 DEF RevokeValidator, Running, Finish, Creation, CreationInv
<1>6. CASE ApproveValidator \/ UpdateParams \/ OtherMessage
  <2>1. status' = status /\ tx # <<>> /\ Finish
    BY <1>6 DEF ApproveValidator, UpdateParams, OtherMessage, Running, policy
  <2> QED BY <1>1, <2>1 DEF Finish, Creation, CreationInv
<1>7. ASSUME NEW v \in Validator, ChainJails(v) \/ ChainRemoves(v)
      PROVE  Creation /\ CreationInv'
  <2>1. \A w \in Validator : status'[w] = "active" => status[w] = "active"
    BY <1>1, <1>7 DEF ChainJails, ChainRemoves
  <2> QED BY <1>1, <1>7, <2>1 DEF ChainJails, ChainRemoves, Creation, CreationInv
<1>8. CASE GovernanceSafeguards \/ \E t \in Transaction : Deliver(t)
  <2>1. status' = status /\ (tx' # <<>> => saved'.status = status)
    BY <1>8 DEF GovernanceSafeguards, Deliver
  <2> QED BY <1>1, <2>1 DEF Creation, CreationInv
<1>9. CASE UNCHANGED vars
  BY <1>1, <1>9 DEF vars, policy, Creation, CreationInv
<1> QED BY <1>2, <1>3, <1>4, <1>5, <1>6, <1>7, <1>8, <1>9 DEF Next, Chain, Messages

(* A validator is created with less than the minimum self-delegation in    *)
(* force, or without an approval, only by a message that the ante handler  *)
(* did not compare with the policy in force.                               *)
THEOREM CreatedWithMinimumHolds == Spec => CreatedWithMinimum
<1>1. Init => CreationInv
  BY AdmissionInit DEF CreationInv, Init
<1>2. CreationInv /\ [Next]_vars => CreationInv'
  BY CreationStep
<1>3. CreationInv /\ [Next]_vars =>
        [\A v \in Validator :
           status[v] = "none" /\ status'[v] = "active" =>
               \/ v \in approved /\ EnoughSelfDelegation(Head(tx).value)
               \/ v \in unchecked' /\ ~Checked(Head(tx))]_vars
  BY CreationStep DEF Creation
<1> QED BY <1>1, <1>2, <1>3, PTL DEF Spec, CreatedWithMinimum
=============================================================================
