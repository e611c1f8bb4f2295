------------------------- MODULE ValidatorAdmission -------------------------
(***************************************************************************)
(* The validator admission policy (x/validatoradmission): the approval     *)
(* list and its message server, the ante handler that checks a transaction *)
(* before its messages run, and the part of staking and slashing they act  *)
(* on.                                                                     *)
(*                                                                         *)
(* A transaction is checked as a whole against the state it starts from;   *)
(* its messages then run one after the other, and a message that fails     *)
(* takes the whole transaction back.  A message reaches its server as a    *)
(* message of the transaction (carrier "tx"), inside an authz MsgExec      *)
(* ("exec"), or from the staking or slashing precompile that an Ethereum   *)
(* transaction calls ("evm").                                              *)
(***************************************************************************)
EXTENDS Integers, Sequences, FiniteSets

CONSTANTS
    Validator,         \* operator addresses, in their canonical text
    Account,           \* the signers of administrative messages
    Admin,             \* the administrative authority of the upgrade
    NoAuthority,       \* "" in the code
    Coin,              \* the coins a message may name
    Capacity,          \* the capacities a message may name
    DefaultMinimum,    \* types.DefaultMinimumSelfDelegation
    Message,           \* the messages there may be
    Transaction,       \* the transactions there may be: lists of messages
    AllowGovernance,   \* allowGovernanceProposalSubmission
    NoTx               \* "no transaction is running"

ASSUME AdmissionAssumption ==
    /\ IsFiniteSet(Validator)
    /\ Admin \in Account /\ NoAuthority \notin Account
    /\ \A c \in Coin : c.amount \in Nat
    /\ Capacity \subseteq Nat
    /\ DefaultMinimum \in Coin /\ DefaultMinimum.amount > 0
    /\ AllowGovernance \in BOOLEAN

(* The shape of each kind of message; a transaction has at least one.      *)
ASSUME MessageAssumption ==
    /\ Transaction \subseteq Seq(Message) \ {<<>>}
    /\ \A m \in Message :
          /\ m.type \in {"approve", "revoke", "create", "unjail"} => m.validator \in Validator
          /\ m.type \in {"approve", "revoke", "update"} => m.signer \in Account
          /\ m.type = "update" => m.max \in Capacity /\ m.minimum \in Coin
          /\ m.type = "create" => m.value \in Coin
          /\ m.carrier \in {"tx", "exec", "evm"}

VARIABLES
    authority,   \* KeyAuthority
    approved,    \* KeyApprovedValidatorPrefix
    maxApproved, \* KeyMaxApprovedValidators
    minimum,     \* KeyMinimumSelfDelegation
    status,      \* staking: "none", "active" or "jailed", by operator
    tx,          \* the messages of the running transaction still to run
    saved,       \* the state to go back to when one of them fails
    unchecked    \* history: the active validators that a message brought in
                 \* which the ante handler had not compared with the policy

policy == <<authority, approved, maxApproved, minimum>>
vars == <<policy, status, tx, saved, unchecked>>

-----------------------------------------------------------------------------
(* validatePolicyAmount; a policy update must also name axtc.              *)
ValidPolicy(max, min) == max > 0 /\ min.amount > 0

(* GenesisState.Validate: without an authority nobody is approved.         *)
GenesisValid ==
    /\ ValidPolicy(maxApproved, minimum)
    /\ IF authority = NoAuthority
       THEN approved = {}
       ELSE approved # {} /\ Cardinality(approved) <= maxApproved

(* The application refuses genesis transactions that create a validator    *)
(* that is not approved.                                                   *)
Init ==
    /\ authority \in {NoAuthority, Admin}
    /\ approved \in SUBSET Validator
    /\ maxApproved \in Capacity
    /\ minimum \in Coin
    /\ GenesisValid
    /\ \E genesis \in SUBSET approved :
          status = [v \in Validator |-> IF v \in genesis THEN "active" ELSE "none"]
    /\ tx = <<>>
    /\ saved = NoTx
    /\ unchecked = {}

-----------------------------------------------------------------------------
(* The ante handler *)

EnoughSelfDelegation(value) ==
    value.denom = minimum.denom /\ value.amount >= minimum.amount

(* The handler looks at the messages of the transaction itself, not into   *)
(* an authz MsgExec or an Ethereum transaction.                            *)
AnteAccepts(m) ==
    m.carrier = "tx" =>
        /\ m.type = "create" => m.validator \in approved /\ EnoughSelfDelegation(m.value)
        /\ m.type = "unjail" => m.validator \in approved
        /\ m.type # "mint_update_params"
        /\ m.type = "submit_proposal" => AllowGovernance

(* The ante handler after it refuses some messages inside a MsgExec.       *)
AuthzLimiter(m) == m.carrier = "exec" => m.type # "submit_proposal"

Deliver(t) ==
    /\ tx = <<>>
    /\ \A i \in 1..Len(t) : AnteAccepts(t[i]) /\ AuthzLimiter(t[i])
    /\ tx' = t
    /\ saved' = [approved |-> approved, maxApproved |-> maxApproved,
                 minimum |-> minimum, status |-> status, unchecked |-> unchecked]
    /\ UNCHANGED <<policy, status, unchecked>>

-----------------------------------------------------------------------------
(* The message servers: what each accepts, and what it then does. *)

(* Faulty: the capacity is off by one.                                     *)
CanApproveOneMore(m) ==
    /\ m.signer = authority
    /\ m.validator \in approved \/ Cardinality(approved) <= maxApproved

CanApprove(m) ==
    /\ m.signer = authority
    /\ m.validator \in approved \/ Cardinality(approved) < maxApproved

CanRevoke(m) == m.signer = authority

CanUpdate(m) ==
    /\ m.signer = authority
    /\ ValidPolicy(m.max, m.minimum) /\ m.minimum.denom = "axtc"
    /\ m.max >= Cardinality(approved)

(* The precompiles act only for the operator that calls them, and then     *)
(* call the message server.                                                *)
PrecompileCreates(m) == m.carrier = "evm" => m.caller = m.validator

PrecompileUnjails(m) == m.carrier = "evm" => m.caller = m.validator

CanCreate(m) ==
    PrecompileCreates(m) /\ status[m.validator] = "none" /\ m.value.amount > 0

CanUnjail(m) == PrecompileUnjails(m) /\ status[m.validator] = "jailed"

Accepts(m) ==
    CASE m.type = "approve" -> CanApprove(m)
      [] m.type = "revoke"  -> CanRevoke(m)
      [] m.type = "update"  -> CanUpdate(m)
      [] m.type = "create"  -> CanCreate(m)
      [] m.type = "unjail"  -> CanUnjail(m)
      [] OTHER              -> m.type = "submit_proposal"

(* The next message to run, if the server of its kind accepts it.          *)
Running(type) == tx # <<>> /\ Head(tx).type = type /\ Accepts(Head(tx))

Finish ==
    /\ tx' = Tail(tx)
    /\ saved' = IF Tail(tx) = <<>> THEN NoTx ELSE saved

ApproveValidator ==
    /\ Running("approve")
    /\ approved' = approved \cup {Head(tx).validator}
    /\ Finish
    /\ UNCHANGED <<authority, maxApproved, minimum, status, unchecked>>

(* Faulty: the validator is not jailed.                                    *)
RevokeValidatorOnly ==
    /\ Running("revoke")
    /\ approved' = approved \ {Head(tx).validator}
    /\ Finish
    /\ UNCHANGED <<authority, maxApproved, minimum, status, unchecked>>

RevokeValidator ==
    /\ Running("revoke")
    /\ approved' = approved \ {Head(tx).validator}
    /\ status' = [status EXCEPT ![Head(tx).validator] =
                    IF @ = "active" THEN "jailed" ELSE @]
    /\ unchecked' = unchecked \ {Head(tx).validator}
    /\ Finish
    /\ UNCHANGED <<authority, maxApproved, minimum>>

UpdateParams ==
    /\ Running("update")
    /\ maxApproved' = Head(tx).max
    /\ minimum' = Head(tx).minimum
    /\ Finish
    /\ UNCHANGED <<authority, approved, status, unchecked>>

(* The ante handler compared the message with the policy it now runs in.   *)
Checked(m) ==
    m.carrier = "tx" /\ approved = saved.approved /\ minimum = saved.minimum

(* The validator of the message becomes active.                            *)
Enter ==
    /\ status' = [status EXCEPT ![Head(tx).validator] = "active"]
    /\ unchecked' = IF Checked(Head(tx)) THEN unchecked
                    ELSE unchecked \cup {Head(tx).validator}
    /\ Finish
    /\ UNCHANGED policy

CreateValidator == Running("create") /\ Enter

Unjail == Running("unjail") /\ Enter

(* A message of another module.                                            *)
OtherMessage ==
    /\ Running("submit_proposal")
    /\ Finish
    /\ UNCHANGED <<policy, status, unchecked>>

(* A message fails: the transaction is taken back.                         *)
Fail ==
    /\ tx # <<>> /\ ~Accepts(Head(tx))
    /\ approved' = saved.approved
    /\ maxApproved' = saved.maxApproved
    /\ minimum' = saved.minimum
    /\ status' = saved.status
    /\ unchecked' = saved.unchecked
    /\ tx' = <<>>
    /\ saved' = NoTx
    /\ UNCHANGED authority

-----------------------------------------------------------------------------
(* Between transactions *)

(* Slashing jails a validator for downtime, or staking for too little      *)
(* self-delegation.                                                        *)
ChainJails(v) ==
    /\ tx = <<>>
    /\ status[v] = "active"
    /\ status' = [status EXCEPT ![v] = "jailed"]
    /\ unchecked' = unchecked \ {v}
    /\ UNCHANGED <<policy, tx, saved>>

(* Staking removes a validator nobody delegates to any more.               *)
ChainRemoves(v) ==
    /\ tx = <<>>
    /\ status[v] = "jailed"
    /\ status' = [status EXCEPT ![v] = "none"]
    /\ UNCHANGED <<policy, tx, saved, unchecked>>

(* The governance-safeguards upgrade.                                      *)
GovernanceSafeguards ==
    /\ tx = <<>>
    /\ authority' = Admin
    /\ minimum' = DefaultMinimum
    /\ UNCHANGED <<approved, maxApproved, status, tx, saved, unchecked>>

Messages ==
    \/ ApproveValidator \/ RevokeValidator \/ UpdateParams
    \/ CreateValidator \/ Unjail \/ OtherMessage \/ Fail

Chain == GovernanceSafeguards \/ \E v \in Validator : ChainJails(v) \/ ChainRemoves(v)

Next == Messages \/ Chain \/ \E t \in Transaction : Deliver(t)

Spec == Init /\ [][Next]_vars

-----------------------------------------------------------------------------
(* Properties *)

Saved == [approved : SUBSET Validator, maxApproved : Capacity, minimum : Coin,
          status : [Validator -> {"none", "active", "jailed"}], unchecked : SUBSET Validator]

(* Every stored value has its type and the stored policy is valid, so that *)
(* the ante handler can always read the minimum; the state to go back to   *)
(* exists exactly while a transaction runs.                                *)
TypeOK ==
    /\ authority \in {NoAuthority, Admin}
    /\ approved \subseteq Validator
    /\ maxApproved \in Capacity
    /\ minimum \in Coin
    /\ ValidPolicy(maxApproved, minimum)
    /\ status \in [Validator -> {"none", "active", "jailed"}]
    /\ unchecked \subseteq Validator
    /\ tx \in Seq(Message)
    /\ tx # <<>> => saved \in Saved /\ ValidPolicy(saved.maxApproved, saved.minimum)
    /\ tx = <<>> => saved = NoTx

(* The approval list never exceeds the capacity, whatever the order of     *)
(* approvals, revocations and capacity changes, within a transaction too   *)
(* ("The approval capacity cannot be reduced below the number of approved  *)
(* operators").                                                            *)
CapacityRespected ==
    /\ Cardinality(approved) <= maxApproved
    /\ tx # <<>> => Cardinality(saved.approved) <= saved.maxApproved

(* A validator takes part only while it is approved, or when the message   *)
(* that brought it in reached staking or slashing without the ante handler *)
(* having compared it with the policy in force: revocation jails it, a     *)
(* failing transaction restores what it changed, and through the ante      *)
(* handler neither unjailing nor creating it again brings it back.         *)
OutOnlyUnchecked ==
    \A v \in Validator : status[v] = "active" => v \in approved \cup unchecked

(* "An existing validator is jailed and cannot unjail until it is approved *)
(* again" (docs/validator-admission.md): a jailed validator becomes active *)
(* only when it is approved.                                               *)
UnjailedOnlyWhenApproved ==
    [][\A v \in Validator :
         status[v] = "jailed" /\ status'[v] = "active" => v \in approved']_vars

(* Whatever the administration did, the state that ExportGenesis writes is *)
(* refused by Validate in one case only: there is an authority and nobody  *)
(* is approved.                                                            *)
RefusedOnlyWhenNobodyApproved ==
    tx = <<>> /\ ~GenesisValid => authority # NoAuthority /\ approved = {}

(* The exported state can start a chain: Validate accepts it.              *)
ExportedGenesisValid == tx = <<>> => GenesisValid

(* A validator is created only when it is approved and with a             *)
(* self-delegation that meets the minimum in force when it is created, in  *)
(* its denomination, or by a message that the ante handler had not         *)
(* compared with the policy in force.                                      *)
CreatedWithMinimum ==
    [][\A v \in Validator :
         status[v] = "none" /\ status'[v] = "active" =>
             \/ v \in approved /\ EnoughSelfDelegation(Head(tx).value)
             \/ v \in unchecked' /\ ~Checked(Head(tx))]_vars
=============================================================================
