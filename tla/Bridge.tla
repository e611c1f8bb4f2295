------------------------------- MODULE Bridge -------------------------------
(***************************************************************************)
(* The native side of the Cronos bridge: the keeper, the message server    *)
(* and the genesis handlers of x/bridge, over the part of the bank they    *)
(* use.                                                                    *)
(*                                                                         *)
(* A message of a block runs as a transaction: a handler that returns an   *)
(* error leaves no write behind.  Every handler is therefore one action    *)
(* whose guard is the conjunction of the checks the handler makes, in the  *)
(* code's order, and a rejected message is a step that does not happen.    *)
(*                                                                         *)
(* Data.  Addresses recovered from signatures are members of Address; a    *)
(* message carries the list of addresses its signatures recover to.  A     *)
(* hash is modelled by the tuple of the fields it is taken over, which     *)
(* keeps what matters of it: equal exactly when those fields are equal.    *)
(***************************************************************************)
EXTENDS Integers, Sequences, FiniteSets

CONSTANTS
    Address,        \* signer and guardian addresses
    Account,        \* accounts of the native chain
    Blocked,        \* the accounts the bank accepts no coins for
    Authority,      \* the account that may create the first route
    RouteConfig,    \* the route configurations a message may carry
    Attestation,    \* the attestations a message may carry
    ControlAction,  \* the signed control actions a message may carry
    PauseAction,    \* the signed guardian actions a message may carry
    Signatures,     \* the lists of recovered addresses a message may carry
    Amount,         \* the amounts a transfer may name
    NoConfig,       \* "no route configuration is stored"
    MaxSupply,      \* evmconfig.MaximumSupplyAtomic
    InitialBalance, \* the native balances at genesis
    InitialSupply,  \* their sum
    DayLength,      \* 86400 in the code
    MaxTime,        \* bound: the last block time explored
    MaxNonce        \* bound: the number of outbound transfers explored

(* The constants have the shape of the code's types.  Limits and amounts   *)
(* are integers: the code parses them with big.Int and rejects what is not *)
(* positive, so a text that does not parse is represented by 0.            *)
ASSUME ConfigAssumption ==
    /\ NoConfig \notin RouteConfig
    /\ \A c \in RouteConfig :
         /\ c \in [routeID : {c.routeID}, signers : SUBSET Address,
                  guardian : Address, maxTransfer : Int, dailyLimit : Int,
                  maxOutstanding : Int, enabled : BOOLEAN]
         /\ [c EXCEPT !.enabled = FALSE] \in RouteConfig

ASSUME MessageAssumption ==
    /\ \A a \in Attestation :
         a.amount \in Int /\ a.deadline \in Int /\ a.destination \in Account
    /\ \A c \in ControlAction :
         /\ c.payload \in RouteConfig
         /\ c.nonce \in Nat /\ c.notBefore \in Int /\ c.expires \in Int
    /\ \A p \in PauseAction : p.nonce \in Nat /\ p.expires \in Int
    /\ Signatures \subseteq Seq(Address)
    /\ Amount \subseteq Int

ASSUME BankAssumption ==
    /\ Blocked \subseteq Account
    /\ MaxSupply \in Nat
    /\ InitialBalance \in [Account -> Nat]
    /\ InitialSupply \in 0..MaxSupply

ASSUME TimeAssumption ==
    DayLength \in Nat \ {0} /\ MaxTime \in Nat \ {0} /\ MaxNonce \in Nat

VARIABLES
    config,           \* 0x02: the stored route configuration, or NoConfig
    paused,           \* 0x05: RouteState.Paused
    processed,        \* 0x01: the identifiers of settled attestations
    usage,            \* 0x03: the amount recorded against each day's limit
    processedControl, \* 0x04: the identifiers of applied control actions
    processedPause,   \* 0x06: the identifiers of applied guardian actions
    outstanding,      \* 0x07: native coins minted and not burned again
    outboundNonce,    \* 0x08: the last nonce given to an outbound transfer
    now,              \* the block time
    supply,           \* bank: total supply of the native coin
    balance,          \* bank: balance of every account
    minted,           \* history: all coins the bridge ever minted
    burned,           \* history: all coins the bridge ever burned
    settled,          \* history: how often each identifier was settled
    flow,             \* history: coins moved in either direction, by day
    receipts          \* history: the outbound requests emitted, in order

store == <<config, paused, processed, usage, processedControl,
           processedPause, outstanding, outboundNonce>>
bank == <<supply, balance>>
history == <<minted, burned, settled, flow, receipts>>
vars == <<store, now, bank, history>>

-----------------------------------------------------------------------------
(* Identifiers, days and validation *)

DayOf(t) == t \div DayLength

Day == {DayOf(t) : t \in 0..MaxTime}

(* The identifier normalises the spelling of the source reference and of   *)
(* the destination and binds every other signed field, the deadline        *)
(* included.                                                               *)
AttestationID(a) ==
    [routeID |-> a.routeID, direction |-> a.direction, event |-> a.event,
     destination |-> a.destination, amount |-> a.amount,
     deadline |-> a.deadline]

AttestationIDs == {AttestationID(a) : a \in Attestation}

ControlID(c) == <<c.routeID, c.action, c.payload, c.nonce, c.notBefore, c.expires>>

PauseID(p) == <<p.routeID, p.nonce, p.expires>>

RouteIDs == {c.routeID : c \in RouteConfig}

(* Three distinct signers, a guardian that is none of them, and positive   *)
(* limits.                                                                 *)
ValidConfig(c) ==
    /\ Cardinality(c.signers) = 3
    /\ c.guardian \notin c.signers
    /\ c.maxTransfer > 0
    /\ c.dailyLimit > 0
    /\ c.maxOutstanding > 0

ValidAttestation(a) == a.amount > 0 /\ a.deadline > 0

(* Faulty: the deadline is checked for its form only.                      *)
ValidAttestationAtAnyTime(a, t) == ValidAttestation(a)

ValidAttestationAt(a, t) == ValidAttestation(a) /\ t <= a.deadline

(* ValidateBasic of an outbound transfer.                                  *)
ValidOutboundTransfer(amount) == amount > 0

ActiveAt(c, t) ==
    /\ c.nonce > 0
    /\ 0 < c.notBefore /\ c.notBefore < c.expires
    /\ c.notBefore <= t /\ t < c.expires

(* Faulty: one signer may sign twice.                                      *)
VerifyApprovalsCountingRepeats(signers, sigs) ==
    /\ Len(sigs) \in 2..3
    /\ \A i \in 1..Len(sigs) : sigs[i] \in signers

(* Two or three signatures, all by configured signers, no signer twice.    *)
VerifyApprovals(signers, sigs) ==
    /\ Len(sigs) \in 2..3
    /\ \A i \in 1..Len(sigs) : sigs[i] \in signers
    /\ \A i, j \in 1..Len(sigs) : i # j => sigs[i] # sigs[j]

VerifyGuardianPause(guardian, sig) == sig = guardian

RouteAvailable == config # NoConfig /\ config.enabled /\ ~paused

-----------------------------------------------------------------------------
Init ==
    /\ config = NoConfig
    /\ paused = FALSE
    /\ processed = {}
    /\ usage = [d \in Day |-> 0]
    /\ processedControl = {}
    /\ processedPause = {}
    /\ outstanding = 0
    /\ outboundNonce = 0
    /\ now = 1
    /\ supply = InitialSupply
    /\ balance = InitialBalance
    /\ minted = 0
    /\ burned = 0
    /\ settled = [id \in AttestationIDs |-> 0]
    /\ flow = [d \in Day |-> 0]
    /\ receipts = <<>>

-----------------------------------------------------------------------------
(* Route administration *)

(* The authority creates the one route, disabled whatever the message says *)
(* and paused.                                                             *)
InitializeRouteConfig(caller, c) ==
    /\ caller = Authority
    /\ ValidConfig(c)
    /\ config = NoConfig
    /\ config' = [c EXCEPT !.enabled = FALSE]
    /\ paused' = TRUE
    /\ UNCHANGED <<processed, usage, processedControl, processedPause,
                   outstanding, outboundNonce, now, bank, history>>

(* A guardian-signed suspension.  An action is used up only when it takes  *)
(* effect: one that arrives while the route is paused stays usable.        *)
PauseRoute(p, sig) ==
    /\ p.routeID = config.routeID
    /\ p.nonce > 0 /\ p.expires > 0
    /\ now < p.expires
    /\ PauseID(p) \notin processedPause
    /\ VerifyGuardianPause(config.guardian, sig)
    /\ ~paused
    /\ paused' = TRUE
    /\ processedPause' = processedPause \cup {PauseID(p)}
    /\ UNCHANGED <<config, processed, usage, processedControl, outstanding,
                   outboundNonce, now, bank, history>>

EmergencyPauseRoute(p, sig) == config # NoConfig /\ PauseRoute(p, sig)

(* Faulty: the approval is not bound to the current configuration.         *)
ResumePausedRouteUnbound(c, sigs) ==
    /\ c.action = "resume_route"
    /\ ActiveAt(c, now)
    /\ paused
    /\ ControlID(c) \notin processedControl
    /\ VerifyApprovals(config.signers, sigs)
    /\ paused' = FALSE
    /\ processedControl' = processedControl \cup {ControlID(c)}
    /\ UNCHANGED <<config, processed, usage, processedPause, outstanding,
                   outboundNonce, now, bank, history>>

(* The signed payload binds the configuration that is current when the     *)
(* message executes: the server recomputes it, so a signature over another *)
(* configuration recovers to no configured signer.                         *)
ResumePausedRoute(c, sigs) ==
    /\ c.action = "resume_route"
    /\ c.routeID = config.routeID
    /\ ActiveAt(c, now)
    /\ paused
    /\ c.payload = config
    /\ ControlID(c) \notin processedControl
    /\ VerifyApprovals(config.signers, sigs)
    /\ paused' = FALSE
    /\ processedControl' = processedControl \cup {ControlID(c)}
    /\ UNCHANGED <<config, processed, usage, processedPause, outstanding,
                   outboundNonce, now, bank, history>>

ResumeRoute(c, sigs) == config # NoConfig /\ ResumePausedRoute(c, sigs)

(* The signers of the configuration being replaced approve the new one.    *)
ApplyRouteConfigUpdate(c, sigs) ==
    /\ ValidConfig(c.payload)
    /\ c.action = "update_route_config"
    /\ c.routeID = config.routeID
    /\ c.payload.routeID = config.routeID
    /\ ActiveAt(c, now)
    /\ ControlID(c) \notin processedControl
    /\ VerifyApprovals(config.signers, sigs)
    /\ config' = c.payload
    /\ processedControl' = processedControl \cup {ControlID(c)}
    /\ UNCHANGED <<paused, processed, usage, processedPause, outstanding,
                   outboundNonce, now, bank, history>>

UpdateRouteConfig(c, sigs) == config # NoConfig /\ ApplyRouteConfigUpdate(c, sigs)

-----------------------------------------------------------------------------
(* Transfers *)

(* Faulty: each amount is compared with the daily limit by itself.         *)
CheckEachAndRecordLimits(amount) ==
    /\ RouteAvailable
    /\ amount \in 1..config.maxTransfer
    /\ amount <= config.dailyLimit
    /\ usage' = [usage EXCEPT ![DayOf(now)] = @ + amount]

(* Both directions draw on the same daily allowance, keyed by the day of   *)
(* the block time.                                                         *)
CheckAndRecordLimits(amount) ==
    /\ RouteAvailable
    /\ amount > 0
    /\ amount <= config.maxTransfer
    /\ usage[DayOf(now)] + amount <= config.dailyLimit
    /\ usage' = [usage EXCEPT ![DayOf(now)] = @ + amount]

(* Faulty: the identifier is not looked up.                                *)
AdmitAttestationAgain(a, sigs) ==
    /\ a.routeID = config.routeID
    /\ ValidAttestationAt(a, now)
    /\ VerifyApprovals(config.signers, sigs)
    /\ CheckAndRecordLimits(a.amount)
    /\ processed' = processed \cup {AttestationID(a)}

(* Faulty: the identifier is not marked.                                   *)
AdmitAttestationUnmarked(a, sigs) ==
    /\ a.routeID = config.routeID
    /\ ValidAttestationAt(a, now)
    /\ VerifyApprovals(config.signers, sigs)
    /\ AttestationID(a) \notin processed
    /\ CheckAndRecordLimits(a.amount)
    /\ UNCHANGED processed

AdmitAttestation(a, sigs) ==
    /\ a.routeID = config.routeID
    /\ RouteAvailable
    /\ ValidAttestationAt(a, now)
    /\ VerifyApprovals(config.signers, sigs)
    /\ AttestationID(a) \notin processed
    /\ CheckAndRecordLimits(a.amount)
    /\ processed' = processed \cup {AttestationID(a)}

(* Mint to the module account and send on to the recipient.                *)
SettleInbound(a) ==
    /\ outstanding + a.amount <= config.maxOutstanding
    /\ supply + a.amount <= MaxSupply
    /\ a.destination \notin Blocked
    /\ supply' = supply + a.amount
    /\ balance' = [balance EXCEPT ![a.destination] = @ + a.amount]
    /\ outstanding' = outstanding + a.amount

SubmitAttestation(a, sigs) ==
    /\ config # NoConfig
    /\ a.direction = "cronos_to_xitcoin"
    /\ AdmitAttestation(a, sigs)
    /\ SettleInbound(a)
    /\ minted' = minted + a.amount
    /\ settled' = [settled EXCEPT ![AttestationID(a)] = @ + 1]
    /\ flow' = [flow EXCEPT ![DayOf(now)] = @ + a.amount]
    /\ UNCHANGED <<config, paused, processedControl, processedPause,
                   outboundNonce, now, burned, receipts>>

(* The fields of the request identifier the event carries; the destination *)
(* on Cronos is only checked for syntax and left out.                      *)
Receipt(routeID, sender, amount, nonce) ==
    [routeID |-> routeID, sender |-> sender, amount |-> amount, nonce |-> nonce]

(* Faulty: the outstanding amount is not reduced.                          *)
BurnUnrecordedOutbound(sender, amount) ==
    /\ amount <= outstanding
    /\ amount <= balance[sender]
    /\ balance' = [balance EXCEPT ![sender] = @ - amount]
    /\ supply' = supply - amount
    /\ UNCHANGED outstanding

(* Send to the module account and burn there.                              *)
BurnOutbound(sender, amount) ==
    /\ amount <= outstanding
    /\ amount <= balance[sender]
    /\ balance' = [balance EXCEPT ![sender] = @ - amount]
    /\ supply' = supply - amount
    /\ outstanding' = outstanding - amount

(* Faulty: the nonce that was used is not stored.                          *)
InitiateOutboundTransferUncounted(routeID, sender, amount) ==
    /\ outboundNonce < MaxNonce
    /\ config # NoConfig
    /\ ValidOutboundTransfer(amount)
    /\ routeID = config.routeID
    /\ CheckAndRecordLimits(amount)
    /\ BurnOutbound(sender, amount)
    /\ burned' = burned + amount
    /\ flow' = [flow EXCEPT ![DayOf(now)] = @ + amount]
    /\ receipts' = Append(receipts, Receipt(routeID, sender, amount, outboundNonce + 1))
    /\ UNCHANGED <<config, paused, processed, processedControl,
                   processedPause, outboundNonce, now, minted, settled>>

InitiateOutboundTransfer(routeID, sender, amount) ==
    /\ outboundNonce < MaxNonce
    /\ config # NoConfig
    /\ ValidOutboundTransfer(amount)
    /\ routeID = config.routeID
    /\ CheckAndRecordLimits(amount)
    /\ BurnOutbound(sender, amount)
    /\ outboundNonce' = outboundNonce + 1
    /\ burned' = burned + amount
    /\ flow' = [flow EXCEPT ![DayOf(now)] = @ + amount]
    /\ receipts' = Append(receipts, Receipt(routeID, sender, amount, outboundNonce'))
    /\ UNCHANGED <<config, paused, processed, processedControl,
                   processedPause, now, minted, settled>>

-----------------------------------------------------------------------------
(* The chain around the module *)

(* The next block: its time, in whole seconds, is not before this block's. *)
NextBlock ==
    /\ \E t \in now..MaxTime : now' = t
    /\ UNCHANGED <<store, bank, history>>

(* Any other transfer of the native coin.  Protocol inflation is 0%, so    *)
(* that no other module changes the supply.                                *)
BankSend(from, to, amount) ==
    /\ from # to /\ to \notin Blocked
    /\ amount > 0 /\ amount <= balance[from]
    /\ balance' = [balance EXCEPT ![from] = @ - amount, ![to] = @ + amount]
    /\ UNCHANGED <<store, now, supply, history>>

(* GenesisState.Validate on what ExportGenesis writes.  As a property: the *)
(* state of a running chain can always be exported and started again       *)
(* ("A route may be present only when it passes the same validation used   *)
(* at runtime").  UpdateRouteConfig does not compare the new outstanding   *)
(* limit with the outstanding amount, which Validate does.                 *)
ExportedGenesisValid ==
    config # NoConfig => ValidConfig(config) /\ outstanding <= config.maxOutstanding

(* The chain is exported and started again from the exported state, which  *)
(* InitGenesis refuses when it is not valid.  Only the configuration, the  *)
(* pause flag, the outstanding amount and the nonce are part of it.        *)
ExportImportGenesis ==
    /\ config # NoConfig
    /\ ExportedGenesisValid
    /\ processed' = {}
    /\ usage' = [d \in Day |-> 0]
    /\ processedControl' = {}
    /\ processedPause' = {}
    /\ UNCHANGED <<config, paused, outstanding, outboundNonce, now, bank,
                   history>>

Administer ==
    \/ \E caller \in Account, c \in RouteConfig : InitializeRouteConfig(caller, c)
    \/ \E p \in PauseAction, sig \in Address : EmergencyPauseRoute(p, sig)
    \/ \E c \in ControlAction, sigs \in Signatures : ResumeRoute(c, sigs)
    \/ \E c \in ControlAction, sigs \in Signatures : UpdateRouteConfig(c, sigs)

Transfer ==
    \/ \E a \in Attestation, sigs \in Signatures : SubmitAttestation(a, sigs)
    \/ \E routeID \in RouteIDs, sender \in Account, amount \in Amount :
          InitiateOutboundTransfer(routeID, sender, amount)

Environment ==
    \/ NextBlock
    \/ \E from, to \in Account, amount \in Amount : BankSend(from, to, amount)

Next == Administer \/ Transfer \/ Environment

Spec == Init /\ [][Next]_vars

(* The same chain, which may also be exported and started again.           *)
GenesisSpec == Init /\ [][Next \/ ExportImportGenesis]_vars

-----------------------------------------------------------------------------
(* Properties *)

StoreTypeOK ==
    /\ config \in {c \in RouteConfig : ValidConfig(c)} \cup {NoConfig}
    /\ paused \in BOOLEAN
    /\ processed \subseteq AttestationIDs
    /\ usage \in [Day -> Nat]
    /\ processedControl \subseteq {ControlID(c) : c \in ControlAction}
    /\ processedPause \subseteq {PauseID(p) : p \in PauseAction}
    /\ outstanding \in Nat
    /\ outboundNonce \in 0..MaxNonce

HistoryTypeOK ==
    /\ minted \in Nat
    /\ burned \in Nat
    /\ settled \in [AttestationIDs -> Nat]
    /\ flow \in [Day -> Nat]
    /\ receipts \in Seq([routeID : RouteIDs, sender : Account, amount : Nat, nonce : Nat])

(* Every stored value has its type; in particular the stored configuration *)
(* always passes Validate, without which GetRouteConfig would refuse every *)
(* later message, and no balance or outstanding amount goes below zero.    *)
TypeOK ==
    /\ StoreTypeOK
    /\ HistoryTypeOK
    /\ now \in 1..MaxTime
    /\ supply \in Int
    /\ balance \in [Account -> Nat]

(* The stored outstanding amount is exactly what the bridge minted and did *)
(* not burn again, whatever the order of settlements, redemptions, pauses, *)
(* configuration changes and genesis restarts ("Native XTC minted minus    *)
(* native XTC burned equals represented collateral").                      *)
Accounting == minted = burned + outstanding

(* Minting by the bridge never takes the supply over the configured        *)
(* maximum, and what it mints and burns is all it changes of the supply.   *)
SupplyCapped ==
    /\ supply <= MaxSupply
    /\ supply = InitialSupply + minted - burned

(* A transfer identifier is settled at most once, in any spelling of its   *)
(* source reference, whoever submits it and however often.                 *)
SettledAtMostOnce == \A id \in AttestationIDs : settled[id] <= 1

(* An identifier is marked processed exactly when its coins were minted: a *)
(* settlement that fails on a limit after the admission marked the         *)
(* identifier does not use it up.                                          *)
ProcessedIffSettled == processed = {id \in AttestationIDs : settled[id] > 0}

(* The day's recorded usage is the value that moved on that day in both    *)
(* directions: no transfer escapes the limit and no failed one consumes    *)
(* it.                                                                     *)
UsageIsFlow == usage = flow

(* Outbound requests are numbered without gap or repetition, also across a *)
(* genesis restart, so that no two of them share a request identifier.     *)
ReceiptsNumbered ==
    /\ Len(receipts) = outboundNonce
    /\ \A i \in 1..Len(receipts) : receipts[i].nonce = i

(* Holders can redeem what is outstanding, within the limits, over a route *)
(* that was closed by disabling it and is not suspended by the guardian    *)
(* ("Route closure blocks new transfers and preserves valid redemptions"). *)
(* The availability check of InitiateOutboundTransfer is the one of        *)
(* settlements and refuses both.                                           *)
ClosurePreservesRedemptions ==
    \A sender \in Account, amount \in Amount :
        /\ config # NoConfig /\ ~config.enabled /\ ~paused
        /\ amount \in 1..outstanding /\ amount <= balance[sender]
        /\ amount <= config.maxTransfer
        /\ usage[DayOf(now)] + amount <= config.dailyLimit
        /\ outboundNonce < MaxNonce
        => ENABLED InitiateOutboundTransfer(config.routeID, sender, amount)

Moved == (minted' - minted) + (burned' - burned)

(* Value moves only over a route that is enabled and not paused, by no     *)
(* more than the transfer limit at once, within the limit of the day as a  *)
(* whole, and upwards only to the outstanding limit: all of them those of  *)
(* the configuration in force, however it changed during the day.          *)
MovesWithinLimits ==
    [][Moved # 0 =>
        /\ RouteAvailable
        /\ Moved <= config.maxTransfer
        /\ flow'[DayOf(now)] <= config.dailyLimit
        /\ outstanding' > outstanding => outstanding' <= config.maxOutstanding]_vars

Spent(c) == ControlID(c) \in processedControl' \ processedControl

(* A stored configuration is replaced, and a pause lifted, only by a       *)
(* control action that was not applied before and that names exactly the   *)
(* configuration that then holds: an old approval brings back neither an   *)
(* old configuration nor a route paused since.                             *)
ChangesSpendApprovals ==
    [][/\ config # NoConfig /\ config' # config =>
            \E c \in ControlAction :
                Spent(c) /\ c.action = "update_route_config" /\ c.payload = config'
       /\ paused /\ ~paused' =>
            \E c \in ControlAction :
                Spent(c) /\ c.action = "resume_route" /\ c.payload = config]_vars

(* What the module promises of its transfers, hiding how it administers    *)
(* the route.                                                              *)
Escrow == INSTANCE BridgeEscrow
            WITH Transfers <- AttestationIDs, done <- processed,
                 held <- outstanding, redeemed <- burned

(* Every step of the module executes one transfer that was not executed    *)
(* before, redeems coins that were executed, or touches neither: the       *)
(* handlers of x/bridge implement the escrow of BridgeEscrow.              *)
ImplementsEscrow == Escrow!Spec
=============================================================================
