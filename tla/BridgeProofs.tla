---------------------------- MODULE BridgeProofs ----------------------------
(***************************************************************************)
(* Proofs about Bridge, for every set of configurations, attestations and  *)
(* control actions, every limit and every length of run.                   *)
(***************************************************************************)
EXTENDS Bridge, SequenceTheorems, TLAPS

(* A configuration stays valid when it is disabled, so that the one        *)
(* InitializeRouteConfig stores is valid.                                  *)
LEMMA DisabledConfigValid ==
    ASSUME NEW c \in RouteConfig, ValidConfig(c)
    PROVE  /\ [c EXCEPT !.enabled = FALSE] \in RouteConfig
           /\ ValidConfig([c EXCEPT !.enabled = FALSE])
<1> DEFINE d == [c EXCEPT !.enabled = FALSE]
<1>1. /\ d \in RouteConfig
      /\ c \in [routeID : {c.routeID}, signers : SUBSET Address,
                  guardian : Address, maxTransfer : Int, dailyLimit : Int,
                  maxOutstanding : Int, enabled : BOOLEAN]
  BY ConfigAssumption
<1>2. /\ d.signers = c.signers
      /\ d.guardian = c.guardian
      /\ d.maxTransfer = c.maxTransfer
      /\ d.dailyLimit = c.dailyLimit
      /\ d.maxOutstanding = c.maxOutstanding
  BY <1>1
<1>3. ValidConfig(d)
  BY <1>2 DEF ValidConfig
<1> QED BY <1>1, <1>3

(* The day of a reachable block time is one of the days of the model.      *)
LEMMA TodayIsADay == TypeOK => DayOf(now) \in Day
BY TimeAssumption DEF TypeOK, Day

(* The state InitGenesis leaves has its type.                              *)
LEMMA InitType == Init => TypeOK
<1> SUFFICES ASSUME Init PROVE TypeOK
  OBVIOUS
<1>1. StoreTypeOK
  <2>1. /\ config \in {c \in RouteConfig : ValidConfig(c)} \cup {NoConfig}
        /\ paused \in BOOLEAN
        /\ processed \subseteq AttestationIDs
        /\ processedControl \subseteq {ControlID(c) : c \in ControlAction}
        /\ processedPause \subseteq {PauseID(p) : p \in PauseAction}
    BY Zenon DEF Init
  <2>2. /\ usage \in [Day -> Nat]
        /\ outstanding \in Nat
        /\ outboundNonce \in 0..MaxNonce
    BY TimeAssumption DEF Init
  <2> QED BY <2>1, <2>2 DEF StoreTypeOK
<1>2. HistoryTypeOK
  BY DEF Init, HistoryTypeOK
<1> QED BY <1>1, <1>2, BankAssumption, TimeAssumption DEF Init, TypeOK

-----------------------------------------------------------------------------
(* Type correctness: one step per handler. *)

(* The administrative messages of msg_server.go preserve the type          *)
(* invariant.                                                              *)
LEMMA AdministerType ==
    ASSUME TypeOK, Administer
    PROVE  TypeOK'
<1> USE DEF TypeOK, StoreTypeOK, HistoryTypeOK, store, bank, history
<1>1. ASSUME NEW caller \in Account, NEW c \in RouteConfig,
             InitializeRouteConfig(caller, c)
      PROVE  TypeOK'
  <2>1. config' \in {d \in RouteConfig : ValidConfig(d)}
    BY <1>1, DisabledConfigValid DEF InitializeRouteConfig
  <2>2. paused' \in BOOLEAN
    BY <1>1 DEF InitializeRouteConfig
  <2> QED BY <1>1, <2>1, <2>2 DEF InitializeRouteConfig
<1>2. ASSUME NEW p \in PauseAction, NEW sig \in Address, EmergencyPauseRoute(p, sig)
      PROVE  TypeOK'
  <2>1. paused' \in BOOLEAN
    BY <1>2 DEF EmergencyPauseRoute, PauseRoute
  <2>2. processedPause' \subseteq {PauseID(q) : q \in PauseAction}
    BY <1>2 DEF EmergencyPauseRoute, PauseRoute
  <2> QED BY <1>2, <2>1, <2>2 DEF EmergencyPauseRoute, PauseRoute
<1>3. ASSUME NEW c \in ControlAction, NEW sigs \in Signatures, ResumeRoute(c, sigs)
      PROVE  TypeOK'
  <2>1. paused' \in BOOLEAN
    BY <1>3 DEF ResumeRoute, ResumePausedRoute
  <2>2. processedControl' \subseteq {ControlID(d) : d \in ControlAction}
    BY <1>3 DEF ResumeRoute, ResumePausedRoute
  <2> QED BY <1>3, <2>1, <2>2 DEF ResumeRoute, ResumePausedRoute
<1>4. ASSUME NEW c \in ControlAction, NEW sigs \in Signatures, UpdateRouteConfig(c, sigs)
      PROVE  TypeOK'
  <2>1. config' \in {d \in RouteConfig : ValidConfig(d)}
    BY <1>4, MessageAssumption DEF UpdateRouteConfig, ApplyRouteConfigUpdate
  <2>2. processedControl' \subseteq {ControlID(d) : d \in ControlAction}
    BY <1>4 DEF UpdateRouteConfig, ApplyRouteConfigUpdate
  <2> QED BY <1>4, <2>1, <2>2 DEF UpdateRouteConfig, ApplyRouteConfigUpdate
<1> QED BY <1>1, <1>2, <1>3, <1>4 DEF Administer

(* Recording an amount against today's limit keeps the recorded usage a    *)
(* function from days to amounts, whatever is recorded.                    *)
LEMMA AddToday ==
    ASSUME TypeOK, NEW f \in [Day -> Nat], NEW amount \in Nat
    PROVE  [f EXCEPT ![DayOf(now)] = @ + amount] \in [Day -> Nat]
BY TodayIsADay

(* SubmitAttestation preserves the type invariant.                         *)
LEMMA SubmitType ==
    ASSUME TypeOK, NEW a \in Attestation, NEW sigs \in Signatures,
           SubmitAttestation(a, sigs)
    PROVE  TypeOK'
<1> USE DEF TypeOK, StoreTypeOK, HistoryTypeOK, bank, history
<1>1. /\ a.amount \in Nat \ {0}
      /\ a.destination \in Account
      /\ AttestationID(a) \in AttestationIDs
  BY MessageAssumption DEF SubmitAttestation, AdmitAttestation,
     ValidAttestationAt, ValidAttestation, AttestationIDs
<1>2. usage' \in [Day -> Nat] /\ flow' \in [Day -> Nat]
  BY <1>1, AddToday DEF SubmitAttestation, AdmitAttestation, CheckAndRecordLimits
<1>3. processed' \subseteq AttestationIDs
  BY <1>1 DEF SubmitAttestation, AdmitAttestation
<1>4. settled' \in [AttestationIDs -> Nat]
  BY <1>1 DEF SubmitAttestation
<1>5. balance' \in [Account -> Nat] /\ outstanding' \in Nat /\ supply' \in Int
  <2>1. SettleInbound(a)
    BY DEF SubmitAttestation
  <2>2. balance' = [balance EXCEPT ![a.destination] = @ + a.amount]
    BY <2>1 DEF SettleInbound
  <2>3. balance' \in [Account -> Nat]
    BY <1>1, <2>2
  <2>4. outstanding' = outstanding + a.amount /\ supply' = supply + a.amount
    BY <2>1 DEF SettleInbound
  <2>5. outstanding' \in Nat /\ supply' \in Int
    BY <1>1, <2>4
  <2> QED BY <2>3, <2>5
<1>6. minted' \in Nat
  BY <1>1 DEF SubmitAttestation
<1>7. UNCHANGED <<config, paused, processedControl, processedPause,
                  outboundNonce, now, burned, receipts>>
  BY DEF SubmitAttestation
<1> QED BY <1>2, <1>3, <1>4, <1>5, <1>6, <1>7

(* InitiateOutboundTransfer preserves the type invariant: it burns no      *)
(* more than is outstanding.                                               *)
LEMMA OutboundType ==
    ASSUME TypeOK, NEW routeID \in RouteIDs, NEW sender \in Account,
           NEW amount \in Amount, InitiateOutboundTransfer(routeID, sender, amount)
    PROVE  TypeOK'
<1> USE DEF TypeOK, StoreTypeOK, HistoryTypeOK, bank, history
<1>1. amount \in Nat \ {0}
  BY MessageAssumption DEF InitiateOutboundTransfer, CheckAndRecordLimits
<1>2. usage' \in [Day -> Nat] /\ flow' \in [Day -> Nat]
  BY <1>1, AddToday DEF InitiateOutboundTransfer, CheckAndRecordLimits
<1>3. /\ balance' \in [Account -> Nat]
      /\ outstanding' \in Nat
      /\ supply' \in Int
      /\ burned' \in Nat
      /\ outboundNonce' \in 0..MaxNonce
  BY <1>1, TimeAssumption DEF InitiateOutboundTransfer, BurnOutbound
<1>4. receipts' \in Seq([routeID : RouteIDs, sender : Account, amount : Nat, nonce : Nat])
  <2>1. Receipt(routeID, sender, amount, outboundNonce')
          \in [routeID : RouteIDs, sender : Account, amount : Nat, nonce : Nat]
    BY <1>1, <1>3 DEF Receipt
  <2> QED BY <2>1 DEF InitiateOutboundTransfer
<1>5. UNCHANGED <<config, paused, processed, processedControl, processedPause,
                  now, minted, settled>>
  BY DEF InitiateOutboundTransfer
<1> QED BY <1>2, <1>3, <1>4, <1>5

(* Block time and bank transfers preserve the type invariant.              *)
LEMMA EnvironmentType ==
    ASSUME TypeOK, Environment
    PROVE  TypeOK'
<1> USE DEF TypeOK, StoreTypeOK, HistoryTypeOK, store, bank, history
<1>1. CASE NextBlock
  BY <1>1, TimeAssumption DEF NextBlock
<1>2. ASSUME NEW from \in Account, NEW to \in Account, NEW amount \in Amount,
             BankSend(from, to, amount)
      PROVE  TypeOK'
  <2>1. amount \in Nat /\ amount <= balance[from]
    BY <1>2, MessageAssumption DEF BankSend
  <2>2. [balance EXCEPT ![from] = @ - amount] \in [Account -> Nat]
    BY <2>1
  <2>3. balance' = [[balance EXCEPT ![from] = @ - amount] EXCEPT ![to] = @ + amount]
    BY <1>2 DEF BankSend
  <2>4. balance' \in [Account -> Nat]
    BY <2>1, <2>2, <2>3
  <2> QED BY <1>2, <2>4 DEF BankSend
<1> QED BY <1>1, <1>2 DEF Environment

(* ExportGenesis followed by InitGenesis preserves the type invariant.     *)
LEMMA ExportImportType ==
    ASSUME TypeOK, ExportImportGenesis
    PROVE  TypeOK'
BY DEF TypeOK, StoreTypeOK, HistoryTypeOK, bank, history, ExportImportGenesis

(* A step that changes nothing preserves the type invariant.               *)
LEMMA StutterType ==
    ASSUME TypeOK, UNCHANGED vars
    PROVE  TypeOK'
BY DEF TypeOK, StoreTypeOK, HistoryTypeOK, vars, store, bank, history

(* Every step of the module preserves the type invariant.                  *)
LEMMA StepType ==
    ASSUME TypeOK, [Next \/ ExportImportGenesis]_vars
    PROVE  TypeOK'
<1>1. CASE Transfer
  BY <1>1, SubmitType, OutboundType DEF Transfer
<1> QED BY <1>1, AdministerType, EnvironmentType, ExportImportType, StutterType DEF Next

(* The stored values keep their types on every run, restarts from an       *)
(* exported genesis included: the configuration that handlers read back    *)
(* always passes Validate and no balance is ever overdrawn.                *)
THEOREM TypeCorrect == GenesisSpec => []TypeOK
<1>1. Init => TypeOK
  BY InitType
<1>2. TypeOK /\ [Next \/ ExportImportGenesis]_vars => TypeOK'
  BY StepType
<1> QED BY <1>1, <1>2, PTL DEF GenesisSpec

-----------------------------------------------------------------------------
(* The effect of a transfer on the amounts: every other step leaves them.  *)

Amounts == <<outstanding, supply, minted, burned, outboundNonce, receipts>>

(* Only settlements and redemptions change amounts and supply.             *)
LEMMA OtherStepsKeepAmounts ==
    ASSUME Administer \/ Environment \/ ExportImportGenesis \/ UNCHANGED vars
    PROVE  UNCHANGED Amounts /\ UNCHANGED settled /\ UNCHANGED flow
BY DEF Administer, Environment, InitializeRouteConfig, EmergencyPauseRoute, PauseRoute,
   ResumeRoute, ResumePausedRoute, UpdateRouteConfig, ApplyRouteConfigUpdate,
   NextBlock, BankSend, ExportImportGenesis,
   Amounts, vars, store, bank, history

(* SettleInbound mints, records and caps the same amount.                  *)
LEMMA SubmitAmounts ==
    ASSUME TypeOK, NEW a \in Attestation, NEW sigs \in Signatures,
           SubmitAttestation(a, sigs)
    PROVE  /\ a.amount \in Nat \ {0}
           /\ outstanding' = outstanding + a.amount
           /\ supply' = supply + a.amount
           /\ supply' <= MaxSupply
           /\ minted' = minted + a.amount
           /\ UNCHANGED <<burned, outboundNonce, receipts>>
BY MessageAssumption DEF SubmitAttestation, SettleInbound, AdmitAttestation,
   ValidAttestationAt, ValidAttestation

(* InitiateOutboundTransfer burns and records the same amount.             *)
LEMMA OutboundAmounts ==
    ASSUME TypeOK, NEW routeID \in RouteIDs, NEW sender \in Account,
           NEW amount \in Amount, InitiateOutboundTransfer(routeID, sender, amount)
    PROVE  /\ amount \in 1..outstanding
           /\ outstanding' = outstanding - amount
           /\ supply' = supply - amount
           /\ burned' = burned + amount
           /\ outboundNonce' = outboundNonce + 1
           /\ receipts' = Append(receipts, Receipt(routeID, sender, amount, outboundNonce'))
           /\ UNCHANGED minted
BY MessageAssumption DEF InitiateOutboundTransfer, BurnOutbound, CheckAndRecordLimits,
   TypeOK, StoreTypeOK

(* The accounting invariant is inductive together with the bounds on the   *)
(* supply and the types.                                                   *)
AmountsInv == TypeOK /\ Accounting /\ SupplyCapped

(* Every step preserves AmountsInv.                                        *)
LEMMA AmountsInvStep ==
    ASSUME AmountsInv, [Next \/ ExportImportGenesis]_vars
    PROVE  AmountsInv'
<1> USE DEF AmountsInv, Accounting, SupplyCapped
<1>1. TypeOK'
  BY StepType
<1>2. minted \in Nat /\ burned \in Nat /\ outstanding \in Nat /\ supply \in Int
  BY DEF TypeOK, StoreTypeOK, HistoryTypeOK
<1>3. ASSUME NEW a \in Attestation, NEW sigs \in Signatures, SubmitAttestation(a, sigs)
      PROVE  (Accounting /\ SupplyCapped)'
  BY <1>2, <1>3, SubmitAmounts, BankAssumption
<1>4. ASSUME NEW routeID \in RouteIDs, NEW sender \in Account, NEW amount \in Amount,
             InitiateOutboundTransfer(routeID, sender, amount)
      PROVE  (Accounting /\ SupplyCapped)'
  BY <1>2, <1>4, OutboundAmounts, BankAssumption
<1>5. ASSUME Administer \/ Environment \/ ExportImportGenesis \/ UNCHANGED vars
      PROVE  (Accounting /\ SupplyCapped)'
  BY <1>5, OtherStepsKeepAmounts DEF Amounts
<1> QED BY <1>1, <1>3, <1>4, <1>5 DEF Next, Transfer

(* What the bridge minted and did not burn again is what it has on record  *)
(* as outstanding, on every run and across restarts.                       *)
THEOREM AccountingHolds == GenesisSpec => []Accounting
<1>1. Init => AmountsInv
  BY InitType, BankAssumption DEF Init, AmountsInv, Accounting, SupplyCapped
<1>2. AmountsInv /\ [Next \/ ExportImportGenesis]_vars => AmountsInv'
  BY AmountsInvStep
<1>3. AmountsInv => Accounting
  BY DEF AmountsInv
<1> QED BY <1>1, <1>2, <1>3, PTL DEF GenesisSpec

(* The bridge never mints past the maximum supply.                         *)
THEOREM SupplyCapHolds == GenesisSpec => []SupplyCapped
<1>1. Init => AmountsInv
  BY InitType, BankAssumption DEF Init, AmountsInv, Accounting, SupplyCapped
<1>2. AmountsInv /\ [Next \/ ExportImportGenesis]_vars => AmountsInv'
  BY AmountsInvStep
<1>3. AmountsInv => SupplyCapped
  BY DEF AmountsInv
<1> QED BY <1>1, <1>2, <1>3, PTL DEF GenesisSpec

-----------------------------------------------------------------------------
(* Numbering of the outbound requests. *)

(* Every step keeps receipts numbered in order and the nonce behind the    *)
(* last one.                                                               *)
LEMMA NumberedStep ==
    ASSUME TypeOK, ReceiptsNumbered, [Next \/ ExportImportGenesis]_vars
    PROVE  ReceiptsNumbered'
<1>1. outboundNonce \in Nat
  BY TimeAssumption DEF TypeOK, StoreTypeOK
<1>2. ASSUME NEW routeID \in RouteIDs, NEW sender \in Account, NEW amount \in Amount,
             InitiateOutboundTransfer(routeID, sender, amount)
      PROVE  ReceiptsNumbered'
  <2> DEFINE T == [routeID : RouteIDs, sender : Account, amount : Nat, nonce : Nat]
             r == Receipt(routeID, sender, amount, outboundNonce')
  <2>1. receipts \in Seq(T) /\ receipts' \in Seq(T)
    BY <1>2, OutboundType DEF TypeOK, HistoryTypeOK
  <2>2. receipts' = Append(receipts, r) /\ outboundNonce' = outboundNonce + 1
    BY <1>2, OutboundAmounts
  <2>3. r.nonce = outboundNonce + 1
    BY <2>2 DEF Receipt
  <2>4. Len(receipts') = outboundNonce'
    BY <2>1, <2>2 DEF ReceiptsNumbered
  <2>5. ASSUME NEW i \in 1..Len(receipts')
        PROVE  receipts'[i].nonce = i
    <3>1. CASE i <= Len(receipts)
      BY <2>1, <2>2, <3>1 DEF ReceiptsNumbered
    <3>2. CASE i = Len(receipts) + 1
      BY <2>1, <2>2, <2>3, <3>2 DEF ReceiptsNumbered
    <3> QED BY <1>1, <2>2, <2>4, <3>1, <3>2 DEF ReceiptsNumbered
  <2> QED BY <2>4, <2>5 DEF ReceiptsNumbered
<1>3. ASSUME UNCHANGED <<outboundNonce, receipts>>
      PROVE  ReceiptsNumbered'
  BY <1>3 DEF ReceiptsNumbered
<1>4. ASSUME NEW a \in Attestation, NEW sigs \in Signatures, SubmitAttestation(a, sigs)
      PROVE  ReceiptsNumbered'
  BY <1>3, <1>4 DEF SubmitAttestation
<1>5. ASSUME Administer \/ Environment \/ ExportImportGenesis \/ UNCHANGED vars
      PROVE  ReceiptsNumbered'
  BY <1>3, <1>5, OtherStepsKeepAmounts DEF Amounts
<1> QED BY <1>2, <1>4, <1>5 DEF Next, Transfer

(* No two outbound requests ever carry the same nonce, restarts from an    *)
(* exported genesis included.                                              *)
THEOREM NumberingHolds == GenesisSpec => []ReceiptsNumbered
<1>1. Init => TypeOK /\ ReceiptsNumbered
  BY InitType DEF Init, ReceiptsNumbered
<1>2. TypeOK /\ ReceiptsNumbered /\ [Next \/ ExportImportGenesis]_vars
        => (TypeOK /\ ReceiptsNumbered)'
  BY NumberedStep, StepType
<1> QED BY <1>1, <1>2, PTL DEF GenesisSpec

-----------------------------------------------------------------------------
(* Replay protection: without a restart the processed identifiers are      *)
(* exactly the settled ones, and the recorded usage is what moved.         *)

ReplayInv == TypeOK /\ SettledAtMostOnce /\ ProcessedIffSettled /\ UsageIsFlow

(* AdmitAttestation marks what SettleInbound settles, once.                *)
LEMMA SubmitReplay ==
    ASSUME ReplayInv, NEW a \in Attestation, NEW sigs \in Signatures,
           SubmitAttestation(a, sigs)
    PROVE  (SettledAtMostOnce /\ ProcessedIffSettled /\ UsageIsFlow)'
<1> DEFINE id == AttestationID(a)
<1> HIDE DEF id
<1>1. id \in AttestationIDs /\ settled \in [AttestationIDs -> Nat]
  BY DEF id, AttestationIDs, ReplayInv, TypeOK, HistoryTypeOK
<1>2. /\ id \notin processed
      /\ processed' = processed \cup {id}
      /\ settled' = [settled EXCEPT ![id] = @ + 1]
  BY DEF id, SubmitAttestation, AdmitAttestation
<1>3. settled[id] = 0
  BY <1>1, <1>2 DEF ReplayInv, ProcessedIffSettled
<1>4. SettledAtMostOnce'
  BY <1>1, <1>2, <1>3 DEF ReplayInv, SettledAtMostOnce
<1>5. ProcessedIffSettled'
  BY <1>1, <1>2, <1>3 DEF ReplayInv, ProcessedIffSettled
<1>6. UsageIsFlow'
  BY DEF ReplayInv, UsageIsFlow, SubmitAttestation, AdmitAttestation, CheckAndRecordLimits
<1> QED BY <1>4, <1>5, <1>6

(* A redemption leaves replay protection alone.                            *)
LEMMA OutboundReplay ==
    ASSUME ReplayInv, NEW routeID \in RouteIDs, NEW sender \in Account,
           NEW amount \in Amount, InitiateOutboundTransfer(routeID, sender, amount)
    PROVE  (SettledAtMostOnce /\ ProcessedIffSettled /\ UsageIsFlow)'
BY DEF ReplayInv, SettledAtMostOnce, ProcessedIffSettled, UsageIsFlow,
   InitiateOutboundTransfer, CheckAndRecordLimits

(* Every step without export and import preserves ReplayInv.               *)
LEMMA ReplayInvStep ==
    ASSUME ReplayInv, [Next]_vars
    PROVE  ReplayInv'
<1>1. TypeOK'
  BY StepType DEF ReplayInv
<1>2. CASE Administer \/ Environment \/ UNCHANGED vars
  <2>1. UNCHANGED <<settled, flow, processed, usage>>
    BY <1>2 DEF Administer, Environment, InitializeRouteConfig,
       EmergencyPauseRoute, PauseRoute, ResumeRoute, ResumePausedRoute,
       UpdateRouteConfig, ApplyRouteConfigUpdate,
       NextBlock, BankSend, vars, store, bank, history
  <2> QED BY <1>1, <2>1 DEF ReplayInv, SettledAtMostOnce, ProcessedIffSettled, UsageIsFlow
<1>3. CASE Transfer
  BY <1>1, <1>3, SubmitReplay, OutboundReplay DEF Transfer, ReplayInv
<1> QED BY <1>2, <1>3 DEF Next

(* Nothing is processed or settled in the state InitGenesis leaves.        *)
LEMMA ReplayInvInit == Init => ReplayInv
BY InitType DEF Init, ReplayInv, SettledAtMostOnce, ProcessedIffSettled, UsageIsFlow

(* A transfer identifier is settled at most once, for any number of        *)
(* attestations, signature lists and resubmissions.                        *)
THEOREM SettledOnceHolds == Spec => []SettledAtMostOnce
<1>1. ReplayInv => SettledAtMostOnce
  BY DEF ReplayInv
<1> QED BY <1>1, ReplayInvInit, ReplayInvStep, PTL DEF Spec

(* An identifier is used up exactly when its coins were minted.            *)
THEOREM ProcessedIffSettledHolds == Spec => []ProcessedIffSettled
<1>1. ReplayInv => ProcessedIffSettled
  BY DEF ReplayInv
<1> QED BY <1>1, ReplayInvInit, ReplayInvStep, PTL DEF Spec

(* What CheckAndRecordLimits recorded for a day is what moved on it.       *)
THEOREM UsageHolds == Spec => []UsageIsFlow
<1>1. ReplayInv => UsageIsFlow
  BY DEF ReplayInv
<1> QED BY <1>1, ReplayInvInit, ReplayInvStep, PTL DEF Spec

-----------------------------------------------------------------------------
(* The limits of the configuration in force bind every movement of value.  *)

LimitedStep ==
    Moved # 0 =>
        /\ RouteAvailable
        /\ Moved <= config.maxTransfer
        /\ flow'[DayOf(now)] <= config.dailyLimit
        /\ outstanding' > outstanding => outstanding' <= config.maxOutstanding

(* A settlement or redemption passes CheckAndRecordLimits before any coin  *)
(* moves.                                                                  *)
LEMMA TransferLimited ==
    ASSUME ReplayInv, Transfer
    PROVE  LimitedStep
<1>1. minted \in Nat /\ burned \in Nat /\ outstanding \in Nat
  BY DEF ReplayInv, TypeOK, StoreTypeOK, HistoryTypeOK
<1>2. DayOf(now) \in Day /\ flow \in [Day -> Nat]
  BY TodayIsADay DEF ReplayInv, TypeOK, HistoryTypeOK
<1>3. ASSUME NEW a \in Attestation, NEW sigs \in Signatures, SubmitAttestation(a, sigs)
      PROVE  LimitedStep
  <2>1. Moved = a.amount /\ a.amount \in Nat
    BY <1>1, <1>3, SubmitAmounts DEF ReplayInv, Moved
  <2>2. outstanding' <= config.maxOutstanding
    BY <1>3 DEF SubmitAttestation, SettleInbound
  <2>3. CheckAndRecordLimits(a.amount) /\ flow' = [flow EXCEPT ![DayOf(now)] = @ + a.amount]
    BY <1>3 DEF SubmitAttestation, AdmitAttestation
  <2>4. /\ RouteAvailable
        /\ a.amount <= config.maxTransfer
        /\ flow'[DayOf(now)] <= config.dailyLimit
    BY <1>2, <2>1, <2>3 DEF CheckAndRecordLimits, ReplayInv, UsageIsFlow
  <2> QED BY <2>1, <2>2, <2>4 DEF LimitedStep
<1>4. ASSUME NEW routeID \in RouteIDs, NEW sender \in Account, NEW amount \in Amount,
             InitiateOutboundTransfer(routeID, sender, amount)
      PROVE  LimitedStep
  <2>1. Moved = amount /\ amount \in Nat /\ ~(outstanding' > outstanding)
    BY <1>1, <1>4, OutboundAmounts DEF ReplayInv, Moved
  <2>2. CheckAndRecordLimits(amount) /\ flow' = [flow EXCEPT ![DayOf(now)] = @ + amount]
    BY <1>4 DEF InitiateOutboundTransfer
  <2>3. /\ RouteAvailable
        /\ amount <= config.maxTransfer
        /\ flow'[DayOf(now)] <= config.dailyLimit
    BY <1>2, <2>1, <2>2 DEF CheckAndRecordLimits, ReplayInv, UsageIsFlow
  <2> QED BY <2>1, <2>3 DEF LimitedStep
<1> QED BY <1>3, <1>4 DEF Transfer

(* Value moves only within the limits of the configuration in force,       *)
(* however it was changed during the day.                                  *)
THEOREM LimitsHold == Spec => MovesWithinLimits
<1>1. ReplayInv /\ [Next]_vars => [LimitedStep]_vars
  <2> SUFFICES ASSUME ReplayInv, Next PROVE LimitedStep
    OBVIOUS
  <2>1. CASE Administer \/ Environment
    <3>1. minted \in Nat /\ burned \in Nat
      BY DEF ReplayInv, TypeOK, HistoryTypeOK
    <3> QED BY <2>1, <3>1, OtherStepsKeepAmounts DEF LimitedStep, Moved, Amounts
  <2> QED BY <2>1, TransferLimited DEF Next
<1>2. Spec => [][LimitedStep]_vars
  BY <1>1, ReplayInvInit, ReplayInvStep, PTL DEF Spec
<1> QED BY <1>2 DEF LimitedStep, MovesWithinLimits

-----------------------------------------------------------------------------
(* Approvals. *)

(* The step of ChangesSpendApprovals.                                      *)
ApprovalStep ==
    /\ config # NoConfig /\ config' # config =>
         \E c \in ControlAction :
             Spent(c) /\ c.action = "update_route_config" /\ c.payload = config'
    /\ paused /\ ~paused' =>
         \E c \in ControlAction :
             Spent(c) /\ c.action = "resume_route" /\ c.payload = config

(* A configuration is replaced, and a pause lifted, only by an approval    *)
(* that was not applied before and names the configuration that then       *)
(* holds.                                                                  *)
THEOREM ApprovalsSpent == Spec => ChangesSpendApprovals
<1>1. [Next]_vars => [ApprovalStep]_vars
  <2> SUFFICES ASSUME Next PROVE ApprovalStep
    OBVIOUS
  <2>1. ASSUME NEW caller \in Account, NEW c \in RouteConfig, InitializeRouteConfig(caller, c)
        PROVE  ApprovalStep
    BY <2>1 DEF InitializeRouteConfig, ApprovalStep
  <2>2. ASSUME NEW p \in PauseAction, NEW sig \in Address, EmergencyPauseRoute(p, sig)
        PROVE  ApprovalStep
    BY <2>2 DEF EmergencyPauseRoute, PauseRoute, ApprovalStep
  <2>3. ASSUME NEW c \in ControlAction, NEW sigs \in Signatures, ResumeRoute(c, sigs)
        PROVE  ApprovalStep
    <3>1. Spent(c) /\ c.action = "resume_route" /\ c.payload = config /\ config' = config
      BY <2>3 DEF ResumeRoute, ResumePausedRoute, Spent
    <3> QED BY <3>1 DEF ApprovalStep
  <2>4. ASSUME NEW c \in ControlAction, NEW sigs \in Signatures, UpdateRouteConfig(c, sigs)
        PROVE  ApprovalStep
    <3>1. Spent(c) /\ c.action = "update_route_config" /\ c.payload = config' /\ paused' = paused
      BY <2>4 DEF UpdateRouteConfig, ApplyRouteConfigUpdate, Spent
    <3> QED BY <3>1 DEF ApprovalStep
  <2>5. CASE Transfer
    <3>1. UNCHANGED <<config, paused>>
      BY <2>5 DEF Transfer, SubmitAttestation, InitiateOutboundTransfer
    <3> QED BY <3>1 DEF ApprovalStep
  <2>6. CASE Environment
    <3>1. UNCHANGED <<config, paused>>
      BY <2>6 DEF Environment, NextBlock, BankSend, store
    <3> QED BY <3>1 DEF ApprovalStep
  <2> QED BY <2>1, <2>2, <2>3, <2>4, <2>5, <2>6 DEF Next, Administer
<1>2. Spec => [][ApprovalStep]_vars
  BY <1>1, PTL DEF Spec
<1> QED BY <1>2 DEF ApprovalStep, ChangesSpendApprovals

-----------------------------------------------------------------------------
(* Refinement of the escrow. *)

(* Every step of the module is a step of BridgeEscrow or leaves it alone.  *)
LEMMA RefinementStep ==
    ASSUME TypeOK, [Next]_vars
    PROVE  [Escrow!Next]_(Escrow!escrow)
<1>1. ASSUME NEW a \in Attestation, NEW sigs \in Signatures, SubmitAttestation(a, sigs)
      PROVE  Escrow!Next
  <2>1. AttestationID(a).amount = a.amount /\ AttestationID(a) \in AttestationIDs
    BY DEF AttestationID, AttestationIDs
  <2>2. /\ AttestationID(a) \notin processed
        /\ processed' = processed \cup {AttestationID(a)}
    BY <1>1 DEF SubmitAttestation, AdmitAttestation
  <2>3. a.amount > 0 /\ outstanding' = outstanding + a.amount /\ burned' = burned
    BY <1>1, SubmitAmounts
  <2>4. Escrow!Execute(AttestationID(a))
    BY <2>1, <2>2, <2>3 DEF Escrow!Execute
  <2> QED BY <2>1, <2>4 DEF Escrow!Next
<1>2. ASSUME NEW routeID \in RouteIDs, NEW sender \in Account, NEW amount \in Amount,
             InitiateOutboundTransfer(routeID, sender, amount)
      PROVE  Escrow!Next
  <2>1. Escrow!Redeem(amount)
    BY <1>2, OutboundAmounts DEF Escrow!Redeem, InitiateOutboundTransfer
  <2> QED BY <1>2, <2>1, OutboundAmounts DEF Escrow!Next
<1>3. CASE Administer \/ Environment \/ UNCHANGED vars
  <2>1. UNCHANGED <<processed, outstanding, burned>>
    BY <1>3 DEF Administer, Environment, InitializeRouteConfig,
       EmergencyPauseRoute, PauseRoute, ResumeRoute, ResumePausedRoute,
       UpdateRouteConfig, ApplyRouteConfigUpdate,
       NextBlock, BankSend, vars, store, bank, history
  <2> QED BY <2>1 DEF Escrow!escrow
<1> QED BY <1>1, <1>2, <1>3 DEF Next, Transfer

(* The handlers of x/bridge implement the escrow: every step executes one  *)
(* new transfer, redeems executed coins, or touches neither.               *)
THEOREM EscrowRefined == Spec => ImplementsEscrow
<1>1. Init => Escrow!Init
  BY DEF Init, Escrow!Init
<1>2. Init => TypeOK
  BY InitType
<1>3. TypeOK /\ [Next]_vars => TypeOK'
  BY StepType
<1>4. TypeOK /\ [Next]_vars => [Escrow!Next]_(Escrow!escrow)
  BY RefinementStep
<1> QED BY <1>1, <1>2, <1>3, <1>4, PTL DEF Spec, ImplementsEscrow, Escrow!Spec
=============================================================================
