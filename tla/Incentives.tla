----------------------------- MODULE Incentives -----------------------------
(***************************************************************************)
(* The validator incentive module: the treasury whose balance is released  *)
(* to the fee collector, block by block, in periods of a fixed number of   *)
(* blocks (x/validatorincentives), with the upgrade handlers and the       *)
(* genesis handlers that touch its store.                                  *)
(*                                                                         *)
(* BeginBlock runs ProcessBlock once per block before any message.  An     *)
(* error returned by it is not rolled back like that of a message: the     *)
(* block cannot be executed and the chain stops, which is halted.          *)
(***************************************************************************)
EXTENDS Integers, FiniteSets

CONSTANTS
    BasisPointDenominator, \* 10 000 in the code
    MaxUint64,             \* the largest block number of the code's type
    DefaultParams,         \* types.DefaultParams
    Params,                \* the parameters a message may carry
    Account,               \* the senders of messages
    Admin,                 \* the administrative authority of the upgrades
    NoAuthority,           \* "" in the code
    NoPeriod,              \* "no period is stored"
    LegacyPeriod,          \* a period of version 1, which does not validate
    Deposit,               \* the amounts that may be sent to the treasury
    Bonded,                \* the totals of bonded stake
    MaxHeight,             \* bound: the last block explored
    MaxFunded              \* bound: the coins ever sent to the treasury

(* Params.Validate.                                                        *)
ValidParams(p) ==
    /\ p.rate <= BasisPointDenominator
    /\ p.periodBlocks > 0
    /\ p.periodBlocks <= p.blocksPerYear

ASSUME ParamsAssumption ==
    /\ BasisPointDenominator \in Nat \ {0}
    /\ Params \subseteq [rate : Nat, blocksPerYear : Nat, periodBlocks : Nat]
    /\ DefaultParams \in Params
    /\ ValidParams(DefaultParams)

ASSUME IncentivesAssumption ==
    /\ Admin \in Account /\ NoAuthority \notin Account
    /\ Deposit \subseteq Nat /\ Bonded \subseteq Nat /\ 0 \in Bonded
    /\ MaxUint64 \in Nat /\ MaxHeight \in Nat /\ MaxFunded \in Nat

PeriodRecord ==
    [start : Nat, end : Nat, rate : Nat, treasury : Nat, bonded : Nat,
     capacity : Nat, apy : Nat, provision : Nat, distributed : Nat]

ASSUME PeriodAssumption ==
    NoPeriod \notin PeriodRecord /\ LegacyPeriod \notin PeriodRecord /\ NoPeriod # LegacyPeriod

VARIABLES
    version,   \* the consensus version of the module's store; 0: no store
    authority, \* AuthorityKey
    params,    \* ParamsKey
    period,    \* PeriodStateKey: a period, NoPeriod or LegacyPeriod
    total,     \* TotalDistributedKey
    treasury,  \* bank: the balance of the treasury account
    bonded,    \* staking: TotalValidatorPower
    height,    \* the last block begun
    halted,    \* whether a block could not be executed
    funded     \* history: the coins the treasury had at the start and was sent since

store == <<version, authority, params, period, total>>
vars == <<store, treasury, bonded, height, halted, funded>>

-----------------------------------------------------------------------------
(* types/policy.go *)

AnnualizedRewardCapacity(balance, rate) == (balance * rate) \div BasisPointDenominator

PeriodProvision(capacity, periodBlocks, blocksPerYear) ==
    (capacity * periodBlocks) \div blocksPerYear

DerivedAPYBasisPoints(capacity, eligible) ==
    IF eligible = 0 THEN 0 ELSE (capacity * BasisPointDenominator) \div eligible

(* Faulty: the share of one block, rounded, times the blocks.              *)
CumulativeProvisionByBlock(provision, elapsed, blocks) ==
    (provision \div blocks) * elapsed

CumulativeProvision(provision, elapsed, blocks) == (provision * elapsed) \div blocks

-----------------------------------------------------------------------------
(* Periods *)

(* The snapshot SnapshotPeriod takes at block h.                           *)
NewPeriodState(h) ==
    LET capacity == AnnualizedRewardCapacity(treasury, params.rate)
    IN  [start |-> h, end |-> h + params.periodBlocks, rate |-> params.rate,
         treasury |-> treasury, bonded |-> bonded, capacity |-> capacity,
         apy |-> DerivedAPYBasisPoints(capacity, bonded),
         provision |-> IF bonded > 0
                       THEN PeriodProvision(capacity, params.periodBlocks, params.blocksPerYear)
                       ELSE 0,
         distributed |-> 0]

(* PeriodState.Validate, which every write and every read of the period    *)
(* applies.                                                                *)
ValidPeriod(p) ==
    /\ p # LegacyPeriod
    /\ p.end > p.start
    /\ p.rate <= BasisPointDenominator
    /\ p.distributed <= p.provision
    /\ p.provision <= p.treasury

(* Faulty: a period lasts one block longer than it says.                   *)
PeriodOverLate(h) == period = NoPeriod \/ h > period.end

(* Faulty: every change of the treasury starts a new period.               *)
PeriodOverOnFunding(h) ==
    period = NoPeriod \/ h >= period.end \/ treasury > period.treasury

PeriodOver(h) == period = NoPeriod \/ h >= period.end

ActivePeriod(h) == IF PeriodOver(h) THEN NewPeriodState(h) ELSE period

BlockShare(p, h) ==
    CumulativeProvision(p.provision, h - p.start + 1, p.end - p.start) - p.distributed

(* The errors of GetPeriodState, SnapshotPeriod, ProcessBlock,             *)
(* SendToModule and RecordDistribution.                                    *)
ProcessBlockFails(h) ==
    \/ period # NoPeriod /\ ~ValidPeriod(period)
    \/ PeriodOver(h) /\ h > MaxUint64 - params.periodBlocks
    \/ PeriodOver(h) /\ ~ValidPeriod(NewPeriodState(h))
    \/ LET p == ActivePeriod(h)
       IN  \/ h < p.start \/ h >= p.end
           \/ BlockShare(p, h) < 0
           \/ BlockShare(p, h) > treasury
           \/ BlockShare(p, h) > p.provision - p.distributed

-----------------------------------------------------------------------------
(* A chain of the current version, a chain of version 1 with a period and  *)
(* a lifetime total of its own, or a chain without the module.             *)
Init ==
    /\ version \in {0, 1, 2}
    /\ authority \in IF version = 0 THEN {NoAuthority} ELSE {NoAuthority, Admin}
    /\ params \in IF version = 0 THEN {DefaultParams} ELSE {p \in Params : ValidParams(p)}
    /\ period = IF version = 1 THEN LegacyPeriod ELSE NoPeriod
    /\ total \in IF version = 1 THEN 0..1 ELSE {0}
    /\ treasury \in Deposit
    /\ bonded \in Bonded
    /\ height = 0
    /\ halted = FALSE
    /\ funded = treasury + total

ProcessBlock(h) ==
    LET p == ActivePeriod(h)
        amount == BlockShare(p, h)
    IN  /\ period' = [p EXCEPT !.distributed = @ + amount]
        /\ treasury' = treasury - amount
        /\ total' = total + amount

(* A failed block changes nothing that is stored.                          *)
BeginBlock ==
    /\ version = 2
    /\ ~halted
    /\ height < MaxHeight
    /\ IF ProcessBlockFails(height + 1)
       THEN /\ halted' = TRUE
            /\ UNCHANGED <<period, total, treasury, height>>
       ELSE /\ ProcessBlock(height + 1)
            /\ height' = height + 1
            /\ UNCHANGED halted
    /\ UNCHANGED <<version, authority, params, bonded, funded>>

UpdateParams(caller, next) ==
    /\ version = 2
    /\ ~halted
    /\ caller = authority
    /\ ValidParams(next)
    /\ params' = next
    /\ UNCHANGED <<version, authority, period, total, treasury, bonded, height,
                   halted, funded>>

-----------------------------------------------------------------------------
(* Upgrades and genesis *)

(* Faulty: the lifetime total starts again.                                *)
Migrate1to2Afresh ==
    /\ version = 1
    /\ version' = 2
    /\ params' = DefaultParams
    /\ period' = NoPeriod
    /\ total' = 0

Migrate1to2 ==
    /\ version = 1
    /\ version' = 2
    /\ params' = DefaultParams
    /\ period' = NoPeriod
    /\ UNCHANGED total

(* An upgrade that only runs the pending migrations, before the first      *)
(* BeginBlock of the new version.                                          *)
Upgrade ==
    /\ Migrate1to2
    /\ UNCHANGED <<authority, treasury, bonded, height, halted, funded>>

(* The governance-safeguards upgrade: creates the module's state where it  *)
(* does not exist, sets the authority where it does, and runs the pending  *)
(* migrations.                                                             *)
GovernanceSafeguards ==
    /\ ~halted
    /\ authority' = Admin
    /\ \/ /\ version = 0
          /\ version' = 2
          /\ params' = DefaultParams
          /\ total' = 0
          /\ UNCHANGED period
       \/ Migrate1to2
       \/ /\ version = 2
          /\ UNCHANGED <<version, params, period, total>>
    /\ UNCHANGED <<treasury, bonded, height, halted, funded>>

(* The chain is exported and started again: only the authority and the     *)
(* parameters are part of the module's genesis, and the history starts     *)
(* again with what is in the treasury.                                     *)
ExportImportGenesis ==
    /\ version = 2
    /\ ~halted
    /\ period' = NoPeriod
    /\ total' = 0
    /\ funded' = treasury
    /\ UNCHANGED <<version, authority, params, treasury, bonded, height, halted>>

-----------------------------------------------------------------------------
(* The chain around the module *)

(* Anyone may send coins to the treasury account.                          *)
Fund(amount) ==
    /\ ~halted
    /\ funded + amount <= MaxFunded
    /\ treasury' = treasury + amount
    /\ funded' = funded + amount
    /\ UNCHANGED <<store, bonded, height, halted>>

Delegate(b) ==
    /\ ~halted
    /\ bonded' = b
    /\ UNCHANGED <<store, treasury, height, halted, funded>>

Next ==
    \/ BeginBlock
    \/ \E caller \in Account, next \in Params : UpdateParams(caller, next)
    \/ Upgrade
    \/ GovernanceSafeguards
    \/ \E amount \in Deposit : Fund(amount)
    \/ \E b \in Bonded : Delegate(b)

(* The chain, which may also be exported and started again.                *)
GenesisSpec == Init /\ [][Next \/ ExportImportGenesis]_vars

-----------------------------------------------------------------------------
(* Properties *)

(* Every stored value has its type, the treasury is never overdrawn, and   *)
(* an obsolete period is never left to the current version.                *)
TypeOK ==
    /\ version \in 0..2
    /\ authority \in {NoAuthority, Admin}
    /\ params \in {p \in Params : ValidParams(p)}
    /\ \/ version # 1 /\ period = NoPeriod
       \/ version = 1 /\ period = LegacyPeriod
       \/ version = 2 /\ period \in PeriodRecord
    /\ total \in Nat
    /\ treasury \in Nat
    /\ bonded \in Bonded
    /\ height \in Nat
    /\ halted \in BOOLEAN
    /\ funded \in Nat

InPeriod == version = 2 /\ period # NoPeriod

(* The treasury covers what is left to release of the running period,      *)
(* however parameters, stake and funding changed since the snapshot.       *)
PeriodSolvent ==
    InPeriod => ValidPeriod(period) /\ period.provision - period.distributed <= treasury

(* After every block exactly the rounded share of the blocks so far is     *)
(* released: rounding never accumulates, and the last block completes the  *)
(* provision.                                                              *)
ReleasedOnSchedule ==
    InPeriod =>
        /\ height \in period.start..period.end - 1
        /\ period.distributed =
             CumulativeProvision(period.provision, height - period.start + 1,
                                 period.end - period.start)
        /\ height = period.end - 1 => period.distributed = period.provision

(* BeginBlock fails in one case only: the next period would end beyond the *)
(* last block number.  Params.Validate bounds the period by the year and   *)
(* the year by nothing, so UpdateParams accepts such a period, and the     *)
(* chain stops when the running one is over.  Nothing else stops it: not a *)
(* short treasury, no stake, a migrated store or rounding.                 *)
HaltsOnlyOnOverflow ==
    halted => PeriodOver(height + 1) /\ height + 1 > MaxUint64 - params.periodBlocks

(* Everything sent to the treasury since the chain started, and what was   *)
(* in it at that time, is in it or in the lifetime total, upgrades         *)
(* included ("cumulative transfers cannot exceed verified treasury         *)
(* funding", "Lifetime distribution accounting remains").  An export and a *)
(* new start begins a new lifetime: InitGenesis sets the total to zero.    *)
LifetimeAccounting == funded = treasury + total

(* A running period is what its snapshot made it and releases only         *)
(* forward: deposits, parameter and stake changes wait for the next one,   *)
(* which starts exactly at its end with its provision released in full.    *)
(* Only an export and a new start drops a period before that, and leaves   *)
(* the rest of its provision in the treasury.                              *)
PeriodsRunToTheirEnd ==
    [][InPeriod =>
         \/ /\ InPeriod'
            /\ period' = [period EXCEPT !.distributed = period'.distributed]
            /\ period'.distributed >= period.distributed
         \/ /\ InPeriod'
            /\ period'.start = period.end
            /\ period.distributed = period.provision
         \/ /\ ExportImportGenesis
            /\ period.provision - period.distributed <= treasury']_vars
=============================================================================
