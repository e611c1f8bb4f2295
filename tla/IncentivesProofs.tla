-------------------------- MODULE IncentivesProofs --------------------------
(***************************************************************************)
(* Proofs about Incentives, for every parameter set, deposit, stake and    *)
(* length of run.                                                          *)
(***************************************************************************)
EXTENDS Incentives, TLAPS

(* Integer division: what the rounding of the policy rests on.             *)
LEMMA DivNat == \A x \in Nat, m \in Nat \ {0} : x \div m \in Nat
OBVIOUS

(* Division rounded down, as in policy.go, is monotone.                    *)
LEMMA DivMonotone == \A x, y \in Nat, m \in Nat \ {0} : x <= y => x \div m <= y \div m
OBVIOUS

(* Multiplication of natural numbers is monotone.                          *)
LEMMA MulMonotone == \A a, k, l \in Nat : k <= l => a * k <= a * l
OBVIOUS

(* A whole multiple is divided without a remainder.                        *)
LEMMA DivWhole == \A a \in Nat, m \in Nat \ {0} : (a * m) \div m = a
OBVIOUS

(* A share rounded down is a natural number.                               *)
LEMMA ShareNat == \A a, k \in Nat, m \in Nat \ {0} : (a * k) \div m \in Nat
<1>1. \A a, k \in Nat : a * k \in Nat
  OBVIOUS
<1> QED BY <1>1, DivNat

(* A larger part has a share that is no smaller.                           *)
LEMMA ShareMonotone ==
    \A a, k, l \in Nat, m \in Nat \ {0} : k <= l => (a * k) \div m <= (a * l) \div m
<1>1. \A a, k \in Nat : a * k \in Nat
  OBVIOUS
<1> QED BY <1>1, MulMonotone, DivMonotone

(* A share k/m of an amount, rounded down, is at most the amount.          *)
LEMMA ShareBounded ==
    \A a, k \in Nat, m \in Nat \ {0} : k <= m => (a * k) \div m <= a
<1> TAKE a, k \in Nat, m \in Nat \ {0}
<1> HAVE k <= m
<1>1. (a * k) \div m <= (a * m) \div m
  BY ShareMonotone
<1> QED BY <1>1, DivWhole

-----------------------------------------------------------------------------
(* A new snapshot is a valid period within the treasury. *)
LEMMA NewPeriodValid ==
    ASSUME TypeOK, NEW h \in Nat
    PROVE  /\ NewPeriodState(h) \in PeriodRecord
           /\ ValidPeriod(NewPeriodState(h))
           /\ NewPeriodState(h).start = h
           /\ NewPeriodState(h).end = h + params.periodBlocks
           /\ NewPeriodState(h).distributed = 0
           /\ NewPeriodState(h).treasury = treasury
           /\ params.periodBlocks \in Nat \ {0}
<1> DEFINE capacity == AnnualizedRewardCapacity(treasury, params.rate)
           provision == IF bonded > 0
                        THEN PeriodProvision(capacity, params.periodBlocks, params.blocksPerYear)
                        ELSE 0
           apy == DerivedAPYBasisPoints(capacity, bonded)
           p == NewPeriodState(h)
<1>1. /\ params.rate \in Nat /\ params.rate <= BasisPointDenominator
      /\ params.periodBlocks \in Nat \ {0} /\ params.blocksPerYear \in Nat \ {0}
      /\ params.periodBlocks <= params.blocksPerYear
      /\ treasury \in Nat /\ bonded \in Nat
      /\ BasisPointDenominator \in Nat \ {0}
  BY ParamsAssumption, IncentivesAssumption DEF TypeOK, ValidParams
<1>2. capacity \in Nat /\ capacity <= treasury
  BY <1>1, ShareNat, ShareBounded DEF AnnualizedRewardCapacity
<1>3. provision \in Nat /\ provision <= treasury
  <2>1. PeriodProvision(capacity, params.periodBlocks, params.blocksPerYear) \in Nat
    BY <1>1, <1>2, ShareNat DEF PeriodProvision
  <2>2. PeriodProvision(capacity, params.periodBlocks, params.blocksPerYear) <= capacity
    BY <1>1, <1>2, ShareBounded DEF PeriodProvision
  <2> HIDE DEF capacity
  <2> QED BY <1>1, <1>2, <2>1, <2>2
<1>4. apy \in Nat
  BY <1>1, <1>2, ShareNat DEF DerivedAPYBasisPoints
<1>5. p = [start |-> h, end |-> h + params.periodBlocks, rate |-> params.rate,
           treasury |-> treasury, bonded |-> bonded, capacity |-> capacity,
           apy |-> apy, provision |-> provision, distributed |-> 0]
  BY DEF NewPeriodState
<1> HIDE DEF p, apy, provision, capacity
<1>6. p \in PeriodRecord
  BY <1>1, <1>2, <1>3, <1>4, <1>5 DEF PeriodRecord
<1>7. ValidPeriod(p)
  BY <1>1, <1>3, <1>5, <1>6, PeriodAssumption DEF ValidPeriod
<1>8. p.start = h /\ p.end = h + params.periodBlocks /\ p.distributed = 0 /\ p.treasury = treasury
  BY <1>5
<1> QED BY <1>1, <1>6, <1>7, <1>8 DEF p

(* The invariant: PeriodSolvent and ReleasedOnSchedule hold together, each *)
(* needs the other's bounds.                                               *)
ScheduleInv == TypeOK /\ PeriodSolvent /\ ReleasedOnSchedule

(* The period a block works on, just before its share is released.         *)
LEMMA ActivePeriodFacts ==
    ASSUME ScheduleInv, version = 2
    PROVE  LET h == height + 1
               p == ActivePeriod(h)
           IN  /\ p \in PeriodRecord
               /\ ValidPeriod(p)
               /\ p.start <= h /\ h < p.end
               /\ p.provision - p.distributed <= treasury
               /\ BlockShare(p, h) \in Nat
               /\ BlockShare(p, h) <= p.provision - p.distributed
               /\ p.distributed + BlockShare(p, h) =
                    CumulativeProvision(p.provision, h - p.start + 1, p.end - p.start)
               /\ h = p.end - 1 => p.distributed + BlockShare(p, h) = p.provision
<1> DEFINE h == height + 1
           p == ActivePeriod(h)
           cum(x) == CumulativeProvision(p.provision, x, p.end - p.start)
<1>1. h \in Nat /\ height \in Nat /\ treasury \in Nat
  BY DEF ScheduleInv, TypeOK
<1>2. /\ p \in PeriodRecord
      /\ ValidPeriod(p)
      /\ p.start <= h /\ h < p.end
      /\ p.provision - p.distributed <= treasury
      /\ p.distributed <= cum(h - p.start + 1)
  <2>1. CASE PeriodOver(h)
    <3>1. p = NewPeriodState(h)
      BY <2>1 DEF ActivePeriod
    <3>2. /\ p \in PeriodRecord /\ ValidPeriod(p)
          /\ p.start = h /\ p.end = h + params.periodBlocks
          /\ p.distributed = 0 /\ p.treasury = treasury
          /\ params.periodBlocks \in Nat \ {0}
      BY <1>1, <3>1, NewPeriodValid DEF ScheduleInv
    <3> HIDE DEF p, h
    <3>3. /\ p.provision \in Nat /\ p.provision <= treasury
          /\ p.start <= h /\ h < p.end /\ h - p.start + 1 \in Nat
          /\ p.end - p.start \in Nat \ {0}
      BY <1>1, <3>2 DEF ValidPeriod, PeriodRecord
    <3>4. cum(h - p.start + 1) \in Nat
      BY <3>3, ShareNat DEF CumulativeProvision
    <3>5. p.provision - p.distributed <= treasury /\ p.distributed <= cum(h - p.start + 1)
      <4> HIDE DEF cum
      <4> QED BY <3>2, <3>3, <3>4
    <3> QED BY <3>2, <3>3, <3>5
  <2>2. CASE ~PeriodOver(h)
    <3>1. p = period /\ period # NoPeriod /\ ~(h >= period.end)
      BY <2>2 DEF ActivePeriod, PeriodOver
    <3>2. InPeriod /\ period \in PeriodRecord
      BY <3>1 DEF InPeriod, ScheduleInv, TypeOK
    <3>3. /\ ValidPeriod(period) /\ period.provision - period.distributed <= treasury
          /\ height \in period.start..period.end - 1
          /\ period.distributed =
               CumulativeProvision(period.provision, height - period.start + 1,
                                   period.end - period.start)
      BY <3>2 DEF ScheduleInv, PeriodSolvent, ReleasedOnSchedule
    <3>4. /\ period.provision \in Nat /\ period.start \in Nat /\ period.end \in Nat
      BY <3>2 DEF PeriodRecord
    <3>5. /\ height - period.start + 1 \in Nat /\ h - period.start + 1 \in Nat
          /\ height - period.start + 1 <= h - period.start + 1
          /\ period.end - period.start \in Nat \ {0}
          /\ period.start <= h /\ h < period.end
      BY <1>1, <3>1, <3>3, <3>4
    <3>6. period.distributed <= CumulativeProvision(period.provision, h - period.start + 1,
                                                    period.end - period.start)
      BY <3>3, <3>4, <3>5, ShareMonotone DEF CumulativeProvision
    <3> QED BY <3>1, <3>2, <3>3, <3>5, <3>6
  <2> QED BY <2>1, <2>2
<1> HIDE DEF p, h
<1>3. /\ p.provision \in Nat /\ p.start \in Nat /\ p.end \in Nat /\ p.distributed \in Nat
      /\ h - p.start + 1 \in Nat /\ p.end - p.start \in Nat \ {0}
      /\ h - p.start + 1 <= p.end - p.start
  BY <1>1, <1>2 DEF PeriodRecord
<1>4. cum(h - p.start + 1) \in Nat /\ cum(h - p.start + 1) <= p.provision
  BY <1>3, ShareNat, ShareBounded DEF CumulativeProvision
<1>5. h = p.end - 1 => cum(h - p.start + 1) = p.provision
  <2> HAVE h = p.end - 1
  <2>1. h - p.start + 1 = p.end - p.start
    BY <1>1, <1>3
  <2> QED BY <1>3, <2>1, DivWhole DEF CumulativeProvision
<1>6. BlockShare(p, h) = cum(h - p.start + 1) - p.distributed
  BY DEF BlockShare
<1> HIDE DEF cum
<1>7. /\ BlockShare(p, h) \in Nat
      /\ BlockShare(p, h) <= p.provision - p.distributed
      /\ p.distributed + BlockShare(p, h) = cum(h - p.start + 1)
  BY <1>2, <1>3, <1>4, <1>6
<1>8. h = p.end - 1 => p.distributed + BlockShare(p, h) = p.provision
  BY <1>5, <1>7
<1> QED BY <1>2, <1>7, <1>8 DEF p, h, cum

(* No check of ProcessBlock fails while the invariant holds, except the    *)
(* one that the next period ends within the block numbers.                 *)
LEMMA BlockFailsOnOverflow ==
    ASSUME ScheduleInv, version = 2, ProcessBlockFails(height + 1)
    PROVE  PeriodOver(height + 1) /\ height + 1 > MaxUint64 - params.periodBlocks
<1> DEFINE h == height + 1
           p == ActivePeriod(h)
<1>1. h \in Nat /\ treasury \in Nat
  BY DEF ScheduleInv, TypeOK
<1>2. period # NoPeriod => ValidPeriod(period)
  BY DEF ScheduleInv, PeriodSolvent, InPeriod
<1>3. ValidPeriod(NewPeriodState(h))
  BY <1>1, NewPeriodValid DEF ScheduleInv
<1>4. /\ p \in PeriodRecord /\ p.start <= h /\ h < p.end
      /\ BlockShare(p, h) \in Nat
      /\ BlockShare(p, h) <= p.provision - p.distributed
      /\ p.provision - p.distributed <= treasury
  BY ActivePeriodFacts
<1> HIDE DEF p, h
<1>5. /\ ~(h < p.start) /\ ~(h >= p.end)
      /\ ~(BlockShare(p, h) < 0)
      /\ ~(BlockShare(p, h) > treasury)
      /\ ~(BlockShare(p, h) > p.provision - p.distributed)
  BY <1>1, <1>4 DEF PeriodRecord
<1> QED BY <1>2, <1>3, <1>5, Zenon DEF ProcessBlockFails, p, h

(* A block that succeeds keeps the period valid, covered and on schedule.  *)
LEMMA ProcessBlockStep ==
    ASSUME ScheduleInv, version = 2, ProcessBlock(height + 1), height' = height + 1,
           UNCHANGED <<version, authority, params, bonded, funded, halted>>
    PROVE  ScheduleInv'
<1> DEFINE h == height + 1
           p == ActivePeriod(h)
           amount == BlockShare(p, h)
           q == [p EXCEPT !.distributed = @ + amount]
<1>1. /\ period' = q
      /\ treasury' = treasury - amount
      /\ total' = total + amount
  BY DEF ProcessBlock
<1>2. h \in Nat /\ treasury \in Nat /\ total \in Nat /\ height' = h
  BY DEF ScheduleInv, TypeOK
<1>3. /\ p \in PeriodRecord
      /\ ValidPeriod(p)
      /\ p.start <= h /\ h < p.end
      /\ p.provision - p.distributed <= treasury
      /\ amount \in Nat
      /\ amount <= p.provision - p.distributed
      /\ p.distributed + amount =
           CumulativeProvision(p.provision, h - p.start + 1, p.end - p.start)
      /\ h = p.end - 1 => p.distributed + amount = p.provision
  BY ActivePeriodFacts
<1> HIDE DEF p, h, amount
<1>4. /\ q \in PeriodRecord
      /\ q.start = p.start /\ q.end = p.end /\ q.provision = p.provision
      /\ q.rate = p.rate /\ q.treasury = p.treasury
      /\ q.distributed = p.distributed + amount
  BY <1>3 DEF PeriodRecord
<1>5. p.start \in Nat /\ p.end \in Nat /\ p.provision \in Nat /\ p.distributed \in Nat
  BY <1>3 DEF PeriodRecord
<1> HIDE DEF q
<1>6. q # NoPeriod /\ q # LegacyPeriod
  BY <1>4, PeriodAssumption
<1>7. TypeOK'
  <2>1. treasury' \in Nat /\ total' \in Nat /\ height' \in Nat
    BY <1>1, <1>2, <1>3, <1>5
  <2> QED BY <1>1, <1>4, <2>1 DEF ScheduleInv, TypeOK
<1>8. ValidPeriod(q) /\ q.provision - q.distributed <= treasury'
  BY <1>1, <1>2, <1>3, <1>4, <1>5, <1>6 DEF ValidPeriod
<1>9. /\ h \in q.start..q.end - 1
      /\ q.distributed = CumulativeProvision(q.provision, h - q.start + 1, q.end - q.start)
      /\ h = q.end - 1 => q.distributed = q.provision
  BY <1>2, <1>3, <1>4, <1>5
<1> QED BY <1>1, <1>2, <1>7, <1>8, <1>9 DEF ScheduleInv, PeriodSolvent, ReleasedOnSchedule,
          ValidPeriod

(* A step that keeps the period and the block and takes nothing from the   *)
(* treasury, and one that leaves no period.                                *)
LEMMA KeepingStep ==
    ASSUME ScheduleInv, TypeOK', UNCHANGED <<version, period, height>>, treasury <= treasury'
    PROVE  ScheduleInv'
<1>1. InPeriod' <=> InPeriod
  BY DEF InPeriod
<1>2. InPeriod => period \in PeriodRecord
  BY DEF InPeriod, ScheduleInv, TypeOK
<1>3. treasury \in Nat /\ treasury' \in Nat
  BY DEF ScheduleInv, TypeOK
<1>4. PeriodSolvent'
  BY <1>1, <1>2, <1>3 DEF ScheduleInv, PeriodSolvent, ValidPeriod, PeriodRecord
<1>5. ReleasedOnSchedule'
  BY <1>1 DEF ScheduleInv, ReleasedOnSchedule
<1> QED BY <1>4, <1>5 DEF ScheduleInv

(* A state without a period satisfies the schedule.                        *)
LEMMA NoPeriodStep ==
    ASSUME TypeOK', period' = NoPeriod
    PROVE  ScheduleInv'
BY DEF ScheduleInv, PeriodSolvent, ReleasedOnSchedule, InPeriod

(* Migrate1to2 leaves valid parameters and no period.                      *)
LEMMA MigrationType ==
    ASSUME TypeOK, Migrate1to2, authority' \in {NoAuthority, Admin},
           UNCHANGED <<treasury, bonded, height, halted, funded>>
    PROVE  TypeOK'
BY ParamsAssumption, PeriodAssumption DEF TypeOK, Migrate1to2

(* Every step, export and import included, preserves ScheduleInv.          *)
LEMMA ScheduleStep ==
    ASSUME ScheduleInv, [Next \/ ExportImportGenesis]_vars
    PROVE  ScheduleInv'
<1>1. CASE BeginBlock
  <2>1. CASE ProcessBlockFails(height + 1)
    <3>1. /\ halted' = TRUE
          /\ UNCHANGED <<version, authority, params, period, total, treasury, bonded,
                         height, funded>>
      BY <1>1, <2>1 DEF BeginBlock
    <3>2. TypeOK'
      BY <3>1 DEF ScheduleInv, TypeOK
    <3> QED BY <3>1, <3>2, KeepingStep DEF ScheduleInv, TypeOK
  <2>2. CASE ~ProcessBlockFails(height + 1)
    BY <1>1, <2>2, ProcessBlockStep DEF BeginBlock
  <2> QED BY <2>1, <2>2
<1>2. ASSUME NEW caller \in Account, NEW next \in Params, UpdateParams(caller, next)
      PROVE  ScheduleInv'
  <2>1. TypeOK'
    BY <1>2 DEF ScheduleInv, TypeOK, UpdateParams
  <2> QED BY <1>2, <2>1, KeepingStep DEF UpdateParams, ScheduleInv, TypeOK
<1>3. CASE Upgrade
  <2>1. TypeOK' /\ period' = NoPeriod
    BY <1>3, MigrationType DEF ScheduleInv, TypeOK, Upgrade, Migrate1to2
  <2> QED BY <2>1, NoPeriodStep
<1>4. CASE GovernanceSafeguards
  <2>1. CASE version = 0
    <3>1. TypeOK' /\ period' = NoPeriod
      BY <1>4, <2>1, ParamsAssumption
         DEF GovernanceSafeguards, Migrate1to2, ScheduleInv, TypeOK
    <3> QED BY <3>1, NoPeriodStep
  <2>2. CASE Migrate1to2
    <3>1. TypeOK' /\ period' = NoPeriod
      BY <1>4, <2>2, MigrationType DEF GovernanceSafeguards, Migrate1to2, ScheduleInv
    <3> QED BY <3>1, NoPeriodStep
  <2>3. CASE version = 2 /\ UNCHANGED <<version, params, period, total>>
    <3>1. TypeOK'
      BY <1>4, <2>3 DEF GovernanceSafeguards, ScheduleInv, TypeOK
    <3> QED BY <1>4, <2>3, <3>1, KeepingStep DEF GovernanceSafeguards, ScheduleInv, TypeOK
  <2> QED BY <1>4, <2>1, <2>2, <2>3 DEF GovernanceSafeguards
<1>5. ASSUME NEW amount \in Deposit, Fund(amount)
      PROVE  ScheduleInv'
  <2>1. amount \in Nat /\ treasury' = treasury + amount /\ funded' = funded + amount
        /\ UNCHANGED <<version, authority, params, period, total, bonded, height, halted>>
    BY <1>5, IncentivesAssumption DEF Fund, store
  <2>2. TypeOK' /\ treasury <= treasury'
    BY <2>1 DEF ScheduleInv, TypeOK
  <2> QED BY <2>1, <2>2, KeepingStep
<1>6. ASSUME NEW b \in Bonded, Delegate(b)
      PROVE  ScheduleInv'
  <2>1. bonded' = b /\ UNCHANGED <<version, authority, params, period, total, treasury,
                                   height, halted, funded>>
    BY <1>6 DEF Delegate, store
  <2>2. TypeOK' /\ treasury <= treasury'
    BY <2>1 DEF ScheduleInv, TypeOK
  <2> QED BY <2>1, <2>2, KeepingStep
<1>7. CASE ExportImportGenesis
  <2>1. TypeOK' /\ period' = NoPeriod
    BY <1>7 DEF ExportImportGenesis, ScheduleInv, TypeOK
  <2> QED BY <2>1, NoPeriodStep
<1>8. CASE UNCHANGED vars
  <2>1. UNCHANGED <<version, authority, params, period, total, treasury, bonded, height,
                    halted, funded>>
    BY <1>8 DEF vars, store
  <2>2. TypeOK' /\ treasury <= treasury'
    BY <2>1 DEF ScheduleInv, TypeOK
  <2> QED BY <2>1, <2>2, KeepingStep
<1> QED BY <1>1, <1>2, <1>3, <1>4, <1>5, <1>6, <1>7, <1>8 DEF Next

(* Every initial state satisfies ScheduleInv.                              *)
LEMMA ScheduleInit == Init => ScheduleInv
<1> SUFFICES ASSUME Init PROVE ScheduleInv
  OBVIOUS
<1>1. ~InPeriod
  BY DEF Init, InPeriod
<1>2. TypeOK
  <2>1. total \in Nat /\ treasury \in Nat /\ funded \in Nat /\ height \in Nat
    BY IncentivesAssumption DEF Init
  <2>2. /\ version \in 0..2 /\ bonded \in Bonded
        /\ \/ version # 1 /\ period = NoPeriod
           \/ version = 1 /\ period = LegacyPeriod
    BY DEF Init
  <2>3. /\ authority \in {NoAuthority, Admin}
        /\ params \in {p \in Params : ValidParams(p)}
    BY ParamsAssumption DEF Init
  <2>4. halted \in BOOLEAN
    BY DEF Init
  <2> QED BY <2>1, <2>2, <2>3, <2>4 DEF TypeOK
<1> QED BY <1>1, <1>2 DEF ScheduleInv, PeriodSolvent, ReleasedOnSchedule

(* Stored values keep their types; in particular no block overdraws the    *)
(* treasury and no upgrade leaves an obsolete period behind.               *)
THEOREM TypeCorrect == GenesisSpec => []TypeOK
<1>1. ScheduleInv => TypeOK
  BY DEF ScheduleInv
<1> QED BY <1>1, ScheduleInit, ScheduleStep, PTL DEF GenesisSpec

(* The treasury always covers the rest of the running period.              *)
THEOREM SolventAlways == GenesisSpec => []PeriodSolvent
<1>1. ScheduleInv => PeriodSolvent
  BY DEF ScheduleInv
<1> QED BY <1>1, ScheduleInit, ScheduleStep, PTL DEF GenesisSpec

(* Every block releases exactly the rounded share that is due, and the     *)
(* last block of a period completes its provision.                         *)
THEOREM ScheduleKept == GenesisSpec => []ReleasedOnSchedule
<1>1. ScheduleInv => ReleasedOnSchedule
  BY DEF ScheduleInv
<1> QED BY <1>1, ScheduleInit, ScheduleStep, PTL DEF GenesisSpec

(* A halted chain has the current version, so that no migration changes    *)
(* the parameters and the period it stopped at.                            *)
HaltInv == ScheduleInv /\ HaltsOnlyOnOverflow /\ (halted => version = 2)

(* Every step preserves HaltInv.                                           *)
LEMMA HaltStep ==
    ASSUME HaltInv, [Next \/ ExportImportGenesis]_vars
    PROVE  HaltInv'
<1>1. ScheduleInv'
  BY ScheduleStep DEF HaltInv
<1>2. CASE ~halted'
  BY <1>1, <1>2 DEF HaltInv, HaltsOnlyOnOverflow
<1>3. CASE halted' /\ ~halted
  <2>1. /\ version = 2 /\ ProcessBlockFails(height + 1)
        /\ UNCHANGED <<version, period, params, height>>
    BY <1>3 DEF Next, BeginBlock, UpdateParams, Upgrade, GovernanceSafeguards, Fund,
       Delegate, ExportImportGenesis, vars, store
  <2>2. PeriodOver(height + 1) /\ height + 1 > MaxUint64 - params.periodBlocks
    BY <2>1, BlockFailsOnOverflow DEF HaltInv
  <2> QED BY <1>1, <2>1, <2>2 DEF HaltInv, HaltsOnlyOnOverflow, PeriodOver
<1>4. CASE halted
  <2>1. UNCHANGED <<version, halted, period, params, height>>
    BY <1>4 DEF HaltInv, Next, BeginBlock, UpdateParams, Upgrade, Migrate1to2,
       GovernanceSafeguards, Fund, Delegate, ExportImportGenesis, vars, store
  <2> QED BY <1>1, <2>1 DEF HaltInv, HaltsOnlyOnOverflow, PeriodOver
<1> QED BY <1>2, <1>3, <1>4

(* The only block that cannot be executed is one that would start a period *)
(* ending beyond the last block number.                                    *)
THEOREM OnlyOverflowHalts == GenesisSpec => []HaltsOnlyOnOverflow
<1>1. Init => HaltInv
  BY ScheduleInit DEF HaltInv, Init, HaltsOnlyOnOverflow
<1>2. HaltInv => HaltsOnlyOnOverflow
  BY DEF HaltInv
<1> QED BY <1>1, <1>2, HaltStep, PTL DEF GenesisSpec

-----------------------------------------------------------------------------
(* Accounting and periods. *)

(* Before the module exists nothing has been paid out.                     *)
LifetimeInv == ScheduleInv /\ LifetimeAccounting /\ (version = 0 => total = 0)

(* Every step preserves LifetimeInv.                                       *)
LEMMA LifetimeStep ==
    ASSUME LifetimeInv, [Next \/ ExportImportGenesis]_vars
    PROVE  LifetimeInv'
<1>1. ScheduleInv'
  BY ScheduleStep DEF LifetimeInv
<1>a. version' = 0 => total' = 0
  BY DEF LifetimeInv, Next, BeginBlock, UpdateParams, Upgrade, GovernanceSafeguards,
     Migrate1to2, Fund, Delegate, ExportImportGenesis, vars, store
<1> SUFFICES LifetimeAccounting'
  BY <1>1, <1>a DEF LifetimeInv
<1>2. total \in Nat /\ treasury \in Nat /\ funded \in Nat
  BY DEF LifetimeInv, ScheduleInv, TypeOK
<1>3. ASSUME UNCHANGED <<total, treasury, funded>>
      PROVE  LifetimeAccounting'
  BY <1>3 DEF LifetimeInv, LifetimeAccounting
<1>4. CASE BeginBlock
  <2>1. CASE ProcessBlockFails(height + 1)
    BY <1>3, <1>4, <2>1 DEF BeginBlock
  <2>2. CASE ~ProcessBlockFails(height + 1)
    <3> DEFINE amount == BlockShare(ActivePeriod(height + 1), height + 1)
    <3>1. amount \in Nat
      BY <1>4, ActivePeriodFacts DEF LifetimeInv, BeginBlock
    <3>2. treasury' = treasury - amount /\ total' = total + amount /\ funded' = funded
      BY <1>4, <2>2 DEF BeginBlock, ProcessBlock
    <3> HIDE DEF amount
    <3> QED BY <1>2, <3>1, <3>2 DEF LifetimeInv, LifetimeAccounting
  <2> QED BY <2>1, <2>2
<1>5. ASSUME NEW amount \in Deposit, Fund(amount)
      PROVE  LifetimeAccounting'
  BY <1>2, <1>5, IncentivesAssumption DEF Fund, store, LifetimeInv, LifetimeAccounting
<1>6. CASE GovernanceSafeguards
  BY <1>3, <1>6 DEF GovernanceSafeguards, Migrate1to2, LifetimeInv
<1>7. CASE ExportImportGenesis
  BY <1>2, <1>7 DEF ExportImportGenesis, LifetimeAccounting
<1>8. CASE /\ ~BeginBlock /\ ~GovernanceSafeguards /\ ~ExportImportGenesis
           /\ ~\E amount \in Deposit : Fund(amount)
  <2>1. UNCHANGED <<total, treasury, funded>>
    BY <1>8 DEF Next, UpdateParams, Upgrade, Migrate1to2, Delegate, vars, store
  <2> QED BY <1>3, <2>1
<1> QED BY <1>4, <1>5, <1>6, <1>7, <1>8

(* What the treasury was given since the chain started is what it holds    *)
(* and what the blocks have paid out, across every migration.              *)
THEOREM LifetimeAccountingHolds == GenesisSpec => []LifetimeAccounting
<1>1. Init => LifetimeInv
  BY ScheduleInit DEF LifetimeInv, Init, LifetimeAccounting
<1>2. LifetimeInv => LifetimeAccounting
  BY DEF LifetimeInv
<1> QED BY <1>1, <1>2, LifetimeStep, PTL DEF GenesisSpec

(* What BeginBlock does to a running period, in the terms of               *)
(* PeriodsRunToTheirEnd.                                                   *)
LEMMA BlockContinuesPeriod ==
    ASSUME ScheduleInv, InPeriod, BeginBlock, ~ProcessBlockFails(height + 1)
    PROVE  /\ InPeriod'
           /\ \/ /\ period' = [period EXCEPT !.distributed = period'.distributed]
                 /\ period'.distributed >= period.distributed
              \/ /\ period'.start = period.end
                 /\ period.distributed = period.provision
<1> DEFINE h == height + 1
           p == ActivePeriod(h)
           amount == BlockShare(p, h)
<1>1. /\ period \in PeriodRecord
      /\ height \in period.start..period.end - 1
      /\ height = period.end - 1 => period.distributed = period.provision
  BY DEF ScheduleInv, ReleasedOnSchedule, InPeriod, TypeOK
<1>2. /\ period.start \in Nat /\ period.end \in Nat /\ period.distributed \in Nat
      /\ height \in Nat
  BY <1>1 DEF PeriodRecord, ScheduleInv, TypeOK
<1>3. p \in PeriodRecord /\ amount \in Nat
  BY ActivePeriodFacts DEF BeginBlock
<1>4. period' = [p EXCEPT !.distributed = @ + amount]
  BY DEF BeginBlock, ProcessBlock
<1>a. InPeriod'
  <2> HIDE DEF p, amount
  <2>1. period' \in PeriodRecord
    BY <1>3, <1>4 DEF PeriodRecord
  <2> QED BY <2>1, PeriodAssumption DEF InPeriod, BeginBlock
<1>5. CASE PeriodOver(h)
  <2>1. p.start = h
    BY <1>5 DEF ActivePeriod, NewPeriodState
  <2>2. h = period.end
    BY <1>1, <1>2, <1>5 DEF PeriodOver, InPeriod
  <2> HIDE DEF p, amount
  <2>3. period'.start = h
    BY <1>3, <1>4, <2>1 DEF PeriodRecord
  <2> QED BY <1>a, <1>1, <1>2, <2>2, <2>3
<1>6. CASE ~PeriodOver(h)
  <2>1. p = period
    BY <1>6 DEF ActivePeriod
  <2> HIDE DEF p, amount
  <2>2. /\ period'.distributed = period.distributed + amount
        /\ period' = [period EXCEPT !.distributed = period'.distributed]
    BY <1>1, <1>4, <2>1 DEF PeriodRecord
  <2> QED BY <1>a, <1>2, <1>3, <2>2
<1> QED BY <1>5, <1>6

(* A period keeps what its snapshot made it until its last block has       *)
(* completed its provision; a restart drops it and leaves the rest of the  *)
(* provision in the treasury.                                              *)
THEOREM PeriodsComplete == GenesisSpec => PeriodsRunToTheirEnd
<1> DEFINE Step == InPeriod =>
              \/ /\ InPeriod'
                 /\ period' = [period EXCEPT !.distributed = period'.distributed]
                 /\ period'.distributed >= period.distributed
              \/ /\ InPeriod'
                 /\ period'.start = period.end
                 /\ period.distributed = period.provision
              \/ /\ ExportImportGenesis
                 /\ period.provision - period.distributed <= treasury'
<1>1. ScheduleInv /\ [Next \/ ExportImportGenesis]_vars => [Step]_vars
  <2> SUFFICES ASSUME ScheduleInv, [Next \/ ExportImportGenesis]_vars, InPeriod
               PROVE  Step
    OBVIOUS
  <2>1. period \in PeriodRecord
    BY DEF ScheduleInv, TypeOK, InPeriod
  <2>2. CASE BeginBlock /\ ~ProcessBlockFails(height + 1)
    BY <2>2, BlockContinuesPeriod
  <2>3. CASE ExportImportGenesis
    BY <2>3 DEF ExportImportGenesis, ScheduleInv, PeriodSolvent
  <2>4. CASE ~(BeginBlock /\ ~ProcessBlockFails(height + 1)) /\ ~ExportImportGenesis
    <3>1. period' = period /\ InPeriod'
      BY <2>4 DEF Next, BeginBlock, UpdateParams, Upgrade, GovernanceSafeguards,
         Migrate1to2, Fund, Delegate, InPeriod, vars, store
    <3> QED BY <2>1, <3>1 DEF PeriodRecord
  <2> QED BY <2>2, <2>3, <2>4
<1>2. ScheduleInv /\ [Next \/ ExportImportGenesis]_vars => ScheduleInv'
  BY ScheduleStep
<1> QED BY <1>1, <1>2, ScheduleInit, PTL DEF GenesisSpec, PeriodsRunToTheirEnd
=============================================================================
