----------------------------- MODULE FeeMarket ------------------------------
(***************************************************************************)
(* The base fee (x/feemarket): BeginBlock computes it from the gas that    *)
(* EndBlock recorded in the block before, and governance may replace the   *)
(* parameters, the base fee among them, in any block.                      *)
(*                                                                         *)
(* Prices are decimals of a fixed precision; a price is represented by the *)
(* integer the code stores for it.  Multiplying a decimal by an integer is *)
(* exact and QuoInt truncates, so the arithmetic is that of integers.  The *)
(* gas limit of blocks is a consensus parameter, -1 when there is none.    *)
(***************************************************************************)
EXTENDS Integers, FiniteSetsExt

CONSTANTS
    ParamsChoice,    \* parameter sets: of genesis and of MsgUpdateParams
    Gas,             \* gas wanted and gas used of a block
    MaxGas,          \* values of the consensus parameter Block.MaxGas
    Precision,       \* the integer that represents 1
    minUnitGas,      \* LegacyOneDec divided by the factor of the coin
    MaxUint64, MaxInt64,
    MaxHeight        \* bound: blocks

(* Params.Validate                                                         *)
Valid(p) ==
    /\ p.BaseFeeChangeDenominator # 0 /\ p.BaseFee >= 0 /\ p.EnableHeight >= 0
    /\ p.ElasticityMultiplier # 0
    /\ p.MinGasMultiplier >= 0 /\ p.MinGasMultiplier <= Precision
    /\ p.MinGasPrice >= 0

(* A proposal is refused when it carries parameters that Validate refuses. *)
ValidateBasic(p) == Valid(p)

(* GenesisState.Validate, which the module's ValidateGenesis applies.      *)
ValidateGenesis(p) == Valid(p)

(* The types of the parameters, the gas counters and the prices.           *)
ParamsType ==
    [NoBaseFee : BOOLEAN, BaseFeeChangeDenominator : Nat, ElasticityMultiplier : Nat,
     EnableHeight : Int, BaseFee : Int, MinGasPrice : Int, MinGasMultiplier : Int]

ConstantsTyped ==
    /\ ParamsChoice \subseteq ParamsType
    /\ Gas \subseteq Nat /\ MaxGas \subseteq Nat \cup {-1}
    /\ Precision \in Nat \ {0} /\ minUnitGas \in 1..Precision
    /\ MaxInt64 \in Nat /\ MaxUint64 \in Nat

VARIABLES
    params,
    blockGasWanted,  \* KeyPrefixBlockGasWanted
    maxGas,          \* Block.MaxGas of the consensus parameters
    height,
    phase            \* "begin": before BeginBlock, "txs": before EndBlock

vars == <<params, blockGasWanted, maxGas, height, phase>>

(* InitGenesis stores what it is given, as SetParams does; the chain is    *)
(* taken to start from a genesis file that was validated.                  *)
Init ==
    /\ params \in {p \in ParamsChoice : ValidateGenesis(p)}
    /\ blockGasWanted \in Gas
    /\ maxGas \in MaxGas
    /\ height = 1 /\ phase = "begin"

-----------------------------------------------------------------------------
CalcGasBaseFee(gasUsed, gasTarget, denom, baseFee, minGasPrice) ==
    LET delta == IF gasUsed > gasTarget THEN gasUsed - gasTarget ELSE gasTarget - gasUsed
        num == ((delta * baseFee) \div gasTarget) \div denom
    IN  IF gasUsed = gasTarget THEN baseFee
        ELSE IF gasTarget = 0 THEN 0
        ELSE IF gasUsed > gasTarget THEN baseFee + Max({num, minUnitGas})
        ELSE Max({baseFee - num, minGasPrice})

IsBaseFeeEnabled(p, h) == ~p.NoBaseFee /\ h >= p.EnableHeight

GasTarget == (IF maxGas > -1 THEN maxGas ELSE MaxUint64) \div params.ElasticityMultiplier

(* CalculateBaseFee in an enabled block                                    *)
NextBaseFee ==
    IF height = params.EnableHeight THEN params.BaseFee
    ELSE CalcGasBaseFee(blockGasWanted, GasTarget, params.BaseFeeChangeDenominator,
                        params.BaseFee, params.MinGasPrice)

BeginBlock ==
    /\ phase = "begin" /\ height <= MaxHeight
    /\ params' = IF IsBaseFeeEnabled(params, height)
                 THEN [params EXCEPT !.BaseFee = NextBaseFee] ELSE params
    /\ phase' = "txs"
    /\ UNCHANGED <<blockGasWanted, maxGas, height>>

(* MsgUpdateParams, through a proposal that passed ValidateBasic; the      *)
(* handler itself validates nothing.                                       *)
UpdateParams(p) ==
    /\ phase = "txs" /\ ValidateBasic(p)
    /\ params' = p
    /\ UNCHANGED <<blockGasWanted, maxGas, height, phase>>

(* The consensus parameters change with a block too (x/consensus).         *)
UpdateMaxGas(m) ==
    /\ phase = "txs"
    /\ maxGas' = m
    /\ UNCHANGED <<params, blockGasWanted, height, phase>>

(* What EndBlock records for a block.                                      *)
UpdatedGasWanted(gasWanted, gasUsed) ==
    Max({gasWanted * params.MinGasMultiplier, gasUsed * Precision}) \div Precision

(* With gas beyond MaxInt64 EndBlock fails and there is no such block.  A  *)
(* block may use more than was wanted: a transaction that runs out of gas  *)
(* reports the gas of the step that exceeded its limit.                    *)
EndBlock(gasWanted, gasUsed) ==
    /\ phase = "txs"
    /\ gasWanted <= MaxInt64 /\ gasUsed <= MaxInt64
    /\ blockGasWanted' = UpdatedGasWanted(gasWanted, gasUsed)
    /\ height' = height + 1 /\ phase' = "begin"
    /\ UNCHANGED <<params, maxGas>>

Next ==
    \/ BeginBlock
    \/ \E p \in ParamsChoice : UpdateParams(p)
    \/ \E m \in MaxGas : UpdateMaxGas(m)
    \/ \E w \in Gas, u \in Gas : EndBlock(w, u)

Spec == Init /\ [][Next]_vars

-----------------------------------------------------------------------------
(* Properties *)

(* Whatever governance and blocks do, the stored parameters stay valid: no *)
(* base fee goes below zero through the fee computation, which would make  *)
(* every later validation and export fail.                                 *)
ParamsStayValid == params \in ParamsType /\ Valid(params) /\ blockGasWanted \in Nat

InComputedBlock == phase = "begin" /\ phase' = "txs" /\ IsBaseFeeEnabled(params, height)
                   /\ height # params.EnableHeight

(* A base fee at or above the minimum gas price does not fall below it by  *)
(* the computation, as long as blocks have a gas target.                   *)
FloorKept ==
    [][InComputedBlock /\ GasTarget > 0 /\ params.BaseFee >= params.MinGasPrice
          => params'.BaseFee >= params.MinGasPrice]_vars

(* The fee answers to the load.  With a gas target it goes up after a      *)
(* block above the target, from zero too, stays after a block at it, and   *)
(* after a block below it does not go up, except that a minimum above the  *)
(* fee is taken over.  Without a target, when MaxGas is less than the      *)
(* elasticity, every block that uses gas sets it to zero, below any        *)
(* minimum.                                                                *)
FollowsLoad ==
    [][InComputedBlock =>
          /\ GasTarget > 0 =>
                /\ blockGasWanted > GasTarget => params'.BaseFee > params.BaseFee
                /\ blockGasWanted = GasTarget => params'.BaseFee = params.BaseFee
                /\ blockGasWanted < GasTarget =>
                      /\ params'.BaseFee >= params.MinGasPrice
                      /\ params'.BaseFee <= Max({params.BaseFee, params.MinGasPrice})
          /\ GasTarget = 0 =>
                params'.BaseFee = IF blockGasWanted = 0 THEN params.BaseFee ELSE 0]_vars

(* One block changes the fee by no more than its share: up by the excess   *)
(* over the target divided by the denominator, or the least unit, and down *)
(* by one part in the denominator.                                         *)
ChangeBounded ==
    [][InComputedBlock /\ GasTarget > 0 =>
          LET up == params'.BaseFee - params.BaseFee
              scale == GasTarget * params.BaseFeeChangeDenominator
          IN  /\ blockGasWanted > GasTarget =>
                    \/ up = minUnitGas
                    \/ up * scale <= (blockGasWanted - GasTarget) * params.BaseFee
              /\ -up * params.BaseFeeChangeDenominator <= params.BaseFee]_vars

(* A fuller block leads to a lower fee than an emptier one would have in   *)
(* two cases only: without a gas target, where any gas takes the fee to    *)
(* zero, and with a fee under the minimum, which a block below the target  *)
(* lifts to the minimum and a block above it raises from where it is.      *)
MonotoneInLoad ==
    LET fee(g) == CalcGasBaseFee(g, GasTarget, params.BaseFeeChangeDenominator,
                                 params.BaseFee, params.MinGasPrice)
    IN  \A g1, g2 \in Gas : g1 <= g2 /\ fee(g2) < fee(g1) =>
            \/ GasTarget = 0 /\ g1 = 0 /\ g2 > 0
            \/ /\ g1 < GasTarget /\ GasTarget <= g2
               /\ params.BaseFee < params.MinGasPrice /\ fee(g1) = params.MinGasPrice

(* EndBlock records no less than the gas used, and more only within what   *)
(* the multiplier leaves of the gas wanted: gas that is wanted and not     *)
(* used cannot push the fee beyond the multiplier, also in a block that    *)
(* used more than it wanted.                                               *)
RecordedGasBounded ==
    \A w, u \in Gas :
        /\ UpdatedGasWanted(w, u) \in u..Max({u, w})
        /\ UpdatedGasWanted(w, u) > u =>
              UpdatedGasWanted(w, u) * Precision <= w * params.MinGasMultiplier
=============================================================================
