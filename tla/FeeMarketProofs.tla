--------------------------- MODULE FeeMarketProofs --------------------------
(***************************************************************************)
(* Proofs about FeeMarket, for any parameters that Validate accepts, any   *)
(* gas and any precision of the prices.                                    *)
(***************************************************************************)
EXTENDS FeeMarket, TLAPS

Inv == ParamsStayValid /\ maxGas \in MaxGas /\ height \in Nat

(* The larger of two integers.                                             *)
LEMMA MaxPair ==
    ASSUME NEW a \in Int, NEW b \in Int
    PROVE  Max({a, b}) \in {a, b} /\ Max({a, b}) >= a /\ Max({a, b}) >= b
<1>1. \E x \in {a, b} : \A y \in {a, b} : x >= y
  OBVIOUS
<1> QED BY <1>1 DEF Max

(* A product of natural numbers is one, and so is what is left of it after *)
(* a division that truncates.                                              *)
LEMMA ScaledDown ==
    ASSUME NEW x \in Nat, NEW y \in Nat, NEW d \in Nat \ {0}
    PROVE  x * y \in Nat /\ (x * y) \div d \in Nat
<1>1. x * y \in Nat
  OBVIOUS
<1>2. \A z \in Nat : z \div d \in Nat
  OBVIOUS
<1> QED BY <1>1, <1>2

(* A quotient times its divisor does not exceed the dividend; quotients    *)
(* follow their dividends.                                                 *)
LEMMA Quotient ==
    ASSUME NEW z \in Nat, NEW d \in Nat \ {0}
    PROVE  z \div d \in Nat /\ (z \div d) * d <= z /\ z < (z \div d) * d + d
OBVIOUS

(* Multiplying by a natural number keeps the order.                        *)
LEMMA Times ==
    ASSUME NEW a \in Nat, NEW b \in Nat, NEW k \in Nat, a <= b
    PROVE  a * k \in Nat /\ b * k \in Nat /\ a * k <= b * k
<1>1. b - a \in Nat
  OBVIOUS
<1>2. (b - a) * k \in Nat
  BY <1>1, ScaledDown
<1>3. b * k = a * k + (b - a) * k
  OBVIOUS
<1>4. a * k \in Nat
  BY ScaledDown
<1> QED BY <1>2, <1>3, <1>4

(* A smaller dividend has no larger quotient.                              *)
LEMMA QuotientOrder ==
    ASSUME NEW a \in Nat, NEW b \in Nat, NEW d \in Nat \ {0}, a <= b
    PROVE  a \div d <= b \div d
<1>1. /\ a \div d \in Nat /\ (a \div d) * d <= a
      /\ b \div d \in Nat /\ b < (b \div d) * d + d
  BY Quotient
<1>2. SUFFICES ASSUME b \div d + 1 <= a \div d PROVE FALSE
  BY <1>1
<1>3. (b \div d + 1) * d <= (a \div d) * d
  BY <1>1, <1>2, Times
<1>4. (b \div d + 1) * d = (b \div d) * d + d
  BY <1>1
<1> QED BY <1>1, <1>3, <1>4

(* Multiplying and dividing by the same number changes nothing.            *)
LEMMA QuotientOfProduct ==
    ASSUME NEW a \in Nat, NEW d \in Nat \ {0}
    PROVE  (a * d) \div d = a
<1> DEFINE q == (a * d) \div d
<1>1. a * d \in Nat
  BY ScaledDown
<1>2. q \in Nat /\ q * d <= a * d /\ a * d < q * d + d
  BY <1>1, Quotient
<1> HIDE DEF q
<1>3. ~(q >= a + 1)
  <2> SUFFICES ASSUME q >= a + 1 PROVE FALSE
    OBVIOUS
  <2>1. (a + 1) * d <= q * d
    BY <1>2, Times
  <2>2. (a + 1) * d = a * d + d
    OBVIOUS
  <2> QED BY <1>1, <1>2, <2>1, <2>2
<1>4. ~(a >= q + 1)
  <2> SUFFICES ASSUME a >= q + 1 PROVE FALSE
    OBVIOUS
  <2>1. (q + 1) * d <= a * d
    BY <1>2, Times
  <2>2. (q + 1) * d = q * d + d
    BY <1>2
  <2> QED BY <1>2, <2>1, <2>2
<1> QED BY <1>2, <1>3, <1>4 DEF q

-----------------------------------------------------------------------------
(* By how much CalcGasBaseFee moves the fee before it applies its bounds.  *)
Share(delta, baseFee, gasTarget, denom) == ((delta * baseFee) \div gasTarget) \div denom

(* The share is a natural number, in proportion to delta and, below the    *)
(* target, one part in the denominator of the fee.                         *)
LEMMA ShareBounds ==
    ASSUME NEW delta \in Nat, NEW fee \in Nat, NEW T \in Nat \ {0}, NEW d \in Nat \ {0}
    PROVE  /\ Share(delta, fee, T, d) \in Nat
           /\ Share(delta, fee, T, d) * (T * d) <= delta * fee
           /\ delta <= T => Share(delta, fee, T, d) * d <= fee /\ Share(delta, fee, T, d) <= fee
<1> DEFINE x == delta * fee
           y == x \div T
           n == y \div d
<1>1. x \in Nat
  BY ScaledDown
<1>2. y \in Nat /\ y * T <= x
  BY <1>1, Quotient
<1>3. n \in Nat /\ n * d <= y
  <2> HIDE DEF y
  <2> QED BY <1>2, Quotient
<1>4. n * d \in Nat
  <2> HIDE DEF n
  <2> QED BY <1>3, ScaledDown
<1>5. (n * d) * T <= y * T
  <2> HIDE DEF n, y
  <2> QED BY <1>2, <1>3, <1>4, Times
<1>6. (n * d) * T = n * (T * d) /\ y * T \in Nat
  <2> HIDE DEF n, y
  <2> QED BY <1>2, <1>3, ScaledDown
<1>7. n * (T * d) <= x
  <2> HIDE DEF n, y, x
  <2> QED BY <1>1, <1>2, <1>3, <1>5, <1>6
<1>8. ASSUME delta <= T PROVE n * d <= fee /\ n <= fee
  <2>1. x <= T * fee /\ T * fee \in Nat
    BY <1>8, Times
  <2>2. y <= (T * fee) \div T
    <3> HIDE DEF x
    <3> QED BY <1>1, <2>1, QuotientOrder
  <2>3. (T * fee) \div T = fee
    <3>1. T * fee = fee * T
      OBVIOUS
    <3> QED BY <3>1, QuotientOfProduct
  <2>4. n * 1 <= n * d
    <3>1. 1 * n <= d * n /\ 1 * n = n * 1 /\ d * n = n * d
      <4> HIDE DEF n
      <4> QED BY <1>3, Times
    <3> QED BY <3>1
  <2> HIDE DEF n, y
  <2> QED BY <1>2, <1>3, <1>4, <2>2, <2>3, <2>4
<1> HIDE DEF n, x
<1> QED BY <1>3, <1>7, <1>8 DEF Share, n, x, y

(* A larger distance from the target has no smaller share.                 *)
LEMMA ShareOrder ==
    ASSUME NEW e1 \in Nat, NEW e2 \in Nat, e1 <= e2,
           NEW fee \in Nat, NEW T \in Nat \ {0}, NEW d \in Nat \ {0}
    PROVE  Share(e1, fee, T, d) <= Share(e2, fee, T, d)
<1>1. e1 * fee \in Nat /\ e2 * fee \in Nat /\ e1 * fee <= e2 * fee
  BY Times
<1>2. /\ (e1 * fee) \div T \in Nat /\ (e2 * fee) \div T \in Nat
      /\ (e1 * fee) \div T <= (e2 * fee) \div T
  BY <1>1, Quotient, QuotientOrder
<1> QED BY <1>2, QuotientOrder DEF Share

(* CalcGasBaseFee with a gas target, by its three cases.                   *)
LEMMA FeeByLoad ==
    ASSUME NEW g \in Nat, NEW T \in Nat \ {0}, NEW d \in Nat \ {0}, NEW fee \in Nat,
           NEW floor \in Nat, minUnitGas \in Nat \ {0}
    PROVE  LET new == CalcGasBaseFee(g, T, d, fee, floor)
           IN  /\ g = T => new = fee
               /\ g > T => /\ new \in {fee + Share(g - T, fee, T, d), fee + minUnitGas}
                           /\ new >= fee + Share(g - T, fee, T, d) /\ new >= fee + minUnitGas
               /\ g < T => /\ new \in {fee - Share(T - g, fee, T, d), floor}
                           /\ new >= fee - Share(T - g, fee, T, d) /\ new >= floor
<1>1. CASE g = T
  BY <1>1 DEF CalcGasBaseFee
<1>2. CASE g > T
  <2> DEFINE n == Share(g - T, fee, T, d)
  <2>1. n \in Nat
    BY <1>2, ShareBounds
  <2>2. CalcGasBaseFee(g, T, d, fee, floor) = fee + Max({n, minUnitGas})
    BY <1>2 DEF CalcGasBaseFee, Share
  <2> HIDE DEF n
  <2>3. /\ Max({n, minUnitGas}) \in {n, minUnitGas}
        /\ Max({n, minUnitGas}) >= n /\ Max({n, minUnitGas}) >= minUnitGas
    BY <2>1, MaxPair
  <2>4. /\ fee + Max({n, minUnitGas}) \in {fee + n, fee + minUnitGas}
        /\ fee + Max({n, minUnitGas}) >= fee + n
        /\ fee + Max({n, minUnitGas}) >= fee + minUnitGas
    BY <2>1, <2>3
  <2> QED BY <1>2, <2>2, <2>4 DEF n
<1>3. CASE g < T
  <2> DEFINE n == Share(T - g, fee, T, d)
  <2>1. n \in Nat
    BY <1>3, ShareBounds
  <2>2. CalcGasBaseFee(g, T, d, fee, floor) = Max({fee - n, floor})
    BY <1>3 DEF CalcGasBaseFee, Share
  <2> HIDE DEF n
  <2>3. /\ Max({fee - n, floor}) \in {fee - n, floor}
        /\ Max({fee - n, floor}) >= fee - n /\ Max({fee - n, floor}) >= floor
    BY <2>1, MaxPair
  <2> QED BY <1>3, <2>2, <2>3 DEF n
<1> QED BY <1>1, <1>2, <1>3

-----------------------------------------------------------------------------
(* What Validate and the types give the computation.                       *)
LEMMA Typed ==
    ASSUME ConstantsTyped, Inv
    PROVE  /\ params.BaseFee \in Nat /\ params.MinGasPrice \in Nat
           /\ params.BaseFeeChangeDenominator \in Nat \ {0}
           /\ params.MinGasMultiplier \in 0..Precision
           /\ GasTarget \in Nat /\ blockGasWanted \in Nat
           /\ minUnitGas \in Nat \ {0} /\ Precision \in Nat \ {0}
<1>1. params \in ParamsType /\ Valid(params) /\ blockGasWanted \in Nat
  BY DEF Inv, ParamsStayValid
<1>2. /\ params.BaseFee \in Nat /\ params.MinGasPrice \in Nat
      /\ params.BaseFeeChangeDenominator \in Nat \ {0}
      /\ params.ElasticityMultiplier \in Nat \ {0}
  BY <1>1 DEF ParamsType, Valid
<1>3. params.MinGasMultiplier \in 0..Precision
  BY <1>1 DEF ParamsType, Valid, ConstantsTyped
<1>4. (IF maxGas > -1 THEN maxGas ELSE MaxUint64) \in Nat
  BY DEF Inv, ConstantsTyped
<1>5. GasTarget \in Nat
  BY <1>2, <1>4, Quotient DEF GasTarget
<1> QED BY <1>1, <1>2, <1>3, <1>5 DEF ConstantsTyped

(* The fee of the next block is never negative.                            *)
LEMMA NextFeeNat == ASSUME ConstantsTyped, Inv PROVE NextBaseFee \in Nat
<1> DEFINE T == GasTarget
           d == params.BaseFeeChangeDenominator
           fee == params.BaseFee
           g == blockGasWanted
           floor == params.MinGasPrice
<1>1. /\ fee \in Nat /\ floor \in Nat /\ d \in Nat \ {0} /\ T \in Nat /\ g \in Nat
      /\ minUnitGas \in Nat \ {0}
  BY Typed
<1>2. NextBaseFee \in {fee, CalcGasBaseFee(g, T, d, fee, floor)}
  BY DEF NextBaseFee
<1> HIDE DEF T, d, fee, g, floor
<1>3. CASE T = 0
  BY <1>1, <1>2, <1>3 DEF CalcGasBaseFee
<1>4. CASE T # 0
  <2>1. T \in Nat \ {0}
    BY <1>1, <1>4
  <2>2. CASE g = T
    BY <1>1, <1>2, <2>1, <2>2, FeeByLoad
  <2>3. CASE g > T
    <3>1. Share(g - T, fee, T, d) \in Nat
      BY <1>1, <2>1, <2>3, ShareBounds
    <3> QED BY <1>1, <1>2, <2>1, <2>3, <3>1, FeeByLoad
  <2>4. CASE g < T
    <3>1. Share(T - g, fee, T, d) \in Nat /\ Share(T - g, fee, T, d) <= fee
      BY <1>1, <2>1, <2>4, ShareBounds
    <3> QED BY <1>1, <1>2, <2>1, <2>4, <3>1, FeeByLoad
  <2> QED BY <1>1, <2>2, <2>3, <2>4
<1> QED BY <1>3, <1>4

(* What EndBlock records is the gas used, or what the multiplier leaves of *)
(* the gas wanted where that is more.                                      *)
LEMMA RecordedGas ==
    ASSUME ConstantsTyped, Inv, NEW w \in Nat, NEW u \in Nat
    PROVE  /\ UpdatedGasWanted(w, u) \in u..Max({u, w})
           /\ UpdatedGasWanted(w, u) > u =>
                 UpdatedGasWanted(w, u) * Precision <= w * params.MinGasMultiplier
<1> DEFINE m == params.MinGasMultiplier
           P == Precision
           x == Max({u, w})
           top == Max({w * m, u * P})
<1>1. m \in Nat /\ m <= P /\ P \in Nat \ {0}
  BY Typed
<1>a. x \in Nat /\ u <= x /\ w <= x
  <2>1. u \in Int /\ w \in Int
    OBVIOUS
  <2>2. x \in {u, w} /\ x >= u /\ x >= w
    BY <2>1, MaxPair
  <2> HIDE DEF x
  <2> QED BY <2>2
<1> HIDE DEF m, P, x
<1>2. w * m \in Nat /\ u * P \in Nat /\ x * P \in Nat
  BY <1>1, <1>a, ScaledDown
<1>3. top \in {w * m, u * P} /\ top >= w * m /\ top >= u * P
  <2> DEFINE a == w * m
             b == u * P
  <2>1. a \in Int /\ b \in Int
    BY <1>2
  <2> HIDE DEF a, b
  <2>2. Max({a, b}) \in {a, b} /\ Max({a, b}) >= a /\ Max({a, b}) >= b
    BY <2>1, MaxPair
  <2> QED BY <2>2 DEF a, b
<1>4. w * m <= x * P /\ u * P <= x * P
  <2>1. m * w <= P * w /\ m * w = w * m /\ P * w = w * P
    BY <1>1, Times
  <2>2. w * P <= x * P /\ u * P <= x * P /\ w * P \in Nat
    BY <1>1, <1>a, Times
  <2> QED BY <1>2, <2>1, <2>2
<1>5. top \in Nat /\ u * P <= top /\ top <= x * P
  BY <1>2, <1>3, <1>4
<1> HIDE DEF top
<1>6. top \div P \in Nat /\ u <= top \div P /\ top \div P <= x /\ (top \div P) * P <= top
  <2>1. (u * P) \div P <= top \div P /\ top \div P <= (x * P) \div P
    BY <1>1, <1>2, <1>5, QuotientOrder
  <2>2. (u * P) \div P = u /\ (x * P) \div P = x
    BY <1>1, <1>a, QuotientOfProduct
  <2> QED BY <1>1, <1>5, <2>1, <2>2, Quotient
<1>7. ASSUME top \div P > u PROVE top = w * m
  <2> SUFFICES ASSUME top = u * P PROVE FALSE
    BY <1>3
  <2>1. top \div P = u
    BY <1>1, QuotientOfProduct
  <2> QED BY <1>7, <2>1
<1>8. UpdatedGasWanted(w, u) = top \div P
  BY DEF UpdatedGasWanted, top, m, P
<1> QED BY <1>a, <1>6, <1>7, <1>8 DEF m, P, x

(* Every step keeps the parameters valid.                                  *)
LEMMA InvStep == ASSUME ConstantsTyped, Inv, [Next]_vars PROVE Inv'
<1>1. params \in ParamsType /\ Valid(params) /\ blockGasWanted \in Nat
      /\ maxGas \in MaxGas /\ height \in Nat
  BY DEF Inv, ParamsStayValid
<1>2. CASE BeginBlock
  <2>1. [params EXCEPT !.BaseFee = NextBaseFee] \in ParamsType
    BY <1>1, NextFeeNat DEF ParamsType
  <2>2. Valid([params EXCEPT !.BaseFee = NextBaseFee])
    BY <1>1, NextFeeNat DEF ParamsType, Valid
  <2>3. params' \in {params, [params EXCEPT !.BaseFee = NextBaseFee]}
        /\ UNCHANGED <<blockGasWanted, maxGas, height>>
    BY <1>2 DEF BeginBlock
  <2>4. params' \in ParamsType /\ Valid(params')
    BY <1>1, <2>1, <2>2, <2>3
  <2> QED BY <1>1, <2>3, <2>4 DEF Inv, ParamsStayValid, Valid
<1>3. ASSUME NEW p \in ParamsChoice, UpdateParams(p) PROVE Inv'
  BY <1>1, <1>3 DEF UpdateParams, ValidateBasic, Inv, ParamsStayValid, Valid, ConstantsTyped
<1>4. ASSUME NEW m \in MaxGas, UpdateMaxGas(m) PROVE Inv'
  BY <1>1, <1>4 DEF UpdateMaxGas, Inv, ParamsStayValid, Valid
<1>5. ASSUME NEW w \in Gas, NEW u \in Gas, EndBlock(w, u) PROVE Inv'
  <2>1. w \in Nat /\ u \in Nat
    BY DEF ConstantsTyped
  <2>2. UpdatedGasWanted(w, u) \in Nat
    <3>1. UpdatedGasWanted(w, u) \in u..Max({u, w})
      BY <2>1, RecordedGas
    <3>2. u \in Int /\ w \in Int
      BY <2>1
    <3>3. Max({u, w}) \in Int
      BY <3>2, MaxPair
    <3> QED BY <2>1, <3>1, <3>3
  <2> QED BY <1>1, <1>5, <2>2 DEF EndBlock, Inv, ParamsStayValid, Valid
<1>6. CASE UNCHANGED vars
  BY <1>1, <1>6 DEF vars, Inv, ParamsStayValid, Valid
<1> QED BY <1>2, <1>3, <1>4, <1>5, <1>6 DEF Next

(* A validated genesis has valid parameters.                               *)
LEMMA InvInit == ASSUME ConstantsTyped, Init PROVE Inv
BY DEF Init, ValidateGenesis, Inv, ParamsStayValid, ConstantsTyped

-----------------------------------------------------------------------------
(* The stored parameters stay valid, whatever blocks and governance do: no *)
(* base fee goes below zero.                                               *)
THEOREM ParamsValid ==
    ASSUME ConstantsTyped
    PROVE  Spec => []ParamsStayValid
<1>1. Init => Inv
  BY InvInit
<1>2. Inv /\ [Next]_vars => Inv'
  BY InvStep
<1>3. Inv => ParamsStayValid
  BY DEF Inv
<1> QED BY <1>1, <1>2, <1>3, PTL DEF Spec

(* EndBlock records no less than the gas used and, beyond it, no more than *)
(* the multiplier leaves of the gas wanted, whichever of the two is more.  *)
THEOREM RecordedGasHolds ==
    ASSUME ConstantsTyped
    PROVE  Spec => []RecordedGasBounded
<1>1. Init => Inv
  BY InvInit
<1>2. Inv /\ [Next]_vars => Inv'
  BY InvStep
<1>3. Inv => RecordedGasBounded
  <2> SUFFICES ASSUME Inv, NEW w \in Gas, NEW u \in Gas
               PROVE  /\ UpdatedGasWanted(w, u) \in u..Max({u, w})
                      /\ UpdatedGasWanted(w, u) > u =>
                            UpdatedGasWanted(w, u) * Precision <= w * params.MinGasMultiplier
    BY DEF RecordedGasBounded
  <2>1. w \in Nat /\ u \in Nat
    BY DEF ConstantsTyped
  <2> QED BY <2>1, RecordedGas
<1> QED BY <1>1, <1>2, <1>3, PTL DEF Spec

(* In a block whose fee is computed, the fee stored is CalcGasBaseFee of   *)
(* the block before.                                                       *)
LEMMA ComputedFee ==
    ASSUME ConstantsTyped, Inv, [Next]_vars, InComputedBlock
    PROVE  params'.BaseFee = CalcGasBaseFee(blockGasWanted, GasTarget,
              params.BaseFeeChangeDenominator, params.BaseFee, params.MinGasPrice)
<1>1. BeginBlock
  BY DEF Next, vars, UpdateParams, UpdateMaxGas, EndBlock, InComputedBlock
<1>2. params' = [params EXCEPT !.BaseFee = NextBaseFee]
  BY <1>1 DEF BeginBlock, InComputedBlock
<1>3. params'.BaseFee = NextBaseFee
  BY <1>2 DEF Inv, ParamsStayValid, ParamsType
<1> QED BY <1>3 DEF NextBaseFee, InComputedBlock

(* The facts about one computed block with a gas target.                   *)
LEMMA ComputedBlock ==
    ASSUME ConstantsTyped, Inv, [Next]_vars, InComputedBlock, GasTarget > 0
    PROVE  LET fee == params.BaseFee
               new == params'.BaseFee
               floor == params.MinGasPrice
               d == params.BaseFeeChangeDenominator
               T == GasTarget
               g == blockGasWanted
               up == Share(g - T, fee, T, d)
               down == Share(T - g, fee, T, d)
           IN  /\ fee \in Nat /\ floor \in Nat /\ d \in Nat \ {0} /\ T \in Nat /\ g \in Nat
               /\ minUnitGas \in Nat \ {0}
               /\ g = T => new = fee
               /\ g > T => /\ up \in Nat /\ up * (T * d) <= (g - T) * fee
                           /\ new \in {fee + up, fee + minUnitGas} /\ new >= fee + minUnitGas
               /\ g < T => /\ down \in Nat /\ down * d <= fee /\ down <= fee
                           /\ new \in {fee - down, floor}
                           /\ new >= fee - down /\ new >= floor
<1> DEFINE fee == params.BaseFee
           new == params'.BaseFee
           floor == params.MinGasPrice
           d == params.BaseFeeChangeDenominator
           T == GasTarget
           g == blockGasWanted
<1>1. /\ fee \in Nat /\ floor \in Nat /\ d \in Nat \ {0} /\ T \in Nat \ {0} /\ g \in Nat
      /\ minUnitGas \in Nat \ {0}
  BY Typed
<1>2. new = CalcGasBaseFee(g, T, d, fee, floor)
  BY ComputedFee
<1> HIDE DEF fee, new, floor, d, T, g
<1>3. g = T => new = fee
  BY <1>1, <1>2, FeeByLoad
<1>4. ASSUME g > T
      PROVE  LET up == Share(g - T, fee, T, d)
             IN  /\ up \in Nat /\ up * (T * d) <= (g - T) * fee
                 /\ new \in {fee + up, fee + minUnitGas} /\ new >= fee + minUnitGas
  <2>1. g - T \in Nat
    BY <1>1, <1>4
  <2> QED BY <1>1, <1>2, <1>4, <2>1, FeeByLoad, ShareBounds
<1>5. ASSUME g < T
      PROVE  LET down == Share(T - g, fee, T, d)
             IN  /\ down \in Nat /\ down * d <= fee /\ down <= fee
                 /\ new \in {fee - down, floor} /\ new >= fee - down /\ new >= floor
  <2>1. T - g \in Nat /\ T - g <= T
    BY <1>1, <1>5
  <2> QED BY <1>1, <1>2, <1>5, <2>1, FeeByLoad, ShareBounds
<1> QED BY <1>1, <1>3, <1>4, <1>5 DEF fee, new, floor, d, T, g

(* With a gas target, a fee at or above the minimum gas price stays so.    *)
THEOREM FloorHolds ==
    ASSUME ConstantsTyped
    PROVE  Spec => FloorKept
<1>1. Init => Inv
  BY InvInit
<1>2. Inv /\ [Next]_vars => Inv'
  BY InvStep
<1>3. Inv /\ [Next]_vars =>
         [InComputedBlock /\ GasTarget > 0 /\ params.BaseFee >= params.MinGasPrice
            => params'.BaseFee >= params.MinGasPrice]_vars
  <2> SUFFICES ASSUME Inv, [Next]_vars, InComputedBlock, GasTarget > 0,
                      params.BaseFee >= params.MinGasPrice
               PROVE  params'.BaseFee >= params.MinGasPrice
    OBVIOUS
  <2>1. CASE blockGasWanted = GasTarget
    BY <2>1, ComputedBlock
  <2>2. CASE blockGasWanted > GasTarget
    BY <2>2, ComputedBlock
  <2>3. CASE blockGasWanted < GasTarget
    BY <2>3, ComputedBlock
  <2> QED BY <2>1, <2>2, <2>3, Typed
<1> QED BY <1>1, <1>2, <1>3, PTL DEF Spec, FloorKept

(* With a gas target the fee goes up after a block above it, stays after a *)
(* block at it, and after one below it goes up to the minimum at most;     *)
(* without one it stays after an empty block and is zero after any other.  *)
THEOREM LoadFollowed ==
    ASSUME ConstantsTyped
    PROVE  Spec => FollowsLoad
<1> DEFINE Light == /\ params'.BaseFee >= params.MinGasPrice
                    /\ params'.BaseFee <= Max({params.BaseFee, params.MinGasPrice})
           Step == InComputedBlock =>
              /\ GasTarget > 0 =>
                    /\ blockGasWanted > GasTarget => params'.BaseFee > params.BaseFee
                    /\ blockGasWanted = GasTarget => params'.BaseFee = params.BaseFee
                    /\ blockGasWanted < GasTarget => Light
              /\ GasTarget = 0 =>
                    params'.BaseFee = IF blockGasWanted = 0 THEN params.BaseFee ELSE 0
<1>1. Init => Inv
  BY InvInit
<1>2. Inv /\ [Next]_vars => Inv'
  BY InvStep
<1>3. Inv /\ [Next]_vars => [Step]_vars
  <2> SUFFICES ASSUME Inv, [Next]_vars, InComputedBlock PROVE Step
    OBVIOUS
  <2>1. ASSUME GasTarget > 0
        PROVE  /\ blockGasWanted > GasTarget => params'.BaseFee > params.BaseFee
               /\ blockGasWanted = GasTarget => params'.BaseFee = params.BaseFee
    BY <2>1, ComputedBlock
  <2>2. ASSUME GasTarget > 0, blockGasWanted < GasTarget PROVE Light
    <3>1. /\ Max({params.BaseFee, params.MinGasPrice}) \in {params.BaseFee, params.MinGasPrice}
          /\ Max({params.BaseFee, params.MinGasPrice}) >= params.BaseFee
          /\ Max({params.BaseFee, params.MinGasPrice}) >= params.MinGasPrice
      <4>1. params.BaseFee \in Int /\ params.MinGasPrice \in Int
        BY Typed
      <4> QED BY <4>1, MaxPair
    <3> QED BY <2>2, <3>1, ComputedBlock
  <2>3. ASSUME GasTarget = 0
        PROVE  params'.BaseFee = IF blockGasWanted = 0 THEN params.BaseFee ELSE 0
    BY <2>3, ComputedFee DEF CalcGasBaseFee
  <2> QED BY <2>1, <2>2, <2>3
<1> QED BY <1>1, <1>2, <1>3, PTL DEF Spec, FollowsLoad

(* One block moves the fee up by its share of the excess, or by the least  *)
(* unit, and down by at most one part in the denominator.                  *)
THEOREM ChangeIsBounded ==
    ASSUME ConstantsTyped
    PROVE  Spec => ChangeBounded
<1>1. Init => Inv
  BY InvInit
<1>2. Inv /\ [Next]_vars => Inv'
  BY InvStep
<1>3. Inv /\ [Next]_vars =>
         [InComputedBlock /\ GasTarget > 0 =>
            LET up == params'.BaseFee - params.BaseFee
                scale == GasTarget * params.BaseFeeChangeDenominator
            IN  /\ blockGasWanted > GasTarget =>
                      \/ up = minUnitGas
                      \/ up * scale <= (blockGasWanted - GasTarget) * params.BaseFee
                /\ -up * params.BaseFeeChangeDenominator <= params.BaseFee]_vars
  <2> SUFFICES ASSUME Inv, [Next]_vars, InComputedBlock, GasTarget > 0
               PROVE  LET up == params'.BaseFee - params.BaseFee
                          scale == GasTarget * params.BaseFeeChangeDenominator
                      IN  /\ blockGasWanted > GasTarget =>
                                \/ up = minUnitGas
                                \/ up * scale <= (blockGasWanted - GasTarget) * params.BaseFee
                          /\ -up * params.BaseFeeChangeDenominator <= params.BaseFee
    OBVIOUS
  <2> DEFINE fee == params.BaseFee
             new == params'.BaseFee
             d == params.BaseFeeChangeDenominator
             T == GasTarget
             g == blockGasWanted
             n == Share(g - T, fee, T, d)
             m == Share(T - g, fee, T, d)
  <2>1. /\ fee \in Nat /\ d \in Nat \ {0} /\ T \in Nat /\ g \in Nat
        /\ minUnitGas \in Nat \ {0} /\ params.MinGasPrice \in Nat
        /\ g = T => new = fee
        /\ g > T => /\ n \in Nat /\ n * (T * d) <= (g - T) * fee
                    /\ new \in {fee + n, fee + minUnitGas} /\ new >= fee + minUnitGas
        /\ g < T => /\ m \in Nat /\ m * d <= fee
                    /\ new \in {fee - m, params.MinGasPrice} /\ new >= fee - m
    BY ComputedBlock
  <2> HIDE DEF fee, new, d, T, g, n, m
  <2>2. ASSUME g > T
        PROVE  new - fee = minUnitGas \/ (new - fee) * (T * d) <= (g - T) * fee
    <3>1. CASE new = fee + minUnitGas
      BY <2>1, <3>1
    <3>2. CASE new = fee + n
      <4>1. new - fee = n
        BY <2>1, <2>2, <3>2
      <4> QED BY <2>1, <2>2, <4>1
    <3> QED BY <2>1, <2>2, <3>1, <3>2
  <2>3. -(new - fee) * d <= fee
    <3>1. CASE g >= T
      <4>1. new - fee \in Nat
        BY <2>1, <3>1
      <4>2. (new - fee) * d \in Nat
        BY <2>1, <4>1, ScaledDown
      <4>3. -(new - fee) * d = -((new - fee) * d)
        BY <2>1, <4>1
      <4> QED BY <2>1, <4>2, <4>3
    <3>2. CASE g < T
      <4>1. new \in Int /\ -(new - fee) <= m
        BY <2>1, <3>2
      <4>2. CASE -(new - fee) >= 0
        <5>1. -(new - fee) \in Nat
          BY <2>1, <4>1, <4>2
        <5>2. PICK k \in Nat : k = -(new - fee)
          BY <5>1
        <5>3. k * d <= m * d /\ k * d \in Nat /\ m * d \in Nat
          BY <2>1, <3>2, <4>1, <5>2, Times
        <5> QED BY <2>1, <3>2, <5>2, <5>3
      <4>3. CASE new - fee > 0
        <5>1. new - fee \in Nat
          BY <2>1, <4>1, <4>3
        <5>2. (new - fee) * d \in Nat
          BY <2>1, <5>1, ScaledDown
        <5>3. -(new - fee) * d = -((new - fee) * d)
          BY <2>1, <5>1
        <5> QED BY <2>1, <5>2, <5>3
      <4> QED BY <2>1, <4>1, <4>2, <4>3
    <3> QED BY <2>1, <3>1, <3>2
  <2> QED BY <2>2, <2>3 DEF fee, new, d, T, g
<1> QED BY <1>1, <1>2, <1>3, PTL DEF Spec, ChangeBounded

(* A fuller block leads to a lower fee than an emptier one only without a  *)
(* gas target, or across the target with a fee under the minimum.          *)
THEOREM FeeMonotone ==
    ASSUME ConstantsTyped
    PROVE  Spec => []MonotoneInLoad
<1>1. Init => Inv
  BY InvInit
<1>2. Inv /\ [Next]_vars => Inv'
  BY InvStep
<1>3. Inv => MonotoneInLoad
  <2> DEFINE T == GasTarget
             d == params.BaseFeeChangeDenominator
             fee == params.BaseFee
             floor == params.MinGasPrice
             F(g) == CalcGasBaseFee(g, T, d, fee, floor)
  <2> SUFFICES ASSUME Inv, NEW g1 \in Gas, NEW g2 \in Gas, g1 <= g2, F(g2) < F(g1)
               PROVE  \/ T = 0 /\ g1 = 0 /\ g2 > 0
                      \/ g1 < T /\ T <= g2 /\ fee < floor /\ F(g1) = floor
    BY DEF MonotoneInLoad
  <2>1. /\ fee \in Nat /\ floor \in Nat /\ d \in Nat \ {0} /\ T \in Nat
        /\ minUnitGas \in Nat \ {0} /\ g1 \in Nat /\ g2 \in Nat
    BY Typed DEF ConstantsTyped
  <2> HIDE DEF T, d, fee, floor
  <2>a. CASE T = 0
    BY <2>1, <2>a DEF CalcGasBaseFee
  <2> SUFFICES ASSUME T \in Nat \ {0}
               PROVE  g1 < T /\ T <= g2 /\ fee < floor /\ F(g1) = floor
    BY <2>1, <2>a
  <2>2. \A g \in Nat :
           /\ g = T => F(g) = fee
           /\ g > T => /\ F(g) \in {fee + Share(g - T, fee, T, d), fee + minUnitGas}
                       /\ F(g) >= fee + Share(g - T, fee, T, d) /\ F(g) >= fee + minUnitGas
           /\ g < T => /\ F(g) \in {fee - Share(T - g, fee, T, d), floor}
                       /\ F(g) >= fee - Share(T - g, fee, T, d) /\ F(g) >= floor
    BY <2>1, FeeByLoad
  <2> HIDE DEF F
  <2>3. \A g \in Nat : /\ g > T => Share(g - T, fee, T, d) \in Nat
                       /\ g < T => Share(T - g, fee, T, d) \in Nat
    <3>1. \A g \in Nat : (g > T => g - T \in Nat) /\ (g < T => T - g \in Nat)
      BY <2>1
    <3> QED BY <2>1, <3>1, ShareBounds
  <2>4. CASE g1 > T
    <3>1. g2 > T /\ g1 - T \in Nat /\ g2 - T \in Nat /\ g1 - T <= g2 - T
      BY <2>1, <2>4
    <3>2. Share(g1 - T, fee, T, d) <= Share(g2 - T, fee, T, d)
      BY <2>1, <3>1, ShareOrder
    <3> QED BY <2>1, <2>2, <2>3, <2>4, <3>1, <3>2
  <2>5. CASE g2 < T
    <3>1. g1 < T /\ T - g1 \in Nat /\ T - g2 \in Nat /\ T - g2 <= T - g1
      BY <2>1, <2>5
    <3>2. Share(T - g2, fee, T, d) <= Share(T - g1, fee, T, d)
      BY <2>1, <3>1, ShareOrder
    <3> QED BY <2>1, <2>2, <2>3, <2>5, <3>1, <3>2
  <2>6. CASE g1 <= T /\ g2 >= T
    <3>1. F(g2) \in Int /\ F(g2) >= fee
      BY <2>1, <2>2, <2>3, <2>6
    <3>2. g1 # T
      BY <2>1, <2>2, <3>1
    <3>3. F(g1) = floor
      BY <2>1, <2>2, <2>3, <2>6, <3>1, <3>2
    <3> QED BY <2>1, <2>6, <3>1, <3>2, <3>3
  <2> QED BY <2>1, <2>4, <2>5, <2>6
<1> QED BY <1>1, <1>2, <1>3, PTL DEF Spec
=============================================================================
