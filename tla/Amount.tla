------------------------------- MODULE Amount -------------------------------
(***************************************************************************)
(* csdb::Amount: a signed integral part and a fraction counted in units of *)
(* 1/AMOUNT_MAX_FRACTION. An amount is used as an accumulator (getBalance, *)
(* Wallet::get): a long sequence of operations on one object. Beside it    *)
(* runs the exact value, in units, of what was computed.                   *)
(*                                                                         *)
(* The integral part is an int32_t: casts to it cut, and its arithmetic    *)
(* wraps as compiled, also in steps of an operation whose result fits.     *)
(* Results that do not fit are kept out by the bound. The operators on     *)
(* double are not modelled.                                                *)
(***************************************************************************)
EXTENDS Integers

CONSTANTS
  AMOUNT_MAX_FRACTION,  \* 10^18 in the code
  Operands,             \* amounts that are added, subtracted and multiplied
  Factors,              \* integers an amount is multiplied and divided by
  MaxIntegral           \* the largest integral part (2^31 - 1 in the code)

ASSUME AmountAssumption ==
  /\ AMOUNT_MAX_FRACTION \in Nat \ {0}
  /\ MaxIntegral \in Nat \ {0}
  /\ Operands \subseteq [integral : (-MaxIntegral)..MaxIntegral, fraction : 0..(AMOUNT_MAX_FRACTION - 1)]
  /\ Factors \subseteq (-MaxIntegral)..MaxIntegral

VARIABLES
  acc,   \* the Amount
  exact  \* what it should be worth, in units

amountVars == <<acc, exact>>

(* What an int32_t keeps of an integer. *)
Int32(i) == ((i + MaxIntegral + 1) % (2 * MaxIntegral + 2)) - MaxIntegral - 1

Amt(i, f) == [integral |-> Int32(i), fraction |-> f]
Value(a) == a.integral * AMOUNT_MAX_FRACTION + a.fraction

(* operator-(): the fraction stays positive. *)
Neg(a) ==
  IF a.fraction = 0 THEN Amt(-a.integral, 0)
  ELSE Amt(-a.integral - 1, AMOUNT_MAX_FRACTION - a.fraction)

(* operator+ carries when a whole unit is reached. *)
Plus(a, b) ==
  IF AMOUNT_MAX_FRACTION <= a.fraction + b.fraction
  THEN Amt(a.integral + b.integral + 1, a.fraction + b.fraction - AMOUNT_MAX_FRACTION)
  ELSE Amt(a.integral + b.integral, a.fraction + b.fraction)

Minus(a, b) ==
  IF a.fraction < b.fraction
  THEN Amt(a.integral - b.integral - 1, a.fraction + AMOUNT_MAX_FRACTION - b.fraction)
  ELSE Amt(a.integral - b.integral, a.fraction - b.fraction)

(* Mutant: the carry takes the fraction down and is not added. *)
PlusAssignNoCarry(a, b) ==
  IF a.fraction + b.fraction > AMOUNT_MAX_FRACTION
  THEN Amt(a.integral + b.integral, a.fraction + b.fraction - AMOUNT_MAX_FRACTION)
  ELSE Amt(a.integral + b.integral, a.fraction + b.fraction)

(* operator+= carries only beyond it. *)
PlusAssign(a, b) ==
  IF a.fraction + b.fraction > AMOUNT_MAX_FRACTION
  THEN Amt(a.integral + b.integral + 1, a.fraction + b.fraction - AMOUNT_MAX_FRACTION)
  ELSE Amt(a.integral + b.integral, a.fraction + b.fraction)

MinusAssign(a, b) ==
  IF b.fraction > a.fraction
  THEN Amt(a.integral - b.integral - 1, a.fraction + (AMOUNT_MAX_FRACTION - b.fraction))
  ELSE Amt(a.integral - b.integral, a.fraction - b.fraction)

(* Amount(uint128, false): a number of units as an amount. *)
OfUnits(u) == Amt(u \div AMOUNT_MAX_FRACTION, u % AMOUNT_MAX_FRACTION)

(* operator*(int32_t). *)
TimesNat(a, k) == Plus(Amt(a.integral * k, 0), OfUnits(a.fraction * k))
TimesInt(a, k) == IF k < 0 THEN Neg(TimesNat(a, -k)) ELSE TimesNat(a, k)

(* operator*(const Amount&): signs are taken off and put back. *)
TimesPos(a, b) ==
  Plus(Plus(Plus(Amt(a.integral * b.integral, 0), OfUnits(a.fraction * b.integral)),
            OfUnits(b.fraction * a.integral)),
       OfUnits((a.fraction * b.fraction) \div AMOUNT_MAX_FRACTION))
TimesRight(a, b) == IF b.integral < 0 THEN Neg(TimesPos(a, Neg(b))) ELSE TimesPos(a, b)
Times(a, b) == IF a.integral < 0 THEN Neg(TimesRight(Neg(a), b)) ELSE TimesRight(a, b)

(* Mutant: the fraction is not divided. *)
DividePosWhole(a, k) == Plus(OfUnits((a.integral * AMOUNT_MAX_FRACTION) \div k), Amt(0, a.fraction))

(* operator/(int32_t): both parts are divided by themselves. *)
DividePos(a, k) ==
  Plus(OfUnits((a.integral * AMOUNT_MAX_FRACTION) \div k), Amt(0, a.fraction \div k))
DivideNat(a, k) ==
  IF k = 1 THEN a ELSE IF a.integral < 0 THEN Neg(DividePos(Neg(a), k)) ELSE DividePos(a, k)
Divide(a, k) == IF k < 0 THEN Neg(DivideNat(a, -k)) ELSE DivideNat(a, k)

Equal(a, b) == a.integral = b.integral /\ a.fraction = b.fraction
Less(a, b) ==
  \/ a.integral < b.integral
  \/ a.integral = b.integral /\ a.fraction < b.fraction

(* Amount(integral, numerator, denominator): rounded to the nearest unit;  *)
(* a fraction that reaches a whole throws (_check_fraction).               *)
FractionOf(n, d) == (n * AMOUNT_MAX_FRACTION + d \div 2) \div d

(* Bound: v, counted in the given units, is of an amount whose integral    *)
(* part is in range, also when its fraction is a whole.                    *)
InRange(v, unit) == -(MaxIntegral * unit) < v /\ v < (MaxIntegral + 1) * unit

AmountInit == acc = Amt(0, 0) /\ exact = 0

Becomes(a, v) == InRange(v, AMOUNT_MAX_FRACTION) /\ acc' = a /\ exact' = v

(* The accumulator is built from a fraction, as the API does. *)
Construct(i, n, d) ==
  /\ FractionOf(n, d) < AMOUNT_MAX_FRACTION
  /\ Becomes(Amt(i, FractionOf(n, d)), Value(Amt(i, FractionOf(n, d))))

Accumulate(x) ==
  \/ Becomes(Plus(acc, x), exact + Value(x))
  \/ Becomes(Minus(acc, x), exact - Value(x))
  \/ Becomes(PlusAssign(acc, x), exact + Value(x))
  \/ Becomes(MinusAssign(acc, x), exact - Value(x))

Scale(k) == Becomes(TimesInt(acc, k), k * exact)
Negate == Becomes(Neg(acc), -exact)

AmountNext ==
  \/ \E x \in Operands : Accumulate(x)
  \/ \E x \in Operands, n \in 0..2, d \in 1..3 : Construct(x.integral, n, d)
  \/ \E k \in Factors : Scale(k)
  \/ Negate

AmountSpec == AmountInit /\ [][AmountNext]_amountVars

-----------------------------------------------------------------------------
(* No operation on a running amount whose result fits loses or invents a   *)
(* unit, and the fraction never exceeds a whole: += may leave exactly a    *)
(* whole there, and every later operation still counts it right.           *)
AmountExact == Value(acc) = exact /\ acc.fraction \in 0..AMOUNT_MAX_FRACTION

(* got is the exact result cut towards zero, off by less than slack. *)
CutTo(got, e, slack) ==
  \/ e >= 0 /\ e - got \in 0..(slack - 1)
  \/ e <= 0 /\ got - e \in 0..(slack - 1)

(* A product of a running amount, if it fits, is less than a unit, and a   *)
(* quotient less than two, short of the exact result, and neither is       *)
(* beyond it: whatever the signs and whatever operations came before. No   *)
(* cast to int32_t on the way to a product that fits cuts anything off.    *)
AmountRounds ==
  /\ \A x \in Operands :
       InRange(exact * Value(x), AMOUNT_MAX_FRACTION * AMOUNT_MAX_FRACTION)
         => CutTo(Value(Times(acc, x)) * AMOUNT_MAX_FRACTION, exact * Value(x), AMOUNT_MAX_FRACTION)
  /\ \A k \in Factors : /\ k > 0 => CutTo(Value(Divide(acc, k)) * k, exact, 2 * k)
                        /\ k < 0 => CutTo(Value(Divide(acc, k)) * k, exact, -2 * k)

(* The fraction is less than a whole, which the constructor insists on and *)
(* the comparisons rely on.                                                *)
FractionProper == acc.fraction < AMOUNT_MAX_FRACTION

(* Amounts compare as their values do. *)
OrderByValue ==
  \A x \in Operands : /\ Equal(acc, x) <=> Value(acc) = Value(x)
                      /\ Less(acc, x) <=> Value(acc) < Value(x)
=============================================================================
