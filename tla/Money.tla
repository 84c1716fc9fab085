------------------------------- MODULE Money -------------------------------
(***************************************************************************)
(* The money type: amounts in minor units in a signed integer of fixed     *)
(* width that wraps around, checked arithmetic on it, and the conversion   *)
(* between amounts and decimal text.  All of it is pure; the state is the  *)
(* call under way with its result.                                         *)
(*                                                                         *)
(* A text is what the decimal pattern finds in it: a sign, a whole part of *)
(* any size and a fraction of exactly two digits.  Leading zeros change    *)
(* neither.                                                                *)
(***************************************************************************)
EXTENDS Integers

CONSTANTS Half,          \* 2^63 in the code: the integers are -Half .. Half-1
          Scale,         \* scaleFactor, minor units in a unit
          MaxWhole,      \* bound: the largest whole part of a text
          Currencies

ASSUME MoneyAssumption ==
    /\ Half \in Nat \ {0} /\ Scale \in Nat \ {0} /\ Scale < Half /\ MaxWhole \in Nat

VARIABLE call

MinInt == -Half
MaxInt == Half - 1
Ints   == MinInt..MaxInt

-----------------------------------------------------------------------------
(* Integers that wrap around, and the checks against it.                   *)

Good(v) == [ok |-> TRUE, val |-> v]
Bad     == [ok |-> FALSE, val |-> 0]

\* What the machine stores: for a sum, which is out by one turn at most, and for a
\* product.
WrapSum(n)     == IF n > MaxInt THEN n - 2 * Half ELSE IF n < MinInt THEN n + 2 * Half ELSE n
WrapProduct(n) == ((n + Half) % (2 * Half)) - Half

Abs(n) == IF n < 0 THEN -n ELSE n

\* Division truncates towards zero.
Quotient(a, b) ==
    IF (a < 0) = (b < 0) THEN Abs(a) \div Abs(b) ELSE -(Abs(a) \div Abs(b))

\* Mutant: a sum that falls below the smallest integer is not noticed.
addInt64_PositiveOnly(a, b) ==
    LET sum == WrapSum(a + b) IN IF b > 0 /\ sum < a THEN Bad ELSE Good(sum)

addInt64(a, b) ==
    LET sum == WrapSum(a + b)
    IN  IF (b > 0 /\ sum < a) \/ (b < 0 /\ sum > a) THEN Bad ELSE Good(sum)

negateInt64(a) == IF a = MinInt THEN Bad ELSE Good(-a)

subInt64(a, b) ==
    LET neg == negateInt64(b) IN IF neg.ok THEN addInt64(a, neg.val) ELSE Bad

\* Mutant: only the sign of the product is looked at.
mulInt64_SignOnly(a, b) ==
    LET result == WrapProduct(a * b)
    IN  IF a > 0 /\ b > 0 /\ result < 0 THEN Bad ELSE Good(result)

mulInt64(a, b) ==
    LET result == WrapProduct(a * b)
    IN  CASE a = 0 \/ b = 0                                       -> Good(0)
          [] (a = MinInt /\ b = -1) \/ (b = MinInt /\ a = -1)      -> Bad
          [] OTHER -> IF Quotient(result, b) # a THEN Bad ELSE Good(result)

-----------------------------------------------------------------------------
(* Amounts and their text.                                                 *)

NoCurrency == "none"

Amount(units, currency) == [units |-> units, currency |-> currency]
Amounts                 == [units : Ints, currency : Currencies]
NoAmount                == Amount(0, NoCurrency)

Returned(m)   == [err |-> "nil", money |-> m]
Failed(error) == [err |-> error, money |-> NoAmount]

\* form: empty, other (the pattern does not match), decimal.
Text(form, negative, whole, frac) ==
    [form |-> form, negative |-> negative, whole |-> whole, frac |-> frac]
Texts == { Text("empty", FALSE, 0, 0), Text("other", FALSE, 0, 0) }
         \cup { Text("decimal", s, w, f) : s \in BOOLEAN, w \in 0..MaxWhole, f \in 0..(Scale - 1) }

SameCurrency(m, n) == m.currency = n.currency

Add(m, n) ==
    LET sum == addInt64(m.units, n.units)
    IN  CASE ~SameCurrency(m, n)             -> Failed("ErrCurrencyMismatch")
          [] SameCurrency(m, n) /\ ~sum.ok   -> Failed("ErrOverflow")
          [] OTHER                           -> Returned(Amount(sum.val, m.currency))

Sub(m, n) ==
    LET diff == subInt64(m.units, n.units)
    IN  CASE ~SameCurrency(m, n)             -> Failed("ErrCurrencyMismatch")
          [] SameCurrency(m, n) /\ ~diff.ok  -> Failed("ErrOverflow")
          [] OTHER                           -> Returned(Amount(diff.val, m.currency))

Negate(m) ==
    LET neg == negateInt64(m.units)
    IN  IF neg.ok THEN Returned(Amount(neg.val, m.currency)) ELSE Failed("ErrOverflow")

\* The minor units of a text whose whole part is an integer.
Units(t) ==
    LET whole == mulInt64(t.whole, Scale)
        sum   == IF whole.ok THEN addInt64(whole.val, t.frac) ELSE Bad
    IN  IF sum.ok /\ t.negative /\ sum.val # 0 THEN negateInt64(sum.val) ELSE sum

Parse(t, currency) ==
    CASE t.form = "empty"                            -> Failed("ErrEmptyAmount")
      [] t.form = "other"                            -> Failed("ErrInvalidFormat")
      [] t.form = "decimal" /\ t.whole > MaxInt      -> Failed("ErrOverflow")
      [] t.form = "decimal" /\ t.whole <= MaxInt     ->
             IF Units(t).ok THEN Returned(Amount(Units(t).val, currency)) ELSE Failed("ErrOverflow")

ParseNonNegative(t, currency) ==
    LET parsed == Parse(t, currency)
    IN  IF parsed.err = "nil" /\ parsed.money.units < 0 THEN Failed("ErrNegativeAmount") ELSE parsed

\* Mutant: the magnitude is the negated integer.
DecimalString_Negates(m) ==
    LET magnitude == IF m.units < 0 THEN WrapSum(-m.units) ELSE m.units
    IN  Text("decimal", m.units < 0, magnitude \div Scale, magnitude % Scale)

\* The magnitude is computed in the unsigned type, by way of -(units+1), which an
\* integer can hold.
DecimalString(m) ==
    LET magnitude == IF m.units < 0 THEN -(m.units + 1) + 1 ELSE m.units
    IN  Text("decimal", m.units < 0, magnitude \div Scale, magnitude % Scale)

-----------------------------------------------------------------------------
(* Calls.                                                                  *)

Call(op, m, n, t, result) == [op |-> op, m |-> m, n |-> n, text |-> t, result |-> result]

NoText == Text("empty", FALSE, 0, 0)
NoCall == Call("none", NoAmount, NoAmount, NoText, Failed("none"))

CallAdd(m, n) == call' = Call("Add", m, n, NoText, Add(m, n))
CallSub(m, n) == call' = Call("Sub", m, n, NoText, Sub(m, n))
CallNegate(m) == call' = Call("Negate", m, NoAmount, NoText, Negate(m))

\* An amount given as text; the operations that take it from a provider use
\* ParseNonNegative.
CallParse(t, currency) ==
    call' = Call("Parse", NoAmount, NoAmount, t, Parse(t, currency))
CallParseNonNegative(t, currency) ==
    call' = Call("ParseNonNegative", NoAmount, NoAmount, t, ParseNonNegative(t, currency))

\* MarshalJSON, and UnmarshalJSON of what it wrote.
CallExchange(m) ==
    call' = Call("Exchange", m, NoAmount, DecimalString(m), Parse(DecimalString(m), m.currency))

Return == call # NoCall /\ call' = NoCall

Init == call = NoCall

Next ==
    \/ /\ call = NoCall
       /\ \/ \E m, n \in Amounts : CallAdd(m, n) \/ CallSub(m, n)
          \/ \E m \in Amounts : CallNegate(m) \/ CallExchange(m)
          \/ \E t \in Texts, c \in Currencies : CallParse(t, c) \/ CallParseNonNegative(t, c)
    \/ Return

Spec == Init /\ [][Next]_call

-----------------------------------------------------------------------------
(* Properties.                                                             *)

\* The result is the exact number n where n can be represented, and ErrOverflow
\* where it cannot.
Exactly(n) ==
    call.result = IF n \in Ints THEN Returned(Amount(n, call.m.currency)) ELSE Failed("ErrOverflow")

\* Addition, subtraction and negation in one currency are exact or refused, although
\* the overflow is only looked for after the sum has wrapped around.  One result that
\* could be represented is refused too: subtracting the smallest integer, because
\* Sub negates it first.
SumsExact ==
    /\ call.op = "Add" /\ SameCurrency(call.m, call.n) => Exactly(call.m.units + call.n.units)
    /\ call.op = "Sub" /\ SameCurrency(call.m, call.n) =>
           IF call.n.units = MinInt THEN call.result = Failed("ErrOverflow")
           ELSE Exactly(call.m.units - call.n.units)
    /\ call.op = "Negate" => Exactly(-call.m.units)

\* The number a decimal text denotes, in minor units.
Denotes(t) == (IF t.negative THEN -1 ELSE 1) * (t.whole * Scale + t.frac)

\* Parse returns exactly the number the text denotes if it and its opposite can be
\* represented, and else refuses the text: the product with the scale never wraps
\* around to a plausible amount.  ParseNonNegative refuses the negative numbers, and
\* -0.00 is not one.
ParseExact ==
    LET number == Denotes(call.text)
        fits   == call.text.form = "decimal" /\ number \in -MaxInt..MaxInt
    IN  /\ call.op = "Parse" =>
               IF fits THEN call.result.err = "nil" /\ call.result.money.units = number
               ELSE call.result.err # "nil"
        /\ call.op = "ParseNonNegative" =>
               IF fits /\ number >= 0 THEN call.result.err = "nil" /\ call.result.money.units = number
               ELSE call.result.err # "nil"

\* The text written for an amount denotes that amount, for the smallest integer too,
\* and reading it gives the amount back; only the smallest integer is written and not
\* read back.
ExchangeFaithful ==
    call.op = "Exchange" =>
        /\ Denotes(call.text) = call.m.units
        /\ call.result = IF call.m.units = MinInt THEN Failed("ErrOverflow") ELSE Returned(call.m)
=============================================================================
