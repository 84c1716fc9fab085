---------------------------- MODULE MoneyProofs ----------------------------
(***************************************************************************)
(* What module Money promises, for integers of any width and any scale.    *)
(***************************************************************************)
EXTENDS Money, TLAPS

-----------------------------------------------------------------------------
(* Sums.                                                                   *)

\* Adding is exact or refused: the comparison after the wrap-around finds every
\* overflow and nothing else.
LEMMA AddIntExact ==
    ASSUME NEW a \in Ints, NEW b \in Ints
    PROVE  addInt64(a, b) = IF a + b \in Ints THEN Good(a + b) ELSE Bad
<1> DEFINE sum == WrapSum(a + b)
           wrapped == (b > 0 /\ sum < a) \/ (b < 0 /\ sum > a)
<1>1. wrapped <=> a + b \notin Ints
  BY MoneyAssumption DEF WrapSum, Ints, MinInt, MaxInt
<1>2. a + b \in Ints => sum = a + b
  BY MoneyAssumption DEF WrapSum, Ints, MinInt, MaxInt
<1>3. addInt64(a, b) = IF wrapped THEN Bad ELSE Good(sum)
  BY DEF addInt64
<1> HIDE DEF sum, wrapped
<1> QED BY <1>1, <1>2, <1>3

LEMMA NegateIntExact ==
    ASSUME NEW a \in Ints
    PROVE  /\ negateInt64(a) = IF -a \in Ints THEN Good(-a) ELSE Bad
           /\ -a \in Ints <=> a # MinInt
BY MoneyAssumption DEF negateInt64, Ints, MinInt, MaxInt, Good, Bad

\* Subtracting is, too, but for the smallest integer.
LEMMA SubIntExact ==
    ASSUME NEW a \in Ints, NEW b \in Ints
    PROVE  subInt64(a, b) = IF b # MinInt /\ a - b \in Ints THEN Good(a - b) ELSE Bad
<1>1. CASE b = MinInt
  BY <1>1, NegateIntExact DEF subInt64, Bad
<1>2. CASE b # MinInt
  <2>1. -b \in Ints /\ negateInt64(b) = Good(-b)
    BY <1>2, NegateIntExact
  <2>2. subInt64(a, b) = addInt64(a, -b)
    BY <2>1 DEF subInt64, Good
  <2>3. a + (-b) = a - b
    BY MoneyAssumption DEF Ints, MinInt, MaxInt
  <2> QED BY <1>2, <2>1, <2>2, <2>3, AddIntExact
<1> QED BY <1>1, <1>2

\* The result of every call of Add, Sub and Negate is exact or refused, for integers
\* of every width.
THEOREM SumsAreExact == Spec => []SumsExact
<1>1. Init => SumsExact
  BY DEF Init, SumsExact, NoCall, Call
<1>2. SumsExact /\ [Next]_call => SumsExact'
  <2> SUFFICES ASSUME SumsExact, [Next]_call PROVE SumsExact'
    OBVIOUS
  <2>1. ASSUME NEW m \in Amounts, NEW n \in Amounts, CallAdd(m, n) PROVE SumsExact'
    <3>1. m.units \in Ints /\ n.units \in Ints
      BY DEF Amounts
    <3>2. call' = Call("Add", m, n, NoText, Add(m, n))
      BY <2>1 DEF CallAdd
    <3>3. SameCurrency(m, n) =>
              Add(m, n) = IF m.units + n.units \in Ints
                          THEN Returned(Amount(m.units + n.units, m.currency))
                          ELSE Failed("ErrOverflow")
      BY <3>1, AddIntExact DEF Add, Good, Bad
    <3> QED BY <3>2, <3>3 DEF SumsExact, Exactly, Call, SameCurrency
  <2>2. ASSUME NEW m \in Amounts, NEW n \in Amounts, CallSub(m, n) PROVE SumsExact'
    <3>1. m.units \in Ints /\ n.units \in Ints
      BY DEF Amounts
    <3>2. call' = Call("Sub", m, n, NoText, Sub(m, n))
      BY <2>2 DEF CallSub
    <3>3. SameCurrency(m, n) =>
              Sub(m, n) = IF n.units # MinInt /\ m.units - n.units \in Ints
                          THEN Returned(Amount(m.units - n.units, m.currency))
                          ELSE Failed("ErrOverflow")
      BY <3>1, SubIntExact DEF Sub, Good, Bad
    <3> QED BY <3>2, <3>3 DEF SumsExact, Exactly, Call, SameCurrency
  <2>3. ASSUME NEW m \in Amounts, CallNegate(m) PROVE SumsExact'
    <3>1. call' = Call("Negate", m, NoAmount, NoText, Negate(m))
      BY <2>3 DEF CallNegate
    <3>2. Negate(m) = IF -m.units \in Ints THEN Returned(Amount(-m.units, m.currency))
                      ELSE Failed("ErrOverflow")
      BY NegateIntExact DEF Negate, Good, Bad, Amounts
    <3> QED BY <3>1, <3>2 DEF SumsExact, Exactly, Call
  <2>4. ASSUME NEW m \in Amounts, CallExchange(m) PROVE SumsExact'
    BY <2>4 DEF CallExchange, SumsExact, Call
  <2>5. ASSUME NEW t \in Texts, NEW c \in Currencies, CallParse(t, c) \/ CallParseNonNegative(t, c)
        PROVE SumsExact'
    BY <2>5 DEF CallParse, CallParseNonNegative, SumsExact, Call
  <2>6. CASE Return
    BY <2>6 DEF Return, SumsExact, NoCall, Call
  <2>7. CASE UNCHANGED call
    BY <2>7 DEF SumsExact, Exactly
  <2> QED BY <2>1, <2>2, <2>3, <2>4, <2>5, <2>6, <2>7 DEF Next
<1> QED BY <1>1, <1>2, PTL DEF Spec

-----------------------------------------------------------------------------
(* Products with the scale.                                                *)

LEMMA Division ==
    ASSUME NEW n \in Nat, NEW d \in Nat \ {0}
    PROVE  /\ n \div d \in Nat /\ n % d \in 0..(d - 1)
           /\ n = (n \div d) * d + (n % d)
OBVIOUS

LEMMA Remainder ==
    ASSUME NEW n \in Int, NEW d \in Nat \ {0}
    PROVE  n % d \in 0..(d - 1) /\ (n \in 0..(d - 1) => n % d = n)
OBVIOUS

LEMMA QuotientExact ==
    ASSUME NEW a \in Nat, NEW d \in Nat \ {0}
    PROVE  a * d \in Nat /\ (a * d) \div d = a
OBVIOUS

\* The machine's product is an integer, and the true product if that is one.
LEMMA WrapProductInts ==
    ASSUME NEW n \in Int
    PROVE  WrapProduct(n) \in Ints /\ (n \in Ints => WrapProduct(n) = n)
<1> DEFINE d == 2 * Half
           m == n + Half
<1>1. d \in Nat \ {0} /\ m \in Int
  BY MoneyAssumption
<1>2. m % d \in 0..(d - 1) /\ (m \in 0..(d - 1) => m % d = m)
  <2> HIDE DEF d, m
  <2> QED BY <1>1, Remainder
<1>3. WrapProduct(n) = (m % d) - Half
  BY DEF WrapProduct
<1>4. m % d \in Int
  <2> HIDE DEF d, m
  <2> QED BY <1>1, <1>2
<1>5. n \in Ints => m \in 0..(d - 1)
  BY MoneyAssumption DEF Ints, MinInt, MaxInt
<1> DEFINE r == m % d
<1>6. r \in 0..(2 * Half - 1) /\ (n \in Ints => r = n + Half) /\ WrapProduct(n) = r - Half
  BY <1>2, <1>3, <1>5
<1> HIDE DEF r, m, d
<1> QED BY <1>6, MoneyAssumption DEF Ints, MinInt, MaxInt

\* Multiplying by the scale is exact or refused: a product that wrapped around is
\* too small to give the factor back.
LEMMA MulIntExact ==
    ASSUME NEW a \in 0..MaxInt
    PROVE  mulInt64(a, Scale) = IF a * Scale \in Ints THEN Good(a * Scale) ELSE Bad
<1> DEFINE r == WrapProduct(a * Scale)
<1>1. a \in Nat /\ Scale \in Nat \ {0} /\ a * Scale \in Nat
  BY MoneyAssumption, QuotientExact DEF MaxInt
<1>2. r \in Ints /\ (a * Scale \in Ints => r = a * Scale)
  BY <1>1, WrapProductInts
<1>3. CASE a = 0
  <2>1. a * Scale = 0 /\ 0 \in Ints
    BY <1>3, MoneyAssumption DEF Ints, MinInt, MaxInt
  <2>2. mulInt64(a, Scale) = Good(0)
    BY <1>1, <1>3, MoneyAssumption DEF mulInt64, MinInt
  <2> QED BY <2>1, <2>2
<1>4. CASE a # 0
  <2>1. mulInt64(a, Scale) = IF Quotient(r, Scale) # a THEN Bad ELSE Good(r)
    BY <1>1, <1>4, MoneyAssumption DEF mulInt64, MinInt
  <2>2. CASE a * Scale \in Ints
    <3>1. Quotient(r, Scale) = a
      BY <1>1, <1>2, <2>2, QuotientExact DEF Quotient, Abs
    <3> QED BY <1>2, <2>1, <2>2, <3>1
  <2>3. CASE a * Scale \notin Ints
    <3>1. r \in Int /\ r < a * Scale
      BY <1>1, <1>2, <2>3, MoneyAssumption DEF Ints, MinInt, MaxInt
    <3>2. CASE r < 0
      <4>1. Quotient(r, Scale) = -((-r) \div Scale)
        BY <1>1, <3>1, <3>2 DEF Quotient, Abs
      <4>2. (-r) \div Scale \in Nat
        BY <1>1, <3>1, <3>2, Division
      <4>3. Quotient(r, Scale) # a
        BY <1>1, <1>4, <4>1, <4>2
      <4> QED BY <2>1, <2>3, <4>3
    <3>3. CASE r >= 0
      <4>1. Quotient(r, Scale) = r \div Scale /\ r \in Nat
        BY <1>1, <3>1, <3>3 DEF Quotient, Abs
      <4>2. r >= (r \div Scale) * Scale
        <5>1. /\ r \div Scale \in Nat /\ r % Scale \in 0..(Scale - 1)
              /\ r = (r \div Scale) * Scale + (r % Scale)
          BY <1>1, <4>1, Division
        <5> QED BY <1>1, <4>1, <5>1
      <4>3. Quotient(r, Scale) # a
        BY <1>1, <3>1, <4>1, <4>2
      <4> QED BY <2>1, <2>3, <4>3
    <3> QED BY <3>1, <3>2, <3>3
  <2> QED BY <2>2, <2>3
<1> QED BY <1>3, <1>4

-----------------------------------------------------------------------------
(* Text.                                                                   *)

Decimals == [form : {"decimal"}, negative : BOOLEAN, whole : Nat, frac : 0..(Scale - 1)]

LEMMA MagnitudeType ==
    ASSUME NEW t \in Decimals
    PROVE  /\ t.whole * Scale \in Nat /\ t.whole * Scale >= t.whole
           /\ t.frac \in 0..(Scale - 1)
           /\ Denotes(t) = IF t.negative THEN -(t.whole * Scale + t.frac)
                           ELSE t.whole * Scale + t.frac
<1>1. t.whole \in Nat /\ t.frac \in 0..(Scale - 1) /\ t.negative \in BOOLEAN
  BY DEF Decimals
<1>2. t.whole * Scale \in Nat /\ t.whole * Scale >= t.whole
  BY <1>1, MoneyAssumption
<1> DEFINE p == t.whole * Scale
<1>3. Denotes(t) = (IF t.negative THEN -1 ELSE 1) * (p + t.frac)
  BY DEF Denotes
<1> HIDE DEF p
<1>4. Denotes(t) = IF t.negative THEN -(p + t.frac) ELSE p + t.frac
  BY <1>1, <1>2, <1>3, MoneyAssumption DEF p
<1> QED BY <1>1, <1>2, <1>4 DEF p

\* The minor units of a text are the number it denotes, or there are none.
LEMMA UnitsExact ==
    ASSUME NEW t \in Decimals, t.whole <= MaxInt
    PROVE  Units(t) = IF Denotes(t) \in -MaxInt..MaxInt THEN Good(Denotes(t)) ELSE Bad
<1> DEFINE p == t.whole * Scale
           f == t.frac
<1>1. /\ p \in Nat /\ f \in 0..(Scale - 1) /\ f \in Ints
      /\ Denotes(t) = IF t.negative THEN -(p + f) ELSE p + f
  BY MagnitudeType, MoneyAssumption DEF Ints, MinInt, MaxInt
<1>2. mulInt64(t.whole, Scale) = IF p \in Ints THEN Good(p) ELSE Bad
  BY MulIntExact DEF Decimals
<1> HIDE DEF p, f
<1>3. CASE p \notin Ints
  <2>1. Units(t) = Bad
    BY <1>2, <1>3 DEF Units, Bad
  <2>2. Denotes(t) \notin -MaxInt..MaxInt
    BY <1>1, <1>3, MoneyAssumption DEF Ints, MinInt, MaxInt
  <2> QED BY <2>1, <2>2
<1>4. CASE p \in Ints
  <2>1. addInt64(p, f) = IF p + f \in Ints THEN Good(p + f) ELSE Bad
    BY <1>1, <1>4, AddIntExact
  <2>2. p + f \in Ints <=> Denotes(t) \in -MaxInt..MaxInt
    BY <1>1, <1>4, MoneyAssumption DEF Ints, MinInt, MaxInt
  <2>3. CASE p + f \notin Ints
    BY <1>2, <1>4, <2>1, <2>2, <2>3 DEF Units, Good, Bad, f
  <2>4. CASE p + f \in Ints
    <3> DEFINE sum == p + f
    <3>1. sum \in Nat
      BY <1>1, MoneyAssumption
    <3>2. Units(t) = IF t.negative /\ sum # 0 THEN negateInt64(sum) ELSE Good(sum)
      BY <1>2, <1>4, <2>1, <2>4 DEF Units, Good, f
    <3>3. negateInt64(sum) = Good(-sum)
      BY <2>4, <3>1, MoneyAssumption DEF negateInt64, MinInt
    <3>4. Denotes(t) = IF t.negative /\ sum # 0 THEN -sum ELSE sum
      BY <1>1, <3>1
    <3> HIDE DEF sum
    <3> QED BY <2>2, <2>4, <3>2, <3>3, <3>4
  <2> QED BY <2>3, <2>4
<1> QED BY <1>3, <1>4

LEMMA ParseDecimal ==
    ASSUME NEW t \in Decimals, NEW c
    PROVE  Parse(t, c) = IF Denotes(t) \in -MaxInt..MaxInt THEN Returned(Amount(Denotes(t), c))
                         ELSE Failed("ErrOverflow")
<1>1. t.form = "decimal" /\ t.whole \in Nat
  BY DEF Decimals
<1>2. CASE t.whole <= MaxInt
  <2>1. Parse(t, c) = IF Units(t).ok THEN Returned(Amount(Units(t).val, c))
                      ELSE Failed("ErrOverflow")
    BY <1>1, <1>2, MoneyAssumption DEF Parse, MaxInt
  <2> QED BY <1>2, <2>1, UnitsExact DEF Good, Bad
<1>3. CASE t.whole > MaxInt
  <2>1. Parse(t, c) = Failed("ErrOverflow")
    BY <1>1, <1>3, MoneyAssumption DEF Parse, MaxInt
  <2>2. Denotes(t) \notin -MaxInt..MaxInt
    <3> DEFINE p == t.whole * Scale
    <3>1. p \in Nat /\ p >= t.whole /\ t.frac \in 0..(Scale - 1)
      BY MagnitudeType
    <3>2. Denotes(t) = IF t.negative THEN -(p + t.frac) ELSE p + t.frac
      BY MagnitudeType
    <3> HIDE DEF p
    <3> QED BY <1>1, <1>3, <3>1, <3>2, MoneyAssumption DEF MaxInt
  <2> QED BY <2>1, <2>2
<1> QED BY <1>1, <1>2, <1>3, MoneyAssumption DEF MaxInt

LEMMA TextsAreDecimals ==
    ASSUME NEW t \in Texts
    PROVE  /\ t.form \in {"empty", "other", "decimal"}
           /\ t.form = "decimal" => t \in Decimals
BY DEF Texts, Text, Decimals

\* Parse and ParseNonNegative return exactly the number the text denotes or refuse
\* it, for integers of every width, every scale and every whole part.
THEOREM ParseIsExact == Spec => []ParseExact
<1>1. Init => ParseExact
  BY DEF Init, ParseExact, NoCall, Call
<1>2. ParseExact /\ [Next]_call => ParseExact'
  <2> SUFFICES ASSUME ParseExact, [Next]_call PROVE ParseExact'
    OBVIOUS
  <2>1. ASSUME NEW t \in Texts, NEW c \in Currencies, CallParse(t, c) PROVE ParseExact'
    <3>1. call' = Call("Parse", NoAmount, NoAmount, t, Parse(t, c))
      BY <2>1 DEF CallParse
    <3>2. CASE t.form = "decimal"
      <4>1. Parse(t, c) = IF Denotes(t) \in -MaxInt..MaxInt THEN Returned(Amount(Denotes(t), c))
                          ELSE Failed("ErrOverflow")
        BY <3>2, TextsAreDecimals, ParseDecimal
      <4> QED BY <3>1, <3>2, <4>1 DEF ParseExact, Call, Returned, Failed, Amount
    <3>3. CASE t.form # "decimal"
      <4>1. Parse(t, c).err # "nil"
        BY <3>3, TextsAreDecimals DEF Parse, Failed
      <4> QED BY <3>1, <3>3, <4>1 DEF ParseExact, Call
    <3> QED BY <3>2, <3>3
  <2>2. ASSUME NEW t \in Texts, NEW c \in Currencies, CallParseNonNegative(t, c)
        PROVE  ParseExact'
    <3>1. call' = Call("ParseNonNegative", NoAmount, NoAmount, t, ParseNonNegative(t, c))
      BY <2>2 DEF CallParseNonNegative
    <3>2. CASE t.form = "decimal"
      <4>1. Parse(t, c) = IF Denotes(t) \in -MaxInt..MaxInt THEN Returned(Amount(Denotes(t), c))
                          ELSE Failed("ErrOverflow")
        BY <3>2, TextsAreDecimals, ParseDecimal
      <4>2. ParseNonNegative(t, c) =
                IF Denotes(t) \in -MaxInt..MaxInt
                THEN IF Denotes(t) < 0 THEN Failed("ErrNegativeAmount")
                     ELSE Returned(Amount(Denotes(t), c))
                ELSE Failed("ErrOverflow")
        BY <4>1 DEF ParseNonNegative, Returned, Failed, Amount
      <4>3. Denotes(t) \in -MaxInt..MaxInt => (Denotes(t) < 0 <=> ~(Denotes(t) >= 0))
        BY MoneyAssumption DEF MaxInt
      <4> QED BY <3>1, <3>2, <4>2, <4>3 DEF ParseExact, Call, Returned, Failed, Amount
    <3>3. CASE t.form # "decimal"
      <4>1. ParseNonNegative(t, c).err # "nil"
        BY <3>3, TextsAreDecimals DEF Parse, ParseNonNegative, Failed
      <4> QED BY <3>1, <3>3, <4>1 DEF ParseExact, Call
    <3> QED BY <3>2, <3>3
  <2>3. ASSUME NEW m \in Amounts, NEW n \in Amounts, CallAdd(m, n) \/ CallSub(m, n)
        PROVE  ParseExact'
    BY <2>3 DEF CallAdd, CallSub, ParseExact, Call
  <2>4. ASSUME NEW m \in Amounts, CallNegate(m) \/ CallExchange(m) PROVE ParseExact'
    BY <2>4 DEF CallNegate, CallExchange, ParseExact, Call
  <2>5. CASE Return
    BY <2>5 DEF Return, ParseExact, NoCall, Call
  <2>6. CASE UNCHANGED call
    BY <2>6 DEF ParseExact
  <2> QED BY <2>1, <2>2, <2>3, <2>4, <2>5, <2>6 DEF Next
<1> QED BY <1>1, <1>2, PTL DEF Spec

\* What DecimalString writes is a decimal text that denotes the amount.
LEMMA DecimalStringExact ==
    ASSUME NEW m \in Amounts
    PROVE  DecimalString(m) \in Decimals /\ Denotes(DecimalString(m)) = m.units
<1> DEFINE u == m.units
           g == IF u < 0 THEN -(u + 1) + 1 ELSE u
           t == DecimalString(m)
<1>1. u \in Int
  BY MoneyAssumption DEF Amounts, Ints, MinInt, MaxInt
<1>2. g \in Nat /\ u = IF u < 0 THEN -g ELSE g
  BY <1>1
<1>3. t = Text("decimal", u < 0, g \div Scale, g % Scale)
  BY DEF DecimalString
<1> HIDE DEF g, u, t
<1>4. /\ g \div Scale \in Nat /\ g % Scale \in 0..(Scale - 1)
      /\ g = (g \div Scale) * Scale + (g % Scale)
  BY <1>2, MoneyAssumption, Division
<1>5. /\ t \in Decimals /\ t.negative = (u < 0)
      /\ t.whole = g \div Scale /\ t.frac = g % Scale
  BY <1>3, <1>4 DEF Text, Decimals
<1>6. Denotes(t) = IF t.negative THEN -(t.whole * Scale + t.frac) ELSE t.whole * Scale + t.frac
  BY <1>5, MagnitudeType
<1>7. Denotes(t) = IF u < 0 THEN -g ELSE g
  BY <1>4, <1>5, <1>6
<1> QED BY <1>2, <1>5, <1>7 DEF u, t

\* The text of an amount denotes it, and reading the text gives the amount back,
\* but for the smallest integer, which is refused.
THEOREM ExchangeIsFaithful == Spec => []ExchangeFaithful
<1>1. Init => ExchangeFaithful
  BY DEF Init, ExchangeFaithful, NoCall, Call
<1>2. ExchangeFaithful /\ [Next]_call => ExchangeFaithful'
  <2> SUFFICES ASSUME ExchangeFaithful, [Next]_call PROVE ExchangeFaithful'
    OBVIOUS
  <2>1. ASSUME NEW m \in Amounts, CallExchange(m) PROVE ExchangeFaithful'
    <3> DEFINE t == DecimalString(m)
    <3>1. call' = Call("Exchange", m, NoAmount, t, Parse(t, m.currency))
      BY <2>1 DEF CallExchange
    <3>2. t \in Decimals /\ Denotes(t) = m.units
      BY DecimalStringExact
    <3> HIDE DEF t
    <3>3. Parse(t, m.currency) = IF m.units \in -MaxInt..MaxInt
                                 THEN Returned(Amount(m.units, m.currency))
                                 ELSE Failed("ErrOverflow")
      BY <3>2, ParseDecimal
    <3>4. m.units \in -MaxInt..MaxInt <=> m.units # MinInt
      BY MoneyAssumption DEF Amounts, Ints, MinInt, MaxInt
    <3>5. Amount(m.units, m.currency) = m
      BY DEF Amount, Amounts
    <3> QED BY <3>1, <3>2, <3>3, <3>4, <3>5 DEF ExchangeFaithful, Call
  <2>2. ASSUME NEW m \in Amounts, NEW n \in Amounts, CallAdd(m, n) \/ CallSub(m, n)
        PROVE  ExchangeFaithful'
    BY <2>2 DEF CallAdd, CallSub, ExchangeFaithful, Call
  <2>3. ASSUME NEW m \in Amounts, CallNegate(m) PROVE ExchangeFaithful'
    BY <2>3 DEF CallNegate, ExchangeFaithful, Call
  <2>4. ASSUME NEW t \in Texts, NEW c \in Currencies, CallParse(t, c) \/ CallParseNonNegative(t, c)
        PROVE  ExchangeFaithful'
    BY <2>4 DEF CallParse, CallParseNonNegative, ExchangeFaithful, Call
  <2>5. CASE Return
    BY <2>5 DEF Return, ExchangeFaithful, NoCall, Call
  <2>6. CASE UNCHANGED call
    BY <2>6 DEF ExchangeFaithful
  <2> QED BY <2>1, <2>2, <2>3, <2>4, <2>5, <2>6 DEF Next
<1> QED BY <1>1, <1>2, PTL DEF Spec
=============================================================================
