------------------------------ MODULE FixedPoint ------------------------------
(* The amounts of RPC parameters: decimal texts, read digit by digit into a     *)
(* mantissa and an exponent and then scaled, in integers that must not          *)
(* overflow; and the text an amount is given back as.  The bound is scaled      *)
(* down: 10^Digits - 1 stands for the 10^18 - 1 of the code.                    *)
EXTENDS Integers, Sequences, SequencesExt

CONSTANTS Digits,    \* 18: decimal digits that always fit
          Decimals,  \* 8: decimals of an amount
          Texts,     \* the texts that are parsed
          MaxZat     \* MAX_MONEY

\* A text: whether it has a minus sign, its integer digits, the sets {digits} of its fraction and
\* of its exponent when it has them, the exponent's sign, and whether something follows.
VARIABLES text, amount

fixedVars == <<text, amount>>

Unread == [ok |-> FALSE, value |-> 0]

FixedInit == text \in Texts /\ amount = {}

UpperBound == 10^Digits - 1

-----------------------------------------------------------------------------

Failed == [ok |-> FALSE, mantissa |-> 0, tzeros |-> 0]

\* m times 10, n times over; fails when it is too large before a multiplication.
Shift(m, n) ==
  FoldLeft(LAMBDA acc, i : IF acc.ok /\ acc.value \in -(UpperBound \div 10)..(UpperBound \div 10)
                           THEN [ok |-> TRUE, value |-> acc.value * 10] ELSE Unread,
           [ok |-> TRUE, value |-> m], [i \in 1..n |-> i])

DigitEager(s, d) ==
  IF ~s.ok THEN Failed
  ELSE IF d = 0 THEN [s EXCEPT !.tzeros = @ + 1]
  ELSE LET m == Shift(s.mantissa, s.tzeros)
       IN IF m.ok THEN [ok |-> TRUE, mantissa |-> m.value + d, tzeros |-> 0] ELSE Failed

\* process_mantissa_digit: zeros are counted, and multiplied in when another digit follows.
Digit(s, d) ==
  IF ~s.ok THEN Failed
  ELSE IF d = 0 THEN [s EXCEPT !.tzeros = @ + 1]
  ELSE LET m == Shift(s.mantissa, s.tzeros + 1)
       IN IF m.ok THEN [ok |-> TRUE, mantissa |-> m.value + d, tzeros |-> 0] ELSE Failed

Read(s, digits) == FoldLeft(Digit, s, digits)

\* The integer part: a single 0, which is passed over, or digits that do not start with one.
Integer(digits) ==
  IF digits = <<0>> THEN [ok |-> TRUE, mantissa |-> 0, tzeros |-> 0]
  ELSE IF digits = <<>> \/ digits[1] = 0 THEN Failed
  ELSE Read([ok |-> TRUE, mantissa |-> 0, tzeros |-> 0], digits)

Value(digits) == FoldLeft(LAMBDA acc, d : acc * 10 + d, 0, digits)

\* The exponent that scales the mantissa to zatoshis.  (One with too many digits to be read is
\* refused, as it would be for its size.)
Exponent(t, tzeros) ==
  LET e == FoldSet(LAMBDA digits, acc : Value(digits), 0, t.exp)
      point == FoldSet(LAMBDA digits, acc : Len(digits), 0, t.frac)
  IN (IF t.expNeg THEN -e ELSE e) - point + tzeros + Decimals

\* parse_fixed_point.
ParseFixedPoint(t) ==
  LET whole == Integer(t.int)
      all == FoldSet(LAMBDA digits, acc : Read(acc, digits), whole, t.frac)
      e == Exponent(t, all.tzeros)
      result == Shift(IF t.neg THEN -all.mantissa ELSE all.mantissa, e)
  IN IF ~all.ok \/ <<>> \in t.frac \cup t.exp \/ t.garbage \/ e < 0 \/ e >= Digits THEN Unread
     ELSE IF result.ok /\ result.value \in -UpperBound..UpperBound THEN result ELSE Unread

\* zatoshis_from_value: amounts are not negative and at most MAX_MONEY.
ZatoshisFromValue(t) ==
  LET p == ParseFixedPoint(t)
  IN IF p.ok /\ p.value \in 0..MaxZat THEN {p.value} ELSE {}

ParseAmount ==
  /\ amount = {}
  /\ amount' = ZatoshisFromValue(text)
  /\ UNCHANGED text

FixedNext == ParseAmount

-----------------------------------------------------------------------------

\* The digits of n, at least width of them.
DigitsOf(n, width) ==
  LET count == CHOOSE k \in width..(Digits + 1) : n < 10^k /\ \A j \in width..(k - 1) : n >= 10^j
  IN [i \in 1..count |-> (n \div 10^(count - i)) % 10]

ValueUnpadded(v) ==
  [neg |-> FALSE, int |-> DigitsOf(v \div 10^Decimals, 1), frac |-> {DigitsOf(v % 10^Decimals, 1)},
   exp |-> {}, expNeg |-> FALSE, garbage |-> FALSE]

\* value_from_zatoshis: the quotient by the number of zatoshis in a coin, all its decimals kept.
ValueFromZatoshis(v) ==
  [neg |-> FALSE, int |-> DigitsOf(v \div 10^Decimals, 1), frac |-> {DigitsOf(v % 10^Decimals, Decimals)},
   exp |-> {}, expNeg |-> FALSE, garbage |-> FALSE]

\* What the text means: a mantissa and the power of ten that makes it zatoshis.
Meaning(t) ==
  LET e == FoldSet(LAMBDA digits, acc : Value(digits), 0, t.exp)
      frac == FoldSet(LAMBDA digits, acc : digits, <<>>, t.frac)
  IN [mantissa |-> Value(t.int \o frac), exponent |-> (IF t.expNeg THEN -e ELSE e) - Len(frac) + Decimals]

WellFormed(t) ==
  /\ t.int # <<>> /\ (t.int[1] = 0 => Len(t.int) = 1)
  /\ <<>> \notin t.frac \cup t.exp /\ ~t.garbage

\* Parsing is exact: a text is accepted exactly when it is a well-formed number of zatoshis that
\* fits, and then as that number, whatever zeros and exponent it is written with.  The one
\* exception is zero with an exponent out of range (parse_fixed_point).
ParsesExactly ==
  LET m == Meaning(text)
      p == ParseFixedPoint(text)
      fits == IF m.exponent >= 0 THEN m.exponent <= Digits /\ m.mantissa * 10^m.exponent <= UpperBound
              ELSE m.mantissa % 10^(-m.exponent) = 0 /\ m.mantissa \div 10^(-m.exponent) <= UpperBound
      value == IF m.exponent >= 0 THEN m.mantissa * 10^m.exponent ELSE m.mantissa \div 10^(-m.exponent)
  IN IF m.mantissa = 0 THEN p.ok => p.value = 0
     ELSE /\ p.ok <=> (WellFormed(text) /\ fits)
          /\ p.ok => p.value = IF text.neg THEN -value ELSE value

\* An amount reads back as what was written: zatoshis_from_value inverts value_from_zatoshis.
ReadsBack == \A v \in amount : ZatoshisFromValue(ValueFromZatoshis(v)) = {v}

\* Amounts pass through their texts exactly, in both directions.
AmountsExact == ParsesExactly /\ ReadsBack
=============================================================================
