------------------------------ MODULE Decimal ------------------------------
(***************************************************************************)
(* basic_bcd (bcd.hh), the number behind TNumeric: decimal digits, the     *)
(* most significant first, how many of them are behind the point, and the  *)
(* sign.  What an operation computes is a number, or Aborted where one of  *)
(* its asserts fails.  Division is left out.                               *)
(*                                                                         *)
(* The state is a number that is calculated with: numbers are added to it, *)
(* taken from it, multiplied with it, and it is rescaled, until it leaves  *)
(* the bounds.  Whatever it has become, the next calculation, comparisons  *)
(* and the ways to a text and into a database should be right.             *)
(***************************************************************************)
EXTENDS Integers, Sequences, FiniteSets

CONSTANTS
  Operands,   \* the numbers it is calculated with
  MaxScale,   \* the digits behind the point
  MaxUnits,   \* the largest amount, in units of the last of them
  Locales     \* pairs of a radix and a separator of the thousands

Number(nibbles, scale, sign) == [m_nibbles |-> nibbles, m_scale |-> scale, m_sign |-> sign]

Aborted == [aborted |-> TRUE]

Precision(x) == Len(x.m_nibbles)
MakePositive(x) == [x EXCEPT !.m_sign = TRUE]

Zeros(n) == [i \in 1 .. n |-> 0]

\* The digits of a natural number, of 0 as well.
DigitsOf(n) ==
  LET count == CHOOSE c \in 1 .. 10 : n < 10 ^ c /\ (c = 1 \/ n >= 10 ^ (c - 1))
  IN  [i \in 1 .. count |-> (n \div 10 ^ (count - i)) % 10]

\* The number that digits spell.
AsInteger(nibbles) ==
  LET n[i \in 0 .. Len(nibbles)] == IF i = 0 THEN 0 ELSE 10 * n[i - 1] + nibbles[i]
  IN  n[Len(nibbles)]

\* set_value(long long)
FromInt(v) == Number(DigitsOf(IF v < 0 THEN -v ELSE v), 0, v >= 0)

-----------------------------------------------------------------------------
(* The point                                                               *)

\* normalize(): no zeros ahead of the integer part, none behind the fraction.
Normalize(x) ==
  LET units   == Precision(x) - x.m_scale
      Lead    == {i \in 1 .. units : i = units \/ x.m_nibbles[i] # 0}
      first   == CHOOSE i \in Lead : \A j \in Lead : i <= j
      Last    == {i \in units .. Precision(x) : i = units \/ x.m_nibbles[i] # 0}
      last    == CHOOSE i \in Last : \A j \in Last : j <= i
  IN  IF units <= 0 THEN Aborted
      ELSE Number(SubSeq(x.m_nibbles, first, last), last - units, x.m_sign)

\* shift_left(c): times 10^c.
ShiftLeft(x, c) ==
  IF c <= x.m_scale THEN [x EXCEPT !.m_scale = @ - c]
  ELSE Number(x.m_nibbles \o Zeros(c - x.m_scale), 0, x.m_sign)

\* shift_right(c): divided by 10^c.
ShiftRight(x, c) ==
  LET scale   == x.m_scale + c
      missing == IF scale >= Precision(x) THEN scale + 1 - Precision(x) ELSE 0
  IN  IF c = 0 THEN x ELSE Number(Zeros(missing) \o x.m_nibbles, scale, x.m_sign)

\* scale_zero(): both numbers without a fraction, by the larger of the scales.
CommonScale(x, y) == IF x.m_scale > y.m_scale THEN x.m_scale ELSE y.m_scale
WithoutFraction(x, sc) == ShiftLeft(x, sc)

\* No assert of scale_zero() fails.
Proper(x) == Precision(x) > x.m_scale

-----------------------------------------------------------------------------
(* Digit by digit                                                          *)

\* The i-th digit from the right, none being 0.
FromRight(nibbles, i) == IF i <= Len(nibbles) THEN nibbles[Len(nibbles) + 1 - i] ELSE 0

\* valid_bcd() and the correction of a digit that is none.
Digit(val) == IF val < 10 THEN val ELSE (val + 6) % 16
Carry(val) == IF val < 10 THEN 0 ELSE 1

\* The sum of two rows of digits, as long as the longer, and its carry.
RowSum(a, b) ==
  LET n == IF Len(a) > Len(b) THEN Len(a) ELSE Len(b)
      carry[i \in 0 .. n] ==
        IF i = 0 THEN 0 ELSE Carry(carry[i - 1] + FromRight(a, i) + FromRight(b, i))
  IN  [digits |-> [i \in 1 .. n |->
                     Digit(carry[n - i] + FromRight(a, n + 1 - i) + FromRight(b, n + 1 - i))],
       carry  |-> carry[n]]

\* add() of what scale_zero() made of the operands: the sign is gone.
WithCarry(sum) == Number((IF sum.carry = 1 THEN <<1>> ELSE <<>>) \o sum.digits, 0, TRUE)

AddDigits(a, b, sc) == Normalize(ShiftRight(WithCarry(RowSum(a, b)), sc))

Add(x, y) ==
  LET sc == CommonScale(x, y)
  IN  IF ~Proper(x) \/ ~Proper(y) THEN Aborted
      ELSE AddDigits(WithoutFraction(x, sc).m_nibbles, WithoutFraction(y, sc).m_nibbles, sc)

\* compl10(): the nines' complement and one, normalized.
Compl10(nibbles) ==
  AddDigits([i \in DOMAIN nibbles |-> 9 - nibbles[i]], <<1>>, 0).m_nibbles

FillFront(nibbles, c) ==
  IF Len(nibbles) < c THEN Zeros(c - Len(nibbles)) \o nibbles ELSE nibbles

\* sub(): the ten's complement of y is added; without a carry the result is
\* taken for the complement of a negative one.
Complemented(sum, width) ==
  IF sum.carry = 1 THEN Number(sum.digits, 0, TRUE) ELSE Number(Compl10(FillFront(sum.digits, width)), 0, FALSE)

SubDigits(a, b, sc) ==
  Normalize(ShiftRight(Complemented(RowSum(a, Compl10(FillFront(b, Len(a)))), Len(b)), sc))

Sub(x, y) ==
  LET sc == CommonScale(x, y)
  IN  IF ~Proper(x) \/ ~Proper(y) THEN Aborted
      ELSE SubDigits(WithoutFraction(x, sc).m_nibbles, WithoutFraction(y, sc).m_nibbles, sc)

-----------------------------------------------------------------------------
(* Comparison                                                              *)

\* The order of two rows of digits without zeros ahead.
RowLess(a, b) ==
  \/ Len(a) < Len(b)
  \/ /\ Len(a) = Len(b)
     /\ \E i \in DOMAIN a : a[i] < b[i] /\ \A j \in 1 .. i - 1 : a[j] = b[j]

\* Both as rows of digits of the same weight.
RowOf10(x, y) == WithoutFraction(x, CommonScale(x, y)).m_nibbles

Equal(x, y) == RowOf10(x, y) = RowOf10(y, x) /\ x.m_sign = y.m_sign

\* A bug: the digits are compared whatever the sign.
Less_Unsigned(x, y) == RowLess(RowOf10(x, y), RowOf10(y, x))

Less(x, y) ==
  IF x.m_sign # y.m_sign THEN y.m_sign
  ELSE IF x.m_sign THEN RowLess(RowOf10(x, y), RowOf10(y, x))
  ELSE RowLess(RowOf10(y, x), RowOf10(x, y))

Greater(x, y) ==
  IF x.m_sign # y.m_sign THEN x.m_sign
  ELSE IF x.m_sign THEN RowLess(RowOf10(y, x), RowOf10(x, y))
  ELSE RowLess(RowOf10(x, y), RowOf10(y, x))

AtLeast(x, y) == Equal(x, y) \/ Greater(x, y)
AtMost(x, y)  == Equal(x, y) \/ Less(x, y)

-----------------------------------------------------------------------------
(* The operators                                                           *)

\* A result gets the sign the operator has found for it.
Signed(x, sign) == IF x = Aborted THEN x ELSE [x EXCEPT !.m_sign = sign]

\* operator+=
Plus(x, y) ==
  LET absX == MakePositive(x)
      absY == MakePositive(y)
  IN  IF ~Proper(x) \/ ~Proper(y) THEN Aborted
      ELSE IF x.m_sign = y.m_sign THEN Signed(Add(x, y), y.m_sign)
      ELSE Signed(Sub(x, y), IF x.m_sign THEN AtLeast(absX, absY) ELSE AtMost(absX, absY))

\* operator-=
Minus(x, y) ==
  LET absX == MakePositive(x)
      absY == MakePositive(y)
  IN  IF ~Proper(x) \/ ~Proper(y) THEN Aborted
      ELSE IF x.m_sign = y.m_sign
        THEN Signed(Sub(x, y), AtLeast(absX, absY) /\ x.m_sign)
      ELSE Signed(Add(x, y), IF x.m_sign THEN AtLeast(absX, absY) ELSE AtMost(absX, absY))

\* mul(): the first factor is added up for each digit of the second.  Both are
\* without a fraction, and two shifts put it back.
Mul(x, y) ==
  LET sc == CommonScale(x, y)
      a  == WithoutFraction(x, sc)
      b  == WithoutFraction(y, sc).m_nibbles
      times[i \in 0 .. 9] == IF i = 0 THEN FromInt(0) ELSE Plus(times[i - 1], a)
      result[c \in 0 .. Len(b)] ==
        IF c = 0 THEN FromInt(0)
        ELSE Plus(result[c - 1], ShiftLeft(times[FromRight(b, c)], c - 1))
  IN  IF ~Proper(x) \/ ~Proper(y) THEN Aborted
      ELSE Normalize(ShiftRight(ShiftRight(result[Len(b)], sc), sc))

\* operator*=
Times(x, y) == Signed(Mul(MakePositive(x), MakePositive(y)), x.m_sign = y.m_sign)

\* A bug: the digit that is dropped last does not round.
Dropped_Truncate(x, sc) ==
  Number(SubSeq(x.m_nibbles, 1, Precision(x) - (x.m_scale - sc)), sc, x.m_sign)

\* The digits behind the first sc of the fraction go, the last of them rounds;
\* the sum has lost the sign.
Dropped(x, sc) ==
  LET left == Precision(x) - (x.m_scale - sc)
      kept == Number(SubSeq(x.m_nibbles, 1, left), sc, x.m_sign)
  IN  IF x.m_nibbles[left + 1] < 5 THEN kept ELSE Add(kept, ShiftRight(FromInt(1), sc))

\* rescale(sc): a scale that is smaller, from the start or because the sum was
\* normalized, is only set, and the number gets another value.
Rescale(x, sc) ==
  LET r == IF x.m_scale > sc THEN Dropped(x, sc) ELSE x
  IN  IF r # Aborted /\ r.m_scale < sc /\ Precision(r) >= sc THEN [r EXCEPT !.m_scale = sc] ELSE r

-----------------------------------------------------------------------------
(* Text                                                                    *)

Invalid == [invalid |-> TRUE]

DigitChars == <<"0", "1", "2", "3", "4", "5", "6", "7", "8", "9">>

Chars(nibbles) == [i \in DOMAIN nibbles |-> DigitChars[nibbles[i] + 1]]
DigitOf(char)  == CHOOSE d \in 0 .. 9 : DigitChars[d + 1] = char

\* str(loc); a locale has a separator of the fraction and one of the thousands.
Str(x, loc) ==
  LET units == Precision(x) - x.m_scale
  IN  (IF x.m_sign THEN <<>> ELSE <<"-">>) \o Chars(SubSeq(x.m_nibbles, 1, units))
      \o (IF x.m_scale = 0 THEN <<>>
          ELSE <<loc.radix>> \o Chars(SubSeq(x.m_nibbles, units + 1, Precision(x))))

\* The digits behind the radix, from the characters ahead of it.
Scale(digits, before, thousands) == digits - (before - thousands)

\* set_strvalue(s, loc), of a text that is not empty: a radix ahead of all
\* other characters is not noticed.
FromStr(s, loc) ==
  LET signed  == s[1] \in {"+", "-"}
      text    == IF signed THEN Tail(s) ELSE s
      Noticed == {i \in DOMAIN text : text[i] = loc.radix /\ i > 1}
      chars   == SelectSeq(text, LAMBDA c : c \notin {loc.radix, loc.thousands})
      digits  == [i \in DOMAIN chars |-> DigitOf(chars[i])]
      Before(dot) == dot - 1
      Scaled(sc)  == Normalize(Number(digits, sc, ~signed \/ s[1] = "+"))
  IN  IF text = <<>> \/ Cardinality(Noticed) > 1 \/ \E i \in DOMAIN chars : \A d \in 1 .. 10 : chars[i] # DigitChars[d]
        THEN Invalid
      ELSE IF Noticed = {} THEN (IF digits = <<>> THEN Aborted ELSE Scaled(0))
      ELSE LET sc == Scale(Len(digits), Before(CHOOSE i \in Noticed : TRUE),
                           Cardinality({i \in DOMAIN text : text[i] = loc.thousands}))
           IN  IF sc \notin 0 .. Len(digits) - 1 THEN Aborted ELSE Scaled(sc)

-----------------------------------------------------------------------------
(* Numbers of the databases                                                *)

\* basic_bcd(num, scale): no more than one zero is put in front.
FromScaled(num, sc) ==
  LET n == FromInt(num).m_nibbles
      m == IF Len(n) = sc THEN <<0>> \o n ELSE n
  IN  IF Len(m) <= sc THEN Aborted ELSE Number(m, sc, num >= 0)

\* asLongLong(): what is ahead of the radix.
AsLongLong(x) ==
  LET units == AsInteger(SubSeq(x.m_nibbles, 1, Precision(x) - x.m_scale))
  IN  IF x.m_sign THEN units ELSE -units

\* A bug: the fraction is cut off.
FirebirdStored_Cut(x) == [int64 |-> AsLongLong(x), scale |-> x.m_scale]

\* What Firebird is sent for a number, an integer and its scale, and the number
\* that is read from such a column.
FirebirdStored(x) ==
  [int64 |-> AsLongLong(IF x.m_scale > 0 THEN Times(x, FromInt(10 ^ x.m_scale)) ELSE x),
   scale |-> x.m_scale]

FirebirdRead(stored) == FromScaled(stored.int64, stored.scale)

\* operator%, of positive integers.
Remainder(x, y) ==
  IF Equal(x, y) THEN FromInt(0) ELSE IF Greater(y, x) THEN x ELSE FromInt(AsInteger(x.m_nibbles) % AsInteger(y.m_nibbles))

\* divi()
Rounded(n, d) == (2 * n + d) \div (2 * d)

\* A bug: the sign of the magnitude is asked for, which has none.
OdbcWritten_Abs(x) ==
  [bytes |-> [i \in 1 .. 3 |-> (AsInteger(x.m_nibbles) \div 256 ^ (i - 1)) % 256], scale |-> x.m_scale, positive |-> TRUE]

\* bindParamNumeric(): the bytes of the magnitude, from the lowest one up to that
\* at which nothing is left; subtracting a byte that is zero goes wrong.
OdbcWritten(x) ==
  LET src[i \in 0 .. 3] ==
        IF i = 0 THEN Number(x.m_nibbles, 0, TRUE)
        ELSE Minus(src[i - 1], Remainder(src[i - 1], FromInt(256 ^ i)))
      Nothing(i) == Equal(src[i], FromInt(0))
      Left(i)    == \A j \in 1 .. i - 1 : ~Nothing(j)
      byte[i \in 1 .. 3] ==
        IF Left(i) THEN Rounded(AsInteger(Remainder(src[i - 1], FromInt(256 ^ i)).m_nibbles), 256 ^ (i - 1)) % 256 ELSE 0
  IN  [bytes |-> byte, scale |-> x.m_scale, positive |-> x.m_sign]

\* What is read from an ODBC driver's number: its magnitude, summed up byte by
\* byte, its scale and its sign.
OdbcRead(bytes, sc, positive) ==
  LET res[i \in 0 .. 3]   ==
        IF i = 0 THEN FromInt(0)
        ELSE Plus(res[i - 1], Times(FromInt(bytes[i]), FromInt(256 ^ (i - 1))))
      scaled == Rescale(res[3], sc)
  IN  IF positive \/ scaled = Aborted THEN scaled ELSE Times(scaled, FromInt(-1))

-----------------------------------------------------------------------------
(* A number that is calculated with                                        *)

VARIABLE number

registerVars == <<number>>

RegisterInit == number \in Operands

\* The amount of x in units of 10^-sc.
Magnitude(x, sc) == AsInteger(x.m_nibbles) * 10 ^ (sc - x.m_scale)
Amount(x, sc)    == IF x.m_sign THEN Magnitude(x, sc) ELSE -Magnitude(x, sc)

Storable(x) == x # Aborted /\ x.m_scale <= MaxScale /\ Magnitude(x, MaxScale) <= MaxUnits

\* The register gets the result; what does not fit is not calculated with.
Becomes(result) == Storable(result) /\ number' = result

add(b)      == Becomes(Plus(number, b))
subtract(b) == Becomes(Minus(number, b))
multiply(b) == Becomes(Times(number, b))
rescale(sc) == Becomes(Rescale(number, sc))

RegisterNext ==
  \/ \E b \in Operands : add(b) \/ subtract(b) \/ multiply(b)
  \/ \E sc \in 0 .. MaxScale : rescale(sc)

-----------------------------------------------------------------------------
IsZero(x) == AsInteger(x.m_nibbles) = 0
NegativeZero(x) == IsZero(x) /\ ~x.m_sign

Bigger(x, y) == Magnitude(x, MaxScale) > Magnitude(y, MaxScale)

\* A positive number is rounded half up, where the digit that is kept last does
\* not become a zero.
RescaleRounds ==
  Proper(number) /\ number.m_sign =>
    \A sc \in 0 .. MaxScale :
      LET step    == 10 ^ (MaxScale - sc)
          rounded == (Amount(number, MaxScale) + step \div 2) \div step
      IN  sc < number.m_scale /\ (rounded % 10 # 0 \/ sc = 0) =>
            Amount(Rescale(number, sc), sc) = rounded

\* Sums and products are exact, whatever carries, signs and scales meet; what
\* is left out is a sum of numbers of different signs where the second is zero.
\* So are differences where the number has the larger magnitude, or both are
\* positive, if what is taken is not zero.
SumsExact ==
  Proper(number) =>
    \A b \in Operands :
      /\ (b.m_sign = number.m_sign \/ ~IsZero(b)) =>
           Amount(Plus(number, b), MaxScale) = Amount(number, MaxScale) + Amount(b, MaxScale)
      /\ Amount(Times(number, b), 2 * MaxScale) = Amount(number, MaxScale) * Amount(b, MaxScale)
      /\ ~IsZero(b) /\ (Bigger(number, b) \/ (number.m_sign /\ b.m_sign)) =>
           Amount(Minus(number, b), MaxScale) = Amount(number, MaxScale) - Amount(b, MaxScale)

\* Calculations are exact and rounding is correct.
ArithmeticExact == SumsExact /\ RescaleRounds

\* What is compared is the amount, not the digits: across signs, scales and
\* lengths.  A negative zero is not the zero, and is left out.
OrderExact ==
  Proper(number) /\ ~NegativeZero(number) =>
    \A b \in Operands :
      LET n == Amount(number, MaxScale)
          m == Amount(b, MaxScale)
      IN  /\ Less(number, b) = (n < m)
          /\ Greater(number, b) = (n > m)
          /\ Equal(number, b) = (n = m)
          /\ AtLeast(number, b) = (n >= m)
          /\ AtMost(number, b) = (n <= m)

\* The text with a separator of thousands behind the i-th of its characters.
Grouped(text, i, loc) ==
  SubSeq(text, 1, i) \o <<loc.thousands>> \o SubSeq(text, i + 1, Len(text))

\* A text is read as the number it was made from, in its own locale, also with
\* thousands separated.
TextReadsBack ==
  Proper(number) =>
    \A loc \in Locales :
      LET text  == Str(number, loc)
          units == (IF number.m_sign THEN 0 ELSE 1) + Precision(number) - number.m_scale
      IN  /\ Equal(FromStr(text, loc), number)
          /\ \A i \in 1 .. units - 1 :
               Equal(FromStr(Grouped(text, i, loc), loc), number)

\* A number comes back from Firebird as it was stored, and from an ODBC driver as
\* the bytes of its magnitude, its scale and its sign say, if it has as many digits as
\* its scale: 0.05 is refused by the one and read as 5 by the other; and if no byte
\* of the magnitude but the last one is zero: 2.56 is sent as 87.04.
DatabaseReadsBack ==
  LET stored    == FirebirdStored(number)
      written   == OdbcWritten(number)
      magnitude == Magnitude(number, number.m_scale)
      digits    == DigitsOf(magnitude)
  IN  Proper(number) /\ Len(digits) >= number.m_scale /\ ~IsZero(number) =>
        /\ Equal(FirebirdRead(stored), number)
        /\ Len(digits) > number.m_scale /\ magnitude % 256 # 0 =>
             Equal(OdbcRead(written.bytes, written.scale, written.positive), number)

\* A number survives the way to a text and into a database, and back.
ReadsBack == TextReadsBack /\ DatabaseReadsBack

\* Numbers are calculated, compared, written and read as what they stand for.
DecimalExact == ArithmeticExact /\ OrderExact /\ ReadsBack

\* Every difference is exact, also of numbers of different signs and of zero.
DifferenceExact ==
  Proper(number) =>
    \A b \in Operands :
      Amount(Minus(number, b), MaxScale) = Amount(number, MaxScale) - Amount(b, MaxScale)
=============================================================================
