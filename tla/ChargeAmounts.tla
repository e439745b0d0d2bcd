---------------------------- MODULE ChargeAmounts ----------------------------
(***************************************************************************)
(* Amounts as text: from the price a route is configured with to the base  *)
(* units of a charge (rust/src/protocol/intents/mod.rs, charge.rs).  Text  *)
(* is a sequence of one-character strings.                                 *)
(***************************************************************************)
EXTENDS Integers, Sequences, SequencesExt

CONSTANTS
  Unparsable,  \* the result of a failed conversion
  U64, U128    \* two to the power of the integers' widths

Digits == {"0", "1", "2", "3", "4", "5", "6", "7", "8", "9"}
DigitValue == [d \in Digits |->
  CHOOSE n \in 0..9 : <<"0", "1", "2", "3", "4", "5", "6", "7", "8", "9">>[n + 1] = d]
DigitText(n) == <<"0", "1", "2", "3", "4", "5", "6", "7", "8", "9">>[n + 1]

Zeros(n) == [i \in 1..n |-> "0"]

ValueOf(digits) ==
  LET value[k \in 0..Len(digits)] ==
        IF k = 0 THEN 0 ELSE 10 * value[k - 1] + DigitValue[digits[k]]
  IN value[Len(digits)]

\* Ten to the power of n.
TenTo(n) ==
  LET power[k \in 0..n] == IF k = 0 THEN 1 ELSE 10 * power[k - 1] IN power[n]

\* str::parse for an unsigned integer: an optional plus sign, digits, no overflow.
Signless(text) == IF text # <<>> /\ Head(text) = "+" THEN Tail(text) ELSE text

ParseUnsigned(text, width) ==
  LET digits == Signless(text) IN
    IF digits # <<>> /\ Range(digits) \subseteq Digits /\ ValueOf(digits) < width
    THEN ValueOf(digits)
    ELSE Unparsable

\* ToString of a number.
WriteUnsigned(n) ==
  LET length == CHOOSE k \in 1..(n + 1) : n < TenTo(k) /\ (k = 1 \/ n >= TenTo(k - 1)) IN
    [i \in 1..length |-> DigitText((n \div TenTo(length - i)) % 10)]

TrimZeros(text) ==
  LET kept == {i \in DOMAIN text : text[i] # "0"} IN
    IF kept = {} THEN <<>>
    ELSE SubSeq(text, CHOOSE i \in kept : \A j \in kept : i <= j, Len(text))

\* Mutant: the fraction is not padded to the token's decimals.
ParseUnitsUnpadded(amount, decimals) ==
  LET text == SelectSeq(amount, LAMBDA c : c # ".") IN
    IF text = <<>> \/ Len(text) < Len(amount) - 1 THEN Unparsable
    ELSE IF TrimZeros(text) = <<>> THEN <<"0">> ELSE TrimZeros(text)

\* With a point the text is only rearranged, what is not a digit included;
\* without one the number is multiplied, in 128 bits that a release build wraps.
ParseUnits(amount, decimals) ==
  LET points == {i \in DOMAIN amount : amount[i] = "."}
      point == CHOOSE i \in points : \A j \in points : i <= j
      integer == SubSeq(amount, 1, point - 1)
      fraction == SubSeq(amount, point + 1, Len(amount))
      combined == TrimZeros(integer \o fraction \o Zeros(decimals - Len(fraction)))
      value == ParseUnsigned(amount, U128)
  IN IF points # {}
     THEN IF Len(fraction) > decimals THEN Unparsable
          ELSE IF combined = <<>> THEN <<"0">> ELSE combined
     ELSE IF value = Unparsable THEN Unparsable
          ELSE WriteUnsigned((value * TenTo(decimals)) % U128)

\* ChargeRequest::parse_amount.
ParseAmount(text) == ParseUnsigned(text, U64)

\* Reference: what a decimal numeral is worth in units of 10^-decimals.  A second
\* point or anything else that is no digit, behind a leading plus sign or without
\* one, makes the text no numeral; a point alone counts as zero.
PointsOf(text) == {i \in DOMAIN text : text[i] = "."}
PointOf(text) == IF PointsOf(text) = {} THEN Len(text) + 1 ELSE CHOOSE i \in PointsOf(text) : TRUE

IsNumeral(text, decimals) ==
  /\ text # <<>>
  /\ Range(text) \subseteq Digits \cup {"."}
  /\ \A i, j \in PointsOf(text) : i = j
  /\ PointsOf(text) # {} => Len(text) - PointOf(text) <= decimals

WorthOf(text, decimals, i) ==
  IF i = PointOf(text) THEN 0
  ELSE DigitValue[text[i]]
         * TenTo((decimals + PointOf(text) - i) - (IF i < PointOf(text) THEN 1 ELSE 0))

UnitsOf(amount, decimals) ==
  LET text == Signless(amount)
      sum[i \in 0..Len(text)] == IF i = 0 THEN 0 ELSE sum[i - 1] + WorthOf(text, decimals, i)
  IN IF IsNumeral(text, decimals) THEN sum[Len(text)] ELSE Unparsable

=============================================================================
