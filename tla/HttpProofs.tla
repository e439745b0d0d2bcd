------------------------------ MODULE HttpProofs ------------------------------
(***************************************************************************)
(* Proofs about the two HTTP components.  HttpGate, for every price, gate, *)
(* intermediary and number of faults: who has paid, and that what was paid *)
(* is the price, whatever text it was configured with.  HttpStream, for    *)
(* every script, every layout of its events and every way its bytes are    *)
(* cut into chunks: what the client reads and what it pays for.            *)
(***************************************************************************)
EXTENDS HttpGate, HttpStream, FiniteSetTheorems, WellFoundedInduction, TLAPS

-----------------------------------------------------------------------------
(* Induction, with a set in the place of the predicate. *)

\* A set that holds 0 and the successor of each of its numbers holds them all.
LEMMA NatSets ==
  ASSUME NEW T, 0 \in T, \A n \in Nat : n \in T => n + 1 \in T
  PROVE  \A n \in Nat : n \in T
<1> SUFFICES ASSUME Nat \ T # {} PROVE FALSE
  OBVIOUS
<1>1. PICK x \in Nat \ T : \A y \in Nat \ T : ~(<<y, x>> \in OpToRel(<, Nat))
  BY WFMin, NatLessThanWellFounded
<1>2. x # 0 /\ x - 1 \in Nat /\ x - 1 < x
  OBVIOUS
<1>3. x - 1 \in T
  <2> SUFFICES ASSUME x - 1 \notin T PROVE FALSE
    OBVIOUS
  <2>1. <<x - 1, x>> \in OpToRel(<, Nat)
    BY <1>2 DEF OpToRel
  <2> QED BY <1>1, <1>2, <2>1
<1>4. x - 1 + 1 \in T
  BY <1>2, <1>3
<1> QED BY <1>4

\* The same below a bound.
LEMMA PrefixSets ==
  ASSUME NEW n \in Nat, NEW T, 0 \in T, \A k \in 1..n : k - 1 \in T => k \in T
  PROVE  \A k \in 0..n : k \in T
<1> DEFINE U == {k \in Nat : k <= n => k \in T}
<1>1. 0 \in U
  OBVIOUS
<1>2. ASSUME NEW k \in Nat, k \in U
      PROVE  k + 1 \in U
  <2> SUFFICES ASSUME k + 1 <= n PROVE k + 1 \in T
    OBVIOUS
  <2>1. k \in T /\ k + 1 \in 1..n /\ (k + 1) - 1 = k
    BY <1>2
  <2> QED BY <2>1
<1> HIDE DEF U
<1>3. \A k \in Nat : k \in U
  BY <1>1, <1>2, NatSets
<1> QED BY <1>3 DEF U

\* The least number of a set.
LEMMA MinIn ==
  ASSUME NEW s \in SUBSET Nat, s # {}
  PROVE  Min(s) \in s /\ \A y \in s : Min(s) <= y
<1>1. PICK x \in s : \A y \in s : ~(<<y, x>> \in OpToRel(<, Nat))
  BY WFMin, NatLessThanWellFounded
<1>2. ASSUME NEW y \in s
      PROVE  x <= y
  <2> SUFFICES ASSUME y < x PROVE FALSE
    OBVIOUS
  <2>1. <<y, x>> \in OpToRel(<, Nat)
    BY DEF OpToRel
  <2> QED BY <1>1, <2>1
<1> QED BY <1>2 DEF Min

-----------------------------------------------------------------------------
(* Digits, powers of ten and the value of a row of digits. *)

LEMMA DigitValues ==
  /\ \A d \in Digits : DigitValue[d] \in 0..9
  /\ DigitValue["0"] = 0
  /\ "+" \notin Digits /\ "." \notin Digits
<1> DEFINE row == <<"0", "1", "2", "3", "4", "5", "6", "7", "8", "9">>
<1>1. \A d \in Digits : \E n \in 0..9 : row[n + 1] = d
  <2>1. /\ row[0 + 1] = "0" /\ row[1 + 1] = "1" /\ row[2 + 1] = "2" /\ row[3 + 1] = "3"
        /\ row[4 + 1] = "4" /\ row[5 + 1] = "5" /\ row[6 + 1] = "6" /\ row[7 + 1] = "7"
        /\ row[8 + 1] = "8" /\ row[9 + 1] = "9"
    OBVIOUS
  <2> HIDE DEF row
  <2> QED BY <2>1 DEF Digits
<1>2. \A n \in 0..9 : row[n + 1] = "0" => n = 0
  OBVIOUS
<1> HIDE DEF row
<1>3. \A d \in Digits : DigitValue[d] = CHOOSE n \in 0..9 : row[n + 1] = d
  BY DEF DigitValue, row
<1>4. \A d \in Digits : DigitValue[d] \in 0..9 /\ row[DigitValue[d] + 1] = d
  BY <1>1, <1>3
<1> QED BY <1>2, <1>4 DEF Digits

LEMMA DigitTexts ==
  ASSUME NEW n \in 0..9
  PROVE  DigitText(n) \in Digits /\ DigitValue[DigitText(n)] = n
<1> DEFINE row == <<"0", "1", "2", "3", "4", "5", "6", "7", "8", "9">>
<1>1. row[n + 1] \in Digits
  BY DEF Digits
<1>2. \A m \in 0..9 : row[m + 1] = row[n + 1] => m = n
  OBVIOUS
<1> HIDE DEF row
<1>3. DigitValue[row[n + 1]] = CHOOSE m \in 0..9 : row[m + 1] = row[n + 1]
  BY <1>1 DEF DigitValue, row
<1> QED BY <1>1, <1>2, <1>3 DEF DigitText, row

\* f is the running value of the digits.
Running(f, digits) ==
  /\ f[0] = 0
  /\ \A k \in 1..Len(digits) : f[k] = 10 * f[k - 1] + DigitValue[digits[k]]

LEMMA ValueIsRunning ==
  ASSUME NEW digits, Len(digits) \in Nat, NEW f, Running(f, digits)
  PROVE  ValueOf(digits) = f[Len(digits)]
<1> DEFINE n == Len(digits)
           Step(g) == [k \in 0..n |-> IF k = 0 THEN 0 ELSE 10 * g[k - 1] + DigitValue[digits[k]]]
           h == [k \in 0..n |-> f[k]]
           v == CHOOSE g : g = Step(g)
<1>1. h = Step(h)
  <2>1. \A k \in 0..n : h[k] = Step(h)[k]
    BY DEF Running
  <2> QED BY <2>1
<1>2. v = Step(v)
  BY <1>1
<1>3. ValueOf(digits) = v[n]
  BY DEF ValueOf
<1> HIDE DEF v
<1> DEFINE T == {k \in 0..n : v[k] = f[k]}
<1>4. 0 \in T
  <2>1. v[0] = 0 /\ 0 \in 0..n
    BY <1>2
  <2> QED BY <2>1 DEF Running
<1>5. ASSUME NEW k \in 1..n, k - 1 \in T
      PROVE  k \in T
  <2>1. v[k] = 10 * v[k - 1] + DigitValue[digits[k]]
    BY <1>2
  <2> QED BY <1>5, <2>1 DEF Running
<1> HIDE DEF T
<1>6. \A k \in 0..n : k \in T
  BY <1>4, <1>5, PrefixSets
<1> QED BY <1>3, <1>6 DEF T

LEMMA RunningExists ==
  ASSUME NEW digits \in Seq(Digits)
  PROVE  \E f \in [0..Len(digits) -> Nat] : Running(f, digits)
<1> DEFINE n == Len(digits)
           To(f, m) == /\ f \in [0..m -> Nat] /\ f[0] = 0
                       /\ \A k \in 1..m : f[k] = 10 * f[k - 1] + DigitValue[digits[k]]
           T == {m \in 0..n : \E f : To(f, m)}
<1>0. n \in Nat
  OBVIOUS
<1>1. 0 \in T
  <2>1. To([k \in 0..0 |-> 0], 0)
    OBVIOUS
  <2> HIDE DEF To
  <2> QED BY <1>0, <2>1
<1>2. ASSUME NEW m \in 1..n, m - 1 \in T
      PROVE  m \in T
  <2>1. PICK f : To(f, m - 1)
    BY <1>2
  <2> DEFINE g == [k \in 0..m |-> IF k = m THEN 10 * f[m - 1] + DigitValue[digits[m]] ELSE f[k]]
  <2>2. DigitValue[digits[m]] \in Nat
    BY DigitValues
  <2>3. To(g, m)
    <3>1. g[0] = 0
      BY <2>1
    <3>2. \A k \in 1..m : g[k] = 10 * g[k - 1] + DigitValue[digits[k]]
      BY <2>1
    <3>3. \A k \in 0..m : g[k] \in Nat
      BY <2>1, <2>2
    <3> QED BY <3>1, <3>2, <3>3
  <2> HIDE DEF To, g
  <2> QED BY <2>3
<1> HIDE DEF T, n
<1>3. \A m \in 0..n : m \in T
  BY <1>0, <1>1, <1>2, PrefixSets
<1>4. n \in T
  BY <1>0, <1>3
<1> QED BY <1>4 DEF T, n, Running

\* Powers of ten.
LEMMA Powers ==
  /\ TenTo(0) = 1
  /\ \A n \in Nat : TenTo(n) \in Nat \ {0} /\ TenTo(n + 1) = 10 * TenTo(n) /\ n < TenTo(n)
<1> DEFINE Step(n, g) == [k \in 0..n |-> IF k = 0 THEN 1 ELSE 10 * g[k - 1]]
           power(n) == CHOOSE g : g = Step(n, g)
           T == {n \in Nat : \E g : g = Step(n, g)}
<1>1. 0 \in T
  <2>1. [k \in 0..0 |-> 1] = Step(0, [k \in 0..0 |-> 1])
    OBVIOUS
  <2> QED BY <2>1
<1>2. ASSUME NEW n \in Nat, n \in T
      PROVE  n + 1 \in T
  <2>1. PICK g : g = Step(n, g)
    BY <1>2
  <2> DEFINE h == [k \in 0..(n + 1) |-> IF k = n + 1 THEN 10 * g[n] ELSE g[k]]
  <2>2. h = Step(n + 1, h)
    <3>1. \A k \in 0..(n + 1) : h[k] = Step(n + 1, h)[k]
      BY <2>1
    <3> QED BY <3>1
  <2> HIDE DEF Step, h
  <2> QED BY <2>2
<1> HIDE DEF T
<1>3. \A n \in Nat : n \in T
  BY <1>1, <1>2, NatSets
<1>4. \A n \in Nat : power(n) = Step(n, power(n))
  BY <1>3 DEF T
<1>5. \A n \in Nat : TenTo(n) = power(n)[n]
  BY DEF TenTo
<1> HIDE DEF power
<1>6. \A n \in Nat : power(n)[0] = 1 /\ \A k \in 1..n : power(n)[k] = 10 * power(n)[k - 1]
  BY <1>4
<1>7. ASSUME NEW n \in Nat, NEW m \in Nat, n <= m
      PROVE  power(m)[n] = power(n)[n]
  <2> DEFINE U == {k \in 0..n : power(m)[k] = power(n)[k]}
  <2>1. 0 \in U
    BY <1>6
  <2>2. ASSUME NEW k \in 1..n, k - 1 \in U
        PROVE  k \in U
    <3>1. k \in 1..m
      BY <1>7
    <3>2. power(m)[k] = 10 * power(m)[k - 1] /\ power(n)[k] = 10 * power(n)[k - 1]
      BY <1>6, <3>1
    <3> QED BY <2>2, <3>2
  <2> HIDE DEF U
  <2>3. \A k \in 0..n : k \in U
    BY <2>1, <2>2, PrefixSets
  <2> QED BY <2>3 DEF U
<1>8. TenTo(0) = 1
  BY <1>5, <1>6
<1>9. ASSUME NEW n \in Nat
      PROVE  TenTo(n + 1) = 10 * TenTo(n)
  <2>1. power(n + 1)[n + 1] = 10 * power(n + 1)[(n + 1) - 1]
    BY <1>6
  <2>2. power(n + 1)[n] = power(n)[n]
    BY <1>7
  <2> QED BY <1>5, <2>1, <2>2
<1> DEFINE U == {n \in Nat : TenTo(n) \in Nat \ {0} /\ n < TenTo(n)}
<1>10. 0 \in U
  BY <1>8
<1>11. ASSUME NEW n \in Nat, n \in U
       PROVE  n + 1 \in U
  BY <1>9, <1>11
<1> HIDE DEF U
<1>12. \A n \in Nat : n \in U
  BY <1>10, <1>11, NatSets
<1> QED BY <1>8, <1>9, <1>12 DEF U


LEMMA ValueIsNat ==
  ASSUME NEW digits \in Seq(Digits)
  PROVE  ValueOf(digits) \in Nat
<1>1. PICK f \in [0..Len(digits) -> Nat] : Running(f, digits)
  BY RunningExists
<1>2. ValueOf(digits) = f[Len(digits)] /\ Len(digits) \in Nat
  BY <1>1, ValueIsRunning
<1> QED BY <1>2

\* Leading zeros are worth nothing.
LEMMA TrimKeepsValue ==
  ASSUME NEW digits \in Seq(Digits)
  PROVE  /\ TrimZeros(digits) \in Seq(Digits)
         /\ ValueOf(TrimZeros(digits)) = ValueOf(digits)
<1> DEFINE n == Len(digits)
           kept == {i \in DOMAIN digits : digits[i] # "0"}
<1>1. PICK f \in [0..n -> Nat] : Running(f, digits)
  BY RunningExists
<1>2. n \in Nat /\ DOMAIN digits = 1..n /\ ValueOf(digits) = f[n]
  BY <1>1, ValueIsRunning
<1>3. \A m \in 0..n : (\A i \in 1..m : digits[i] = "0") => f[m] = 0
  <2> DEFINE T == {m \in 0..n : (\A i \in 1..m : digits[i] = "0") => f[m] = 0}
  <2>1. 0 \in T
    BY <1>1, <1>2 DEF Running
  <2>2. ASSUME NEW m \in 1..n, m - 1 \in T
        PROVE  m \in T
    <3>1. f[m] = 10 * f[m - 1] + DigitValue[digits[m]]
      BY <1>1 DEF Running
    <3>2. digits[m] = "0" => DigitValue[digits[m]] = 0
      BY DigitValues
    <3> QED BY <2>2, <3>1, <3>2
  <2> HIDE DEF T
  <2>3. \A m \in 0..n : m \in T
    BY <1>2, <2>1, <2>2, PrefixSets
  <2> QED BY <2>3 DEF T
<1>4. CASE kept = {}
  <2>1. TrimZeros(digits) = <<>>
    BY <1>4 DEF TrimZeros
  <2>2. ValueOf(<<>>) = 0
    <3>1. Running([k \in 0..0 |-> 0], <<>>)
      BY DEF Running
    <3>2. Len(<<>>) = 0 /\ [k \in 0..0 |-> 0][0] = 0
      OBVIOUS
    <3> QED BY <3>1, <3>2, ValueIsRunning
  <2>3. f[n] = 0
    BY <1>2, <1>3, <1>4
  <2> QED BY <1>2, <2>1, <2>2, <2>3
<1>5. CASE kept # {}
  <2> DEFINE first == CHOOSE i \in kept : \A j \in kept : i <= j
  <2>1. first \in kept /\ \A j \in kept : first <= j
    <3>1. kept \in SUBSET Nat
      BY <1>2
    <3> HIDE DEF kept
    <3>2. Min(kept) \in kept /\ \A y \in kept : Min(kept) <= y
      BY <1>5, <3>1, MinIn
    <3> QED BY <3>2
  <2>2. TrimZeros(digits) = SubSeq(digits, first, n)
    BY <1>5 DEF TrimZeros
  <2> HIDE DEF first
  <2>3. first \in 1..n
    BY <1>2, <2>1
  <2> DEFINE tail == SubSeq(digits, first, n)
             g == [k \in 0..(n - first + 1) |-> f[first - 1 + k]]
  <2>4. /\ tail \in Seq(Digits) /\ Len(tail) = n - first + 1
        /\ \A k \in 1..(n - first + 1) : tail[k] = digits[first - 1 + k]
    BY <1>2, <2>3
  <2>5. f[first - 1] = 0
    <3>1. \A i \in 1..(first - 1) : digits[i] = "0"
      BY <1>2, <2>1, <2>3
    <3> QED BY <1>2, <1>3, <2>3, <3>1
  <2> HIDE DEF tail
  <2>6. Running(g, tail)
    <3>1. g[0] = 0
      BY <1>2, <2>3, <2>5
    <3>2. ASSUME NEW k \in 1..Len(tail)
          PROVE  g[k] = 10 * g[k - 1] + DigitValue[tail[k]]
      <4>1. k \in 1..(n - first + 1) /\ first - 1 + k \in 1..n
        BY <1>2, <2>3, <2>4
      <4>2. f[first - 1 + k] = 10 * f[(first - 1 + k) - 1] + DigitValue[digits[first - 1 + k]]
        BY <1>1, <4>1 DEF Running
      <4>3. tail[k] = digits[first - 1 + k]
        BY <2>4, <4>1
      <4>4. g[k] = f[first - 1 + k] /\ g[k - 1] = f[(first - 1 + k) - 1]
        BY <2>3, <4>1
      <4> QED BY <4>2, <4>3, <4>4
    <3> QED BY <3>1, <3>2 DEF Running
  <2>7. ValueOf(tail) = g[n - first + 1]
    <3>1. Len(tail) = n - first + 1 /\ n - first + 1 \in Nat
      BY <1>2, <2>3, <2>4
    <3> HIDE DEF g
    <3> QED BY <2>6, <3>1, ValueIsRunning
  <2>8. g[n - first + 1] = f[n]
    BY <1>2, <2>3
  <2> QED BY <1>2, <2>2, <2>4, <2>7, <2>8 DEF tail
<1> QED BY <1>4, <1>5

\* A text that begins with a sign keeps its zeros.
LEMMA TrimKeepsSign ==
  ASSUME NEW S, NEW text \in Seq(S), text # <<>>, text[1] # "0"
  PROVE  TrimZeros(text) = text
<1> DEFINE kept == {i \in DOMAIN text : text[i] # "0"}
<1>1. Len(text) \in Nat \ {0} /\ DOMAIN text = 1..Len(text)
  OBVIOUS
<1>2. 1 \in kept /\ \A j \in kept : 1 <= j
  BY <1>1
<1>3. (CHOOSE i \in kept : \A j \in kept : i <= j) = 1
  <2>1. kept \subseteq Nat
    BY <1>1
  <2> HIDE DEF kept
  <2>2. \A i \in kept : (\A j \in kept : i <= j) => i = 1
    BY <1>2, <2>1
  <2> QED BY <1>2, <2>2
<1>4. TrimZeros(text) = SubSeq(text, 1, Len(text))
  BY <1>2, <1>3 DEF TrimZeros
<1> QED BY <1>1, <1>4


LEMMA ParsesDigits ==
  ASSUME NEW digits \in Seq(Digits), digits # <<>>, NEW width
  PROVE  ParseUnsigned(digits, width)
           = IF ValueOf(digits) < width THEN ValueOf(digits) ELSE Unparsable
<1>1. Head(digits) \in Digits
  OBVIOUS
<1>2. Head(digits) # "+"
  BY <1>1, DigitValues
<1>3. Range(digits) \subseteq Digits
  BY DEF Range
<1> QED BY <1>2, <1>3 DEF ParseUnsigned, Signless

\* What parses is digits, behind a sign or not.
LEMMA ParsedDigits ==
  ASSUME NEW S, NEW text \in Seq(S), NEW width, ParseUnsigned(text, width) # Unparsable,
         NEW digits, digits = Signless(text)
  PROVE  /\ digits \in Seq(Digits) /\ digits # <<>>
         /\ ValueOf(digits) < width /\ ParseUnsigned(text, width) = ValueOf(digits)
<1>1. /\ digits # <<>> /\ Range(digits) \subseteq Digits
      /\ ValueOf(digits) < width /\ ParseUnsigned(text, width) = ValueOf(digits)
  BY DEF ParseUnsigned
<1>2. digits \in Seq(S)
  BY DEF Signless
<1>3. \A i \in 1..Len(digits) : digits[i] \in Digits
  BY <1>1, <1>2 DEF Range
<1>4. digits \in Seq(Digits)
  BY <1>2, <1>3
<1> QED BY <1>1, <1>4

\* Division by ten, digit by digit.
LEMMA DivideOn ==
  ASSUME NEW n \in Nat, NEW b \in Nat \ {0}
  PROVE  /\ n \div b \in Nat
         /\ n \div b = 10 * (n \div (10 * b)) + ((n \div b) % 10)
         /\ (n \div b) % 10 \in 0..9
<1> DEFINE a == n \div b
           q == a \div 10
<1>1. a \in Nat /\ b * a <= n /\ n < b * (a + 1)
  OBVIOUS
<1> HIDE DEF a
<1>2. q \in Nat /\ a = 10 * q + (a % 10) /\ a % 10 \in 0..9
  BY <1>1
<1> HIDE DEF q
<1>3. (10 * b) * q <= n /\ n < (10 * b) * (q + 1)
  <2>1. 10 * q <= a /\ a + 1 <= 10 * (q + 1)
    BY <1>1, <1>2
  <2>2. b * (10 * q) <= b * a /\ b * (a + 1) <= b * (10 * (q + 1))
    BY <1>1, <1>2, <2>1
  <2>3. b * (10 * q) = (10 * b) * q /\ b * (10 * (q + 1)) = (10 * b) * (q + 1)
    BY <1>2
  <2>4. (10 * b) * q \in Nat /\ (10 * b) * (q + 1) \in Nat /\ b * a \in Nat /\ b * (a + 1) \in Nat
    BY <1>1, <1>2
  <2> QED BY <1>1, <2>2, <2>3, <2>4
<1>4. n \div (10 * b) = q
  <2> DEFINE c == 10 * b
             r == n \div c
  <2>1. c \in Nat \ {0}
    OBVIOUS
  <2> HIDE DEF c
  <2>2. r \in Nat /\ c * r <= n /\ n < c * (r + 1)
    BY <2>1
  <2> HIDE DEF r
  <2>3. c * q <= n /\ n < c * (q + 1)
    BY <1>3 DEF c
  <2>4. r < q + 1
    <3>1. c * r < c * (q + 1)
      BY <1>2, <2>1, <2>2, <2>3
    <3> QED BY <1>2, <2>1, <2>2, <3>1
  <2>5. q < r + 1
    <3>1. c * q < c * (r + 1)
      BY <1>2, <2>1, <2>2, <2>3
    <3> QED BY <1>2, <2>1, <2>2, <3>1
  <2>6. r = q
    BY <1>2, <2>2, <2>4, <2>5
  <2> QED BY <2>6 DEF r, c
<1> QED BY <1>1, <1>2, <1>4 DEF a

\* What ToString writes parses to the same number, or is too large to parse.
LEMMA WrittenParses ==
  ASSUME NEW n \in Nat, NEW width
  PROVE  ParseUnsigned(WriteUnsigned(n), width) = IF n < width THEN n ELSE Unparsable
<1> DEFINE Fits(k) == n < TenTo(k) /\ (k = 1 \/ n >= TenTo(k - 1))
           length == CHOOSE k \in 1..(n + 1) : Fits(k)
<1>1. length \in 1..(n + 1) /\ Fits(length)
  <2> DEFINE big == {k \in 1..(n + 1) : n < TenTo(k)}
  <2>1. n + 1 \in big
    <3>1. n + 1 < TenTo(n + 1) /\ TenTo(n + 1) \in Nat
      BY Powers
    <3> QED BY <3>1
  <2>2. big \in SUBSET Nat
    OBVIOUS
  <2> HIDE DEF big
  <2>3. Min(big) \in big /\ \A y \in big : Min(big) <= y
    BY <2>1, <2>2, MinIn
  <2> DEFINE least == Min(big)
  <2> HIDE DEF least
  <2>4. least \in 1..(n + 1) /\ n < TenTo(least) /\ \A y \in big : least <= y
    BY <2>3 DEF least, big
  <2>5. least # 1 => ~(n < TenTo(least - 1))
    <3>1. least # 1 => least - 1 \in 1..(n + 1) /\ ~(least <= least - 1)
      BY <2>4
    <3> QED BY <2>4, <3>1 DEF big
  <2>6. least # 1 => TenTo(least - 1) \in Nat
    <3>1. least # 1 => least - 1 \in Nat
      BY <2>4
    <3> QED BY <3>1, Powers
  <2>7. Fits(least)
    BY <2>4, <2>5, <2>6
  <2> HIDE DEF Fits
  <2> QED BY <2>4, <2>7
<1> HIDE DEF length
<1> DEFINE text == [i \in 1..length |-> DigitText((n \div TenTo(length - i)) % 10)]
           f == [k \in 0..length |-> n \div TenTo(length - k)]
<1>2. WriteUnsigned(n) = text
  BY DEF WriteUnsigned, length
<1>3. \A k \in 0..length : TenTo(length - k) \in Nat \ {0}
  <2>1. \A k \in 0..length : length - k \in Nat
    BY <1>1
  <2> QED BY <2>1, Powers
<1>4. \A k \in 1..length : TenTo(length - (k - 1)) = 10 * TenTo(length - k)
  <2>1. \A k \in 1..length : length - k \in Nat /\ length - (k - 1) = (length - k) + 1
    BY <1>1
  <2> QED BY <2>1, Powers
<1>5. \A i \in 1..length : text[i] \in Digits /\ DigitValue[text[i]] = (n \div TenTo(length - i)) % 10
  <2> TAKE i \in 1..length
  <2>1. (n \div TenTo(length - i)) % 10 \in 0..9
    <3>1. TenTo(length - i) \in Nat \ {0}
      BY <1>1, <1>3
    <3> QED BY <3>1, DivideOn
  <2> QED BY <2>1, DigitTexts
<1>6. text \in Seq(Digits) /\ Len(text) = length /\ text # <<>>
  BY <1>1, <1>5
<1>7. Running(f, text)
  <2>1. f[0] = 0
    <3>1. f[0] = n \div TenTo(length - 0) /\ length - 0 = length
      BY <1>1
    <3>2. n < TenTo(length) /\ TenTo(length) \in Nat \ {0}
      BY <1>1, Powers
    <3> QED BY <3>1, <3>2
  <2>2. ASSUME NEW k \in 1..length
        PROVE  f[k] = 10 * f[k - 1] + DigitValue[text[k]]
    <3> DEFINE b == TenTo(length - k)
    <3>1. b \in Nat \ {0} /\ TenTo(length - (k - 1)) = 10 * b
      BY <1>1, <1>3, <1>4
    <3> HIDE DEF b
    <3>2. n \div b = 10 * (n \div (10 * b)) + ((n \div b) % 10)
      BY <3>1, DivideOn
    <3>3. f[k] = n \div b /\ f[k - 1] = n \div (10 * b)
      BY <1>1, <3>1 DEF b
    <3>4. DigitValue[text[k]] = (n \div b) % 10
      BY <1>5 DEF b
    <3> HIDE DEF f, text
    <3> QED BY <3>2, <3>3, <3>4
  <2> HIDE DEF f, text
  <2> QED BY <1>6, <2>1, <2>2 DEF Running
<1>8. f[length] = n
  <2>1. f[length] = n \div TenTo(0)
    BY <1>1
  <2>2. TenTo(0) = 1
    BY Powers
  <2>3. n \div 1 = n
    OBVIOUS
  <2> HIDE DEF f
  <2> QED BY <2>1, <2>2, <2>3
<1> HIDE DEF f, text
<1>9. ValueOf(text) = n
  BY <1>1, <1>6, <1>7, <1>8, ValueIsRunning
<1>10. ParseUnsigned(text, width) = IF ValueOf(text) < width THEN ValueOf(text) ELSE Unparsable
  BY <1>6, ParsesDigits
<1> QED BY <1>2, <1>9, <1>10


-----------------------------------------------------------------------------
(* What a numeral is worth. *)

\* The digits of a numeral in base units: the point taken out, zeros filled in.
BaseDigits(text, decimals) ==
  [i \in 1..(decimals + PointOf(text) - 1) |->
     IF i < PointOf(text) THEN text[i] ELSE IF i < Len(text) THEN text[i + 1] ELSE "0"]

\* u is the running sum of what the places of the text are worth.
Summing(u, text, decimals) ==
  /\ u[0] = 0
  /\ \A i \in 1..Len(text) : u[i] = u[i - 1] + WorthOf(text, decimals, i)

LEMMA UnitsAreSum ==
  ASSUME NEW amount, NEW decimals \in Nat, IsNumeral(Signless(amount), decimals),
         Len(Signless(amount)) \in Nat, NEW u, Summing(u, Signless(amount), decimals)
  PROVE  UnitsOf(amount, decimals) = u[Len(Signless(amount))]
<1> DEFINE text == Signless(amount)
           n == Len(text)
           Step(g) == [i \in 0..n |-> IF i = 0 THEN 0 ELSE g[i - 1] + WorthOf(text, decimals, i)]
           h == [i \in 0..n |-> u[i]]
           sum == CHOOSE g : g = Step(g)
<1>1. UnitsOf(amount, decimals) = sum[n]
  BY DEF UnitsOf
<1>2. h = Step(h)
  <2>1. \A i \in 0..n : h[i] = Step(h)[i]
    BY DEF Summing
  <2> QED BY <2>1
<1>3. sum = Step(sum)
  BY <1>2
<1> HIDE DEF sum
<1> DEFINE T == {i \in 0..n : sum[i] = u[i]}
<1>4. 0 \in T
  BY <1>3 DEF Summing
<1>5. ASSUME NEW i \in 1..n, i - 1 \in T
      PROVE  i \in T
  <2>1. sum[i] = sum[i - 1] + WorthOf(text, decimals, i)
    BY <1>3
  <2> QED BY <1>5, <2>1 DEF Summing
<1> HIDE DEF T
<1>6. \A i \in 0..n : i \in T
  BY <1>4, <1>5, PrefixSets
<1> QED BY <1>1, <1>6 DEF T


\* Each digit is worth its place, and the value is the sum.
Weighed(w, digits) ==
  /\ w[0] = 0
  /\ \A k \in 1..Len(digits) :
       w[k] = w[k - 1] + DigitValue[digits[k]] * TenTo(Len(digits) - k)

LEMMA ValueIsWeighed ==
  ASSUME NEW digits \in Seq(Digits)
  PROVE  \E w \in [0..Len(digits) -> Nat] :
           Weighed(w, digits) /\ w[Len(digits)] = ValueOf(digits)
<1> DEFINE n == Len(digits)
<1>0. n \in Nat
  OBVIOUS
<1>1. PICK f \in [0..n -> Nat] : Running(f, digits)
  BY RunningExists
<1>2. ValueOf(digits) = f[n]
  BY <1>0, <1>1, ValueIsRunning
<1> HIDE DEF n
<1> DEFINE w == [k \in 0..n |-> f[k] * TenTo(n - k)]
<1>3. \A k \in 0..n : n - k \in Nat /\ TenTo(n - k) \in Nat
  <2>1. \A k \in 0..n : n - k \in Nat
    BY <1>0
  <2> QED BY <2>1, Powers
<1>4. w \in [0..n -> Nat]
  <2>1. \A x, y \in Nat : x * y \in Nat
    OBVIOUS
  <2>2. \A k \in 0..n : f[k] \in Nat
    BY <1>1
  <2>3. \A k \in 0..n : w[k] \in Nat
    BY <1>3, <2>1, <2>2
  <2>4. w = [k \in 0..n |-> w[k]]
    OBVIOUS
  <2> HIDE DEF w
  <2> QED BY <2>3, <2>4
<1>5. w[0] = 0
  <2>1. w[0] = f[0] * TenTo(n) /\ f[0] = 0
    <3>1. n - 0 = n
      BY <1>0
    <3>2. w[0] = f[0] * TenTo(n - 0)
      BY <1>0
    <3> HIDE DEF w
    <3> QED BY <1>1, <3>1, <3>2 DEF Running
  <2>2. TenTo(n) \in Nat
    BY <1>0, Powers
  <2>3. 0 * TenTo(n) = 0
    BY <2>2
  <2> HIDE DEF w
  <2> QED BY <2>1, <2>3
<1>6. ASSUME NEW k \in 1..n
      PROVE  w[k] = w[k - 1] + DigitValue[digits[k]] * TenTo(n - k)
  <2> DEFINE t == TenTo(n - k)
             d == DigitValue[digits[k]]
  <2>1. TenTo(n - (k - 1)) = 10 * t /\ t \in Nat
    <3>1. n - k \in Nat /\ n - (k - 1) = (n - k) + 1
      BY <1>0
    <3> QED BY <3>1, Powers
  <2>2. f[k] = 10 * f[k - 1] + d /\ f[k - 1] \in Nat /\ d \in Nat
    <3>1. k \in 1..Len(digits) /\ k - 1 \in 0..n
      BY <1>0 DEF n
    <3>2. d \in 0..9
      BY <3>1, DigitValues
    <3>3. f[k - 1] \in Nat
      BY <1>1, <3>1
    <3>4. f[k] = 10 * f[k - 1] + d
      BY <1>1, <3>1 DEF Running
    <3> HIDE DEF d
    <3> QED BY <3>2, <3>3, <3>4
  <2>3. w[k] = f[k] * t /\ w[k - 1] = f[k - 1] * TenTo(n - (k - 1))
    BY <1>0
  <2> HIDE DEF t, d, w
  <2>4. w[k] = (10 * f[k - 1] + d) * t /\ w[k - 1] = f[k - 1] * (10 * t)
    BY <2>1, <2>2, <2>3
  <2>5. (10 * f[k - 1] + d) * t = f[k - 1] * (10 * t) + d * t
    BY <2>1, <2>2
  <2> QED BY <2>4, <2>5 DEF t, d
<1>7. w[n] = f[n]
  <2>1. w[n] = f[n] * TenTo(0) /\ f[n] \in Nat
    BY <1>0, <1>1
  <2>2. TenTo(0) = 1
    BY Powers
  <2> HIDE DEF w
  <2> QED BY <2>1, <2>2
<1> HIDE DEF w
<1> QED BY <1>2, <1>4, <1>5, <1>6, <1>7 DEF Weighed, n

\* Digits that end in zeros: the value is the sum up to the zeros.
LEMMA ZerosAddNothing ==
  ASSUME NEW digits \in Seq(Digits), NEW w, Weighed(w, digits), \A k \in 0..Len(digits) : w[k] \in Nat,
         NEW m \in 0..Len(digits), \A k \in (m + 1)..Len(digits) : digits[k] = "0"
  PROVE  w[m] = w[Len(digits)]
<1> DEFINE n == Len(digits)
           T == {k \in 0..n : k >= m => w[k] = w[m]}
<1>0. n \in Nat
  OBVIOUS
<1>1. 0 \in T
  BY <1>0
<1>2. ASSUME NEW k \in 1..n, k - 1 \in T
      PROVE  k \in T
  <2>1. CASE k <= m
    BY <2>1
  <2>2. CASE k > m
    <3>1. digits[k] = "0" /\ w[k] = w[k - 1] + DigitValue[digits[k]] * TenTo(n - k)
      BY <1>0, <2>2 DEF Weighed
    <3>2. n - k \in Nat /\ TenTo(n - k) \in Nat
      <4>1. n - k \in Nat
        BY <1>0
      <4> QED BY <4>1, Powers
    <3>3. w[k - 1] \in Nat
      BY <1>0
    <3>4. w[k] = w[k - 1]
      <4>1. DigitValue[digits[k]] = 0
        BY <3>1, DigitValues
      <4>2. w[k] = w[k - 1] + 0 * TenTo(n - k)
        BY <3>1, <4>1
      <4>3. 0 * TenTo(n - k) = 0
        BY <3>2
      <4> QED BY <3>3, <4>2, <4>3
    <3> QED BY <1>2, <2>2, <3>4
  <2> QED BY <1>0, <2>1, <2>2
<1> HIDE DEF T
<1>3. \A k \in 0..n : k \in T
  BY <1>0, <1>1, <1>2, PrefixSets
<1>4. n \in T
  BY <1>0, <1>3
<1> QED BY <1>0, <1>4 DEF T

\* Where a numeral has its point, and its digits in base units.
LEMMA NumeralShape ==
  ASSUME NEW S, NEW text \in Seq(S), NEW decimals \in Nat, IsNumeral(text, decimals)
  PROVE  /\ PointOf(text) \in 1..(Len(text) + 1)
         /\ \A i \in 1..Len(text) : text[i] = "." <=> i = PointOf(text)
         /\ \A i \in 1..Len(text) : i # PointOf(text) => text[i] \in Digits
         /\ PointOf(text) # Len(text) + 1 => Len(text) - PointOf(text) <= decimals
         /\ BaseDigits(text, decimals) \in Seq(Digits)
         /\ Len(BaseDigits(text, decimals)) = decimals + PointOf(text) - 1
<1> DEFINE n == Len(text)
           p == PointOf(text)
<1>0. n \in Nat /\ DOMAIN text = 1..n
  OBVIOUS
<1>1. /\ p \in 1..(n + 1)
      /\ \A i \in 1..n : text[i] = "." <=> i = p
      /\ p # n + 1 => Len(text) - p <= decimals
  <2>1. CASE PointsOf(text) = {}
    <3>1. p = n + 1
      BY <2>1 DEF PointOf
    <3> QED BY <1>0, <2>1, <3>1 DEF PointsOf
  <2>2. CASE PointsOf(text) # {}
    <3>1. p \in PointsOf(text)
      BY <2>2 DEF PointOf
    <3>2. \A i, j \in PointsOf(text) : i = j
      BY DEF IsNumeral
    <3>3. Len(text) - p <= decimals
      BY <2>2 DEF IsNumeral
    <3> HIDE DEF p
    <3> QED BY <1>0, <3>1, <3>2, <3>3 DEF PointsOf
  <2> QED BY <2>1, <2>2
<1>2. \A i \in 1..n : text[i] \in Digits \cup {"."}
  BY <1>0 DEF IsNumeral, Range
<1> HIDE DEF p
<1>3. \A i \in 1..n : i # p => text[i] \in Digits
  BY <1>1, <1>2
<1>4. \A i \in 1..(decimals + p - 1) :
        (IF i < p THEN text[i] ELSE IF i < n THEN text[i + 1] ELSE "0") \in Digits
  <2> TAKE i \in 1..(decimals + p - 1)
  <2>1. CASE i < p
    BY <1>0, <1>1, <1>3, <2>1
  <2>2. CASE ~(i < p) /\ i < n
    <3>1. i + 1 \in 1..n /\ i + 1 # p
      BY <1>0, <1>1, <2>2
    <3> QED BY <1>3, <2>2, <3>1
  <2>3. CASE ~(i < p) /\ ~(i < n)
    BY <2>3 DEF Digits
  <2> QED BY <2>1, <2>2, <2>3
<1>5. decimals + p - 1 \in Nat
  BY <1>0, <1>1
<1>6. BaseDigits(text, decimals) \in Seq(Digits) /\ Len(BaseDigits(text, decimals)) = decimals + p - 1
  BY <1>4, <1>5 DEF BaseDigits, p, n
<1> QED BY <1>1, <1>3, <1>6 DEF p


\* A numeral is worth its digits in base units.
LEMMA NumeralWorth ==
  ASSUME NEW S, NEW amount, NEW text \in Seq(S), text = Signless(amount),
         NEW decimals \in Nat, IsNumeral(text, decimals)
  PROVE  UnitsOf(amount, decimals) = ValueOf(BaseDigits(text, decimals))
<1> DEFINE n == Len(text)
           p == PointOf(text)
           digits == BaseDigits(text, decimals)
           l == Len(digits)
           m == IF p = n + 1 THEN n ELSE n - 1
<1>1. /\ n \in Nat /\ p \in 1..(n + 1)
      /\ p # n + 1 => n - p <= decimals
      /\ digits \in Seq(Digits) /\ l = decimals + p - 1
      /\ m \in 0..l
  BY NumeralShape
<1>2. \A k \in 1..l : digits[k] = IF k < p THEN text[k] ELSE IF k < n THEN text[k + 1] ELSE "0"
  BY <1>1 DEF BaseDigits
<1> HIDE DEF p, digits, l
<1>3. PICK w \in [0..l -> Nat] : Weighed(w, digits) /\ w[l] = ValueOf(digits)
  BY <1>1, ValueIsWeighed DEF l
<1> DEFINE u == [i \in 0..n |-> IF i < p THEN w[i] ELSE w[i - 1]]
<1>4. \A k \in 1..l : w[k] = w[k - 1] + DigitValue[digits[k]] * TenTo(l - k)
  BY <1>3 DEF Weighed, l
<1>5. u[0] = 0
  BY <1>1, <1>3 DEF Weighed
<1>6. ASSUME NEW i \in 1..n
      PROVE  u[i] = u[i - 1] + WorthOf(text, decimals, i)
  <2>1. CASE i < p
    <3>1. i \in 1..l /\ (decimals + p - i) - 1 = l - i
      BY <1>1, <2>1
    <3>2. WorthOf(text, decimals, i) = DigitValue[text[i]] * TenTo(l - i)
      BY <2>1, <3>1 DEF WorthOf, p
    <3>3. w[i] = w[i - 1] + DigitValue[text[i]] * TenTo(l - i)
      BY <1>2, <1>4, <2>1, <3>1
    <3>4. u[i] = w[i] /\ u[i - 1] = w[i - 1]
      BY <1>1, <2>1
    <3> QED BY <3>2, <3>3, <3>4
  <2>2. CASE i = p
    <3>1. WorthOf(text, decimals, i) = 0
      BY <2>2 DEF WorthOf, p
    <3>2. u[i] = w[i - 1] /\ u[i - 1] = w[i - 1]
      BY <1>1, <2>2
    <3>3. w[i - 1] \in Nat
      BY <1>1, <1>3, <2>2
    <3> QED BY <3>1, <3>2, <3>3
  <2>3. CASE i > p
    <3> DEFINE k == i - 1
    <3>1. k \in 1..l /\ ~(k < p) /\ k < n /\ k + 1 = i /\ (decimals + p - i) - 0 = l - k
      BY <1>1, <2>3
    <3>2. ~(i = p) /\ ~(i < p)
      BY <1>1, <2>3
    <3>3. WorthOf(text, decimals, i) = DigitValue[text[i]] * TenTo(l - k)
      BY <3>1, <3>2 DEF WorthOf, p
    <3>4. w[k] = w[k - 1] + DigitValue[text[i]] * TenTo(l - k)
      BY <1>2, <1>4, <3>1
    <3>5. u[i] = w[k] /\ u[i - 1] = w[k - 1]
      BY <1>1, <3>1, <3>2
    <3> QED BY <3>3, <3>4, <3>5
  <2> QED BY <1>1, <2>1, <2>2, <2>3
<1>7. u[n] = w[m]
  BY <1>1
<1>8. w[m] = w[l]
  <2>1. \A k \in (m + 1)..l : digits[k] = "0"
    <3> TAKE k \in (m + 1)..l
    <3>1. m \in Nat /\ p - 1 <= m /\ n - 1 <= m /\ l \in Nat
      BY <1>1
    <3> HIDE DEF m
    <3>2. k \in 1..l /\ ~(k < p) /\ ~(k < n)
      BY <1>1, <3>1
    <3> QED BY <1>2, <3>2
  <2>2. \A k \in 0..l : w[k] \in Nat
    BY <1>3
  <2> HIDE DEF m
  <2> QED BY <1>1, <1>3, <2>1, <2>2, ZerosAddNothing DEF l
<1> HIDE DEF u, m
<1>9. Summing(u, text, decimals)
  BY <1>5, <1>6 DEF Summing
<1>10. UnitsOf(amount, decimals) = u[n]
  BY <1>1, <1>9, UnitsAreSum
<1> QED BY <1>3, <1>7, <1>8, <1>10 DEF digits

\* Without a point, it is worth the number times ten to the power of the decimals.
LEMMA WholeWorth ==
  ASSUME NEW text \in Seq(Digits), NEW decimals \in Nat, PointsOf(text) = {}
  PROVE  ValueOf(BaseDigits(text, decimals)) = ValueOf(text) * TenTo(decimals)
<1> DEFINE n == Len(text)
           l == decimals + n
           digits == BaseDigits(text, decimals)
<1>0. n \in Nat /\ PointOf(text) = n + 1
  BY DEF PointOf
<1>1. digits = [k \in 1..l |-> IF k < n + 1 THEN text[k] ELSE IF k < n THEN text[k + 1] ELSE "0"]
  <2>1. decimals + (n + 1) - 1 = l
    BY <1>0
  <2> QED BY <1>0, <2>1 DEF BaseDigits
<1>2. \A k \in 1..l : digits[k] = IF k <= n THEN text[k] ELSE "0"
  BY <1>0, <1>1
<1>3. digits \in Seq(Digits) /\ Len(digits) = l /\ l \in Nat
  <2>1. l \in Nat
    BY <1>0
  <2>2. \A k \in 1..l : digits[k] \in Digits
    BY <1>0, <1>2 DEF Digits
  <2>3. digits = [k \in 1..l |-> digits[k]]
    BY <1>1
  <2> HIDE DEF digits, l
  <2> QED BY <2>1, <2>2, <2>3
<1> HIDE DEF digits
<1>4. PICK f \in [0..n -> Nat] : Running(f, text)
  BY RunningExists
<1>5. ValueOf(text) = f[n]
  BY <1>0, <1>4, ValueIsRunning
<1> DEFINE g == [k \in 0..l |-> IF k <= n THEN f[k] ELSE f[n] * TenTo(k - n)]
<1>6. g[0] = 0
  BY <1>0, <1>3, <1>4 DEF Running
<1>7. ASSUME NEW k \in 1..l
      PROVE  g[k] = 10 * g[k - 1] + DigitValue[digits[k]]
  <2>1. CASE k <= n
    <3>1. k \in 1..n /\ digits[k] = text[k]
      BY <1>0, <1>2, <2>1
    <3>2. f[k] = 10 * f[k - 1] + DigitValue[text[k]]
      BY <1>4, <3>1 DEF Running
    <3>3. g[k] = f[k] /\ g[k - 1] = f[k - 1]
      BY <1>0, <2>1
    <3> QED BY <3>1, <3>2, <3>3
  <2>2. CASE k = n + 1
    <3>1. digits[k] = "0" /\ DigitValue["0"] = 0
      BY <1>0, <1>2, <2>2, DigitValues
    <3>2. k - n = 0 + 1 /\ TenTo(0 + 1) = 10 * 1
      BY <1>0, <2>2, Powers
    <3>3. g[k] = f[n] * TenTo(k - n) /\ g[k - 1] = f[n] /\ f[n] \in Nat
      BY <1>0, <1>4, <2>2
    <3> HIDE DEF g
    <3>4. g[k] = f[n] * 10
      BY <3>2, <3>3
    <3> QED BY <3>1, <3>3, <3>4
  <2>3. CASE k > n + 1
    <3> DEFINE e == (k - 1) - n
    <3>1. digits[k] = "0" /\ DigitValue["0"] = 0
      BY <1>0, <1>2, <2>3, DigitValues
    <3>2. e \in Nat /\ k - n = e + 1
      BY <1>0, <2>3
    <3>3. g[k] = f[n] * TenTo(k - n) /\ g[k - 1] = f[n] * TenTo(e) /\ f[n] \in Nat
      <4>1. k \in 0..l /\ ~(k <= n) /\ k - 1 \in 0..l /\ ~(k - 1 <= n)
        BY <1>0, <2>3
      <4>2. g[k] = f[n] * TenTo(k - n) /\ g[k - 1] = f[n] * TenTo((k - 1) - n)
        BY <4>1, Zenon
      <4>3. f[n] \in Nat
        BY <1>0, <1>4
      <4> QED BY <4>2, <4>3
    <3> HIDE DEF g, e
    <3> DEFINE t == TenTo(e)
    <3>4. t \in Nat /\ TenTo(e + 1) = 10 * t
      BY <3>2, Powers
    <3> HIDE DEF t
    <3>5. g[k] = f[n] * (10 * t) /\ g[k - 1] = f[n] * t
      BY <3>2, <3>3, <3>4 DEF t
    <3>6. f[n] * (10 * t) = 10 * (f[n] * t) /\ f[n] * t \in Nat
      BY <3>3, <3>4
    <3> QED BY <3>1, <3>5, <3>6
  <2> HIDE DEF g
  <2> QED BY <1>0, <2>1, <2>2, <2>3
<1>8. g[l] = f[n] * TenTo(decimals)
  <2>1. CASE decimals = 0
    <3>1. g[l] = f[n] /\ f[n] \in Nat
      BY <1>0, <1>4, <2>1
    <3>2. TenTo(0) = 1
      BY Powers
    <3> HIDE DEF g, l
    <3> QED BY <2>1, <3>1, <3>2
  <2>2. CASE decimals # 0
    BY <1>0, <2>2
  <2> QED BY <2>1, <2>2
<1> HIDE DEF g, l
<1>9. Running(g, digits)
  BY <1>3, <1>6, <1>7 DEF Running
<1>10. ValueOf(digits) = g[l]
  BY <1>3, <1>9, ValueIsRunning
<1> QED BY <1>5, <1>8, <1>10 DEF digits


-----------------------------------------------------------------------------
(* parse_units and parse_amount together. *)

\* The text of a price with its point taken out and zeros filled in.
WithPoint(amount, point, decimals) ==
  SubSeq(amount, 1, point - 1) \o SubSeq(amount, point + 1, Len(amount))
    \o Zeros(decimals - Len(SubSeq(amount, point + 1, Len(amount))))

Spliced(S, amount, point, decimals) ==
  /\ WithPoint(amount, point, decimals)
       = [i \in 1..(decimals + point - 1) |->
            IF i < point THEN amount[i]
            ELSE IF i < Len(amount) THEN amount[i + 1] ELSE "0"]
  /\ WithPoint(amount, point, decimals) \in Seq(S \cup {"0"})
  /\ Len(WithPoint(amount, point, decimals)) = decimals + point - 1

LEMMA JoinedShape ==
  ASSUME NEW S, NEW amount \in Seq(S), NEW point \in 1..Len(amount), NEW decimals \in Nat,
         Len(amount) - point <= decimals
  PROVE  Spliced(S, amount, point, decimals)
<1> DEFINE n == Len(amount)
           integer == SubSeq(amount, 1, point - 1)
           fraction == SubSeq(amount, point + 1, n)
           zeros == Zeros(decimals - Len(fraction))
           A == S \cup {"0"}
<1>0. n \in Nat /\ amount \in Seq(A)
  OBVIOUS
<1>1. /\ integer \in Seq(A) /\ Len(integer) = point - 1
      /\ \A i \in 1..(point - 1) : integer[i] = amount[i]
  BY <1>0
<1>2. /\ fraction \in Seq(A) /\ Len(fraction) = n - point
      /\ \A i \in 1..(n - point) : fraction[i] = amount[point + i]
  BY <1>0
<1> HIDE DEF integer, fraction
<1>3. /\ zeros \in Seq(A) /\ Len(zeros) = decimals - (n - point)
      /\ \A i \in 1..(decimals - (n - point)) : zeros[i] = "0"
  BY <1>0, <1>2 DEF Zeros
<1> HIDE DEF zeros, n, A
<1> DEFINE J == integer \o fraction \o zeros
<1>4. /\ J \in Seq(A) /\ Len(J) = decimals + point - 1
      /\ \A i \in 1..(point - 1) : J[i] = integer[i]
      /\ \A i \in point..(n - 1) : J[i] = fraction[i - (point - 1)]
      /\ \A i \in n..(decimals + point - 1) : J[i] = zeros[i - (n - 1)]
  <2> DEFINE K == integer \o fraction
  <2>1. point \in 1..n
    BY DEF n
  <2>2. J = K \o zeros
    OBVIOUS
  <2>3. /\ K \in Seq(A) /\ Len(K) = Len(integer) + Len(fraction)
        /\ \A i \in 1..Len(integer) : K[i] = integer[i]
        /\ \A i \in (Len(integer) + 1)..(Len(integer) + Len(fraction)) :
             K[i] = fraction[i - Len(integer)]
    <3>1. integer \in Seq(A) /\ fraction \in Seq(A)
      BY <1>1, <1>2
    <3> QED BY <3>1
  <2> HIDE DEF K, J
  <2>4. /\ J \in Seq(A) /\ Len(J) = Len(K) + Len(zeros)
        /\ \A i \in 1..Len(K) : J[i] = K[i]
        /\ \A i \in (Len(K) + 1)..(Len(K) + Len(zeros)) : J[i] = zeros[i - Len(K)]
    <3>1. K \in Seq(A) /\ zeros \in Seq(A)
      BY <1>3, <2>3
    <3> QED BY <2>2, <3>1
  <2>5. Len(K) = n - 1
    BY <1>0, <1>1, <1>2, <2>1, <2>3
  <2>6. Len(J) = decimals + point - 1
    BY <1>0, <1>3, <2>1, <2>4, <2>5
  <2>7. \A i \in 1..(point - 1) : J[i] = integer[i]
    <3>1. \A i \in 1..(point - 1) : i \in 1..Len(integer) /\ i \in 1..Len(K)
      BY <1>0, <1>1, <2>1, <2>5
    <3> QED BY <2>3, <2>4, <3>1
  <2>8. \A i \in point..(n - 1) : J[i] = fraction[i - (point - 1)]
    <3>1. Len(integer) + 1 = point /\ Len(integer) + Len(fraction) = n - 1
      BY <1>0, <1>1, <1>2, <2>1
    <3>2. \A i \in point..(n - 1) : i \in 1..Len(K)
      BY <1>0, <2>1, <2>5
    <3>3. \A i \in point..(n - 1) : K[i] = fraction[i - (point - 1)]
      BY <1>1, <2>3, <3>1
    <3> QED BY <2>4, <3>2, <3>3
  <2>9. \A i \in n..(decimals + point - 1) : J[i] = zeros[i - (n - 1)]
    <3>1. Len(K) + 1 = n /\ Len(K) + Len(zeros) = decimals + point - 1
      BY <1>0, <2>4, <2>5, <2>6
    <3> QED BY <2>4, <2>5, <3>1
  <2> QED BY <2>4, <2>6, <2>7, <2>8, <2>9
<1>5. J = WithPoint(amount, point, decimals)
  BY DEF WithPoint, integer, fraction, zeros, n
<1> HIDE DEF J
<1>6. ASSUME NEW i \in 1..(decimals + point - 1)
      PROVE  J[i] = IF i < point THEN amount[i] ELSE IF i < n THEN amount[i + 1] ELSE "0"
  <2>0. point \in 1..n
    BY DEF n
  <2>1. CASE i < point
    BY <1>0, <1>1, <1>4, <2>0, <2>1
  <2>2. CASE ~(i < point) /\ i < n
    <3>1. i \in point..(n - 1) /\ i - (point - 1) \in 1..(n - point) /\ point + (i - (point - 1)) = i + 1
      BY <1>0, <2>0, <2>2
    <3> QED BY <1>2, <1>4, <2>2, <3>1
  <2>3. CASE ~(i < point) /\ ~(i < n)
    <3>1. i \in n..(decimals + point - 1) /\ i - (n - 1) \in 1..(decimals - (n - point))
      BY <1>0, <2>0, <2>3
    <3> QED BY <1>3, <1>4, <2>3, <3>1
  <2> QED BY <2>1, <2>2, <2>3
<1>7. J = [i \in 1..(decimals + point - 1) |->
             IF i < point THEN amount[i] ELSE IF i < n THEN amount[i + 1] ELSE "0"]
  <2>1. J = [i \in 1..(decimals + point - 1) |-> J[i]]
    BY <1>4
  <2> QED BY <1>6, <2>1
<1> QED BY <1>4, <1>5, <1>7 DEF n, A, Spliced

\* Nothing but zeros is trimmed.
LEMMA TrimmedDigits ==
  ASSUME NEW S, NEW text \in Seq(S)
  PROVE  /\ TrimZeros(text) \in Seq(S)
         /\ Range(TrimZeros(text)) \subseteq Range(text)
         /\ TrimZeros(text) \in Seq(Digits) => text \in Seq(Digits)
<1> DEFINE n == Len(text)
           kept == {i \in DOMAIN text : text[i] # "0"}
<1>0. n \in Nat /\ DOMAIN text = 1..n
  OBVIOUS
<1>1. CASE kept = {}
  <2>1. TrimZeros(text) = <<>>
    BY <1>1 DEF TrimZeros
  <2>2. \A i \in 1..n : text[i] \in Digits
    BY <1>0, <1>1 DEF Digits
  <2>3. text \in Seq(Digits)
    BY <1>0, <2>2
  <2> QED BY <2>1, <2>3 DEF Range
<1>2. CASE kept # {}
  <2> DEFINE first == CHOOSE i \in kept : \A j \in kept : i <= j
  <2>1. first \in kept /\ \A j \in kept : first <= j
    <3>1. kept \in SUBSET Nat
      BY <1>0
    <3> HIDE DEF kept
    <3>2. Min(kept) \in kept /\ \A y \in kept : Min(kept) <= y
      BY <1>2, <3>1, MinIn
    <3> QED BY <3>2
  <2>2. TrimZeros(text) = SubSeq(text, first, n)
    BY <1>2 DEF TrimZeros
  <2> HIDE DEF first
  <2>3. first \in 1..n
    BY <1>0, <2>1
  <2> DEFINE tail == SubSeq(text, first, n)
  <2>4. /\ tail \in Seq(S) /\ Len(tail) = n - first + 1 /\ DOMAIN tail = 1..(n - first + 1)
        /\ \A k \in 1..(n - first + 1) : tail[k] = text[first - 1 + k]
    BY <1>0, <2>3
  <2> HIDE DEF tail
  <2>5. Range(tail) \subseteq Range(text)
    <3>1. \A k \in 1..(n - first + 1) : first - 1 + k \in DOMAIN text
      BY <1>0, <2>3
    <3> QED BY <2>4, <3>1 DEF Range
  <2>6. ASSUME tail \in Seq(Digits)
        PROVE  text \in Seq(Digits)
    <3>1. \A i \in 1..n : text[i] \in Digits
      <4> TAKE i \in 1..n
      <4>1. CASE i < first
        BY <1>0, <2>1, <2>3, <4>1 DEF Digits
      <4>2. CASE ~(i < first)
        <5>1. i - first + 1 \in 1..(n - first + 1) /\ first - 1 + (i - first + 1) = i
          BY <1>0, <2>3, <4>2
        <5>2. tail[i - first + 1] \in Digits
          BY <2>4, <2>6, <5>1
        <5> QED BY <2>4, <5>1, <5>2
      <4> QED BY <4>1, <4>2
    <3> QED BY <1>0, <3>1
  <2> QED BY <2>2, <2>4, <2>5, <2>6 DEF tail
<1> QED BY <1>1, <1>2


\* parse_units puts the joined text, or "0" in place of nothing.
Shown(text) == IF TrimZeros(text) = <<>> THEN <<"0">> ELSE TrimZeros(text)

\* What is shown parses if and only if it is digits; its value is that of the text.
LEMMA ShownParses ==
  ASSUME NEW text \in Seq(Digits), ParseAmount(Shown(text)) # Unparsable
  PROVE  ParseAmount(Shown(text)) = ValueOf(text)
<1>1. TrimZeros(text) \in Seq(Digits) /\ ValueOf(TrimZeros(text)) = ValueOf(text)
  BY TrimKeepsValue
<1>2. Shown(text) \in Seq(Digits) /\ Shown(text) # <<>> /\ ValueOf(Shown(text)) = ValueOf(text)
  <2>1. CASE TrimZeros(text) = <<>>
    <3>1. <<"0">> \in Seq(Digits) /\ <<"0">> # <<>>
      BY DEF Digits
    <3>2. TrimZeros(<<"0">>) = <<>>
      BY DEF TrimZeros
    <3>3. ValueOf(<<"0">>) = ValueOf(<<>>)
      BY <3>1, <3>2, TrimKeepsValue
    <3>4. Shown(text) = <<"0">>
      BY <2>1 DEF Shown
    <3> QED BY <1>1, <2>1, <3>1, <3>3, <3>4
  <2>2. CASE TrimZeros(text) # <<>>
    BY <1>1, <2>2 DEF Shown
  <2> QED BY <2>1, <2>2
<1>3. ParseUnsigned(Shown(text), U64)
        = IF ValueOf(Shown(text)) < U64 THEN ValueOf(Shown(text)) ELSE Unparsable
  BY <1>2, ParsesDigits
<1> QED BY <1>2, <1>3 DEF ParseAmount

\* A price without a point.
LEMMA WholePrice ==
  ASSUME NEW S, NEW amount \in Seq(S), NEW decimals \in Nat, U128 \in Nat, Unparsable \notin Nat,
         PointsOf(amount) = {},
         ParseUnits(amount, decimals) # Unparsable,
         ParseAmount(ParseUnits(amount, decimals)) # Unparsable
  PROVE  /\ UnitsOf(amount, decimals) # Unparsable
         /\ UnitsOf(amount, decimals) < U128 =>
              ParseAmount(ParseUnits(amount, decimals)) = UnitsOf(amount, decimals)
<1> DEFINE text == Signless(amount)
           value == ParseUnsigned(amount, U128)
           scale == TenTo(decimals)
<1>1. value # Unparsable /\ ParseUnits(amount, decimals) = WriteUnsigned((value * scale) % U128)
  BY DEF ParseUnits, PointsOf
<1>2. text \in Seq(Digits) /\ text # <<>> /\ value < U128 /\ value = ValueOf(text)
  BY <1>1, ParsedDigits
<1>3. value \in Nat
  BY <1>2, ValueIsNat
<1> HIDE DEF text, value, scale
<1>4. PointsOf(text) = {}
  BY <1>2, DigitValues DEF PointsOf
<1>5. IsNumeral(text, decimals)
  <2>1. Range(text) \subseteq Digits
    BY <1>2 DEF Range
  <2> QED BY <1>2, <1>4, <2>1 DEF IsNumeral
<1>6. UnitsOf(amount, decimals) = value * scale
  <2>1. UnitsOf(amount, decimals) = ValueOf(BaseDigits(text, decimals))
    BY <1>2, <1>5, NumeralWorth DEF text
  <2>2. ValueOf(BaseDigits(text, decimals)) = ValueOf(text) * TenTo(decimals)
    BY <1>2, <1>4, WholeWorth
  <2> QED BY <1>2, <2>1, <2>2 DEF scale
<1>7. scale \in Nat
  BY Powers DEF scale
<1> DEFINE price == value * scale
<1>8. price \in Nat
  BY <1>3, <1>7
<1> HIDE DEF price
<1>9. ASSUME price < U128
      PROVE  ParseAmount(ParseUnits(amount, decimals)) = price
  <2>1. price % U128 = price
    BY <1>8, <1>9
  <2>2. ParseUnits(amount, decimals) = WriteUnsigned(price)
    BY <1>1, <2>1 DEF price
  <2>3. ParseUnsigned(WriteUnsigned(price), U64) = IF price < U64 THEN price ELSE Unparsable
    BY <1>8, WrittenParses
  <2> QED BY <2>2, <2>3 DEF ParseAmount
<1> QED BY <1>6, <1>8, <1>9 DEF price

\* A price with a point: what parse_units makes of it.
LEMMA PointedUnits ==
  ASSUME NEW S, NEW amount \in Seq(S), NEW decimals \in Nat, PointsOf(amount) # {},
         ParseUnits(amount, decimals) # Unparsable
  PROVE  \E point \in PointsOf(amount) :
           /\ point \in 1..Len(amount) /\ amount[point] = "."
           /\ \A i \in PointsOf(amount) : point <= i
           /\ Len(amount) - point <= decimals
           /\ ParseUnits(amount, decimals) = Shown(WithPoint(amount, point, decimals))
<1> DEFINE points == {i \in DOMAIN amount : amount[i] = "."}
           point == CHOOSE i \in points : \A j \in points : i <= j
           fraction == SubSeq(amount, point + 1, Len(amount))
<1>0. points = PointsOf(amount) /\ DOMAIN amount = 1..Len(amount) /\ Len(amount) \in Nat
  BY DEF PointsOf
<1>1. point \in points /\ \A j \in points : point <= j
  <2>1. points \in SUBSET Nat
    BY <1>0
  <2> HIDE DEF points
  <2>2. Min(points) \in points /\ \A y \in points : Min(points) <= y
    BY <1>0, <2>1, MinIn
  <2> QED BY <2>2
<1>2. /\ ~(Len(fraction) > decimals)
      /\ ParseUnits(amount, decimals) = Shown(WithPoint(amount, point, decimals))
  <2>1. points # {}
    BY <1>0
  <2> QED BY <2>1, Zenon DEF ParseUnits, Shown, WithPoint
<1> HIDE DEF point
<1>3. point \in 1..Len(amount) /\ amount[point] = "."
  BY <1>0, <1>1
<1>4. Len(fraction) = Len(amount) - point
  <2>1. Len(amount) \in Nat /\ point + 1 <= Len(amount) + 1 /\ point + 1 \in Nat
    BY <1>0, <1>3
  <2> QED BY <1>3, <2>1
<1> HIDE DEF fraction
<1>5. Len(amount) - point <= decimals
  BY <1>0, <1>2, <1>3, <1>4
<1> QED BY <1>0, <1>1, <1>2, <1>3, <1>5


\* A price with a point that is no numeral has a sign where the code overlooks it.
LEMMA PointedNonsense ==
  ASSUME NEW S, NEW amount \in Seq(S), NEW decimals \in Nat, PointsOf(amount) # {},
         ParseUnits(amount, decimals) # Unparsable,
         ParseAmount(ParseUnits(amount, decimals)) # Unparsable,
         ~IsNumeral(Signless(amount), decimals)
  PROVE  "+" \in Range(amount)
<1> SUFFICES ASSUME "+" \notin Range(amount) PROVE FALSE
  OBVIOUS
<1>1. PICK point \in PointsOf(amount) :
        /\ point \in 1..Len(amount) /\ amount[point] = "."
        /\ \A i \in PointsOf(amount) : point <= i
        /\ Len(amount) - point <= decimals
        /\ ParseUnits(amount, decimals) = Shown(WithPoint(amount, point, decimals))
  BY PointedUnits
<1> DEFINE n == Len(amount)
           joined == WithPoint(amount, point, decimals)
           A == S \cup {"0"}
<1>2. /\ joined \in Seq(A) /\ Len(joined) = decimals + point - 1
      /\ \A i \in 1..(decimals + point - 1) :
           joined[i] = IF i < point THEN amount[i] ELSE IF i < n THEN amount[i + 1] ELSE "0"
  <2>1. point \in 1..Len(amount) /\ Len(amount) - point <= decimals
    BY <1>1
  <2>2. /\ joined \in Seq(A) /\ Len(joined) = decimals + point - 1
        /\ joined = [i \in 1..(decimals + point - 1) |->
                       IF i < point THEN amount[i] ELSE IF i < n THEN amount[i + 1] ELSE "0"]
    <3>1. Spliced(S, amount, point, decimals)
      BY <2>1, JoinedShape
    <3> QED BY <3>1 DEF Spliced
  <2> HIDE DEF joined, n
  <2> QED BY <2>2
<1> HIDE DEF joined
<1>3. n \in Nat /\ DOMAIN amount = 1..n /\ \A i \in 1..n : amount[i] # "+"
  BY DEF Range
<1>4. \A i \in 1..(decimals + point - 1) : joined[i] # "+"
  <2>1. \A i \in 1..(decimals + point - 1) :
          (i < point => i \in 1..n) /\ (~(i < point) /\ i < n => i + 1 \in 1..n)
    BY <1>1, <1>3
  <2> QED BY <1>2, <1>3, <2>1
<1>5. TrimZeros(joined) \in Seq(A) /\ "+" \notin Range(TrimZeros(joined))
  <2>1. Range(TrimZeros(joined)) \subseteq Range(joined) /\ TrimZeros(joined) \in Seq(A)
    BY <1>2, TrimmedDigits
  <2>2. "+" \notin Range(joined)
    BY <1>2, <1>4 DEF Range
  <2> QED BY <2>1, <2>2
<1>6. joined \in Seq(Digits)
  <2>1. CASE TrimZeros(joined) = <<>>
    BY <1>2, <2>1, TrimmedDigits
  <2>2. CASE TrimZeros(joined) # <<>>
    <3> DEFINE shown == TrimZeros(joined)
    <3>1. Shown(joined) = shown
      BY <2>2 DEF Shown
    <3>2. ParseUnsigned(shown, U64) # Unparsable
      BY <1>1, <3>1 DEF ParseAmount, joined
    <3>3. Head(shown) \in Range(shown)
      BY <1>5, <2>2 DEF Range
    <3>4. Signless(shown) = shown
      BY <1>5, <3>3 DEF Signless
    <3> HIDE DEF shown
    <3>5. shown \in Seq(A)
      BY <1>5 DEF shown
    <3>6. shown \in Seq(Digits)
      BY <3>2, <3>4, <3>5, ParsedDigits
    <3> QED BY <1>2, <3>6, TrimmedDigits DEF shown
  <2> QED BY <2>1, <2>2
<1>7. \A i \in 1..n : i # point => amount[i] \in Digits
  <2> TAKE i \in 1..n
  <2>1. CASE i < point
    <3>1. i \in 1..(decimals + point - 1)
      BY <1>1, <1>3, <2>1
    <3> QED BY <1>2, <1>6, <2>1, <3>1
  <2>2. CASE i > point
    <3>1. i - 1 \in 1..(decimals + point - 1) /\ ~(i - 1 < point) /\ i - 1 < n /\ (i - 1) + 1 = i
      BY <1>1, <1>3, <2>2
    <3>2. joined[i - 1] = amount[i] /\ joined[i - 1] \in Digits
      BY <1>2, <1>6, <3>1
    <3> QED BY <3>2
  <2> QED BY <1>1, <1>3, <2>1, <2>2
<1>8. PointsOf(amount) = {point}
  <2>1. "." \notin Digits
    BY DigitValues
  <2>2. ASSUME NEW i \in 1..n, amount[i] = "." PROVE i = point
    <3>1. i # point => amount[i] \in Digits
      BY <1>7
    <3> QED BY <2>1, <2>2, <3>1
  <2> QED BY <1>1, <1>3, <2>2 DEF PointsOf
<1>9. Signless(amount) = amount
  <2>1. amount # <<>> => Head(amount) = amount[1] /\ 1 \in 1..n
    BY <1>3
  <2> QED BY <1>3, <2>1 DEF Signless
<1>10. IsNumeral(amount, decimals)
  <2>1. amount # <<>>
    BY <1>1, <1>3
  <2>2. Range(amount) \subseteq Digits \cup {"."}
    BY <1>1, <1>3, <1>7 DEF Range
  <2>3. PointOf(amount) = point
    BY <1>8 DEF PointOf
  <2> QED BY <1>1, <1>8, <2>1, <2>2, <2>3 DEF IsNumeral
<1> QED BY <1>9, <1>10

\* A numeral with a point is parsed to what it is worth.
LEMMA PointedPrice ==
  ASSUME NEW S, NEW amount \in Seq(S), NEW decimals \in Nat, PointsOf(amount) # {},
         ParseUnits(amount, decimals) # Unparsable,
         ParseAmount(ParseUnits(amount, decimals)) # Unparsable,
         IsNumeral(Signless(amount), decimals)
  PROVE  ParseAmount(ParseUnits(amount, decimals)) = UnitsOf(amount, decimals)
<1>1. PICK point \in PointsOf(amount) :
        /\ point \in 1..Len(amount) /\ amount[point] = "."
        /\ \A i \in PointsOf(amount) : point <= i
        /\ Len(amount) - point <= decimals
        /\ ParseUnits(amount, decimals) = Shown(WithPoint(amount, point, decimals))
  BY PointedUnits
<1> DEFINE text == Signless(amount)
           n == Len(amount)
           joined == WithPoint(amount, point, decimals)
           A == S \cup {"0"}
           base == BaseDigits(text, decimals)
<1>2. /\ joined \in Seq(A) /\ Len(joined) = decimals + point - 1
      /\ joined = [i \in 1..(decimals + point - 1) |->
                     IF i < point THEN amount[i] ELSE IF i < n THEN amount[i + 1] ELSE "0"]
  <2>1. point \in 1..Len(amount) /\ Len(amount) - point <= decimals
    BY <1>1
  <2>2. Spliced(S, amount, point, decimals)
    BY <2>1, JoinedShape
  <2> QED BY <2>2 DEF Spliced
<1>3. text \in Seq(S) /\ n \in Nat
  BY DEF Signless
<1> HIDE DEF text
<1>4. /\ PointOf(text) \in 1..(Len(text) + 1)
      /\ \A i \in 1..Len(text) : text[i] = "." <=> i = PointOf(text)
      /\ base \in Seq(Digits)
  BY <1>3, NumeralShape DEF text
<1>5. UnitsOf(amount, decimals) = ValueOf(base)
  BY <1>3, NumeralWorth DEF text
<1> HIDE DEF joined
<1>6. CASE text = amount
  <2>1. PointOf(text) = point
    BY <1>1, <1>4, <1>6
  <2>2. base = joined
    BY <1>2, <1>6, <2>1 DEF BaseDigits
  <2>3. ParseAmount(Shown(joined)) = ValueOf(joined)
    BY <1>1, <1>4, <2>2, ShownParses DEF joined
  <2> QED BY <1>1, <1>5, <2>2, <2>3 DEF joined
<1>7. CASE text # amount
  <2>1. amount # <<>> /\ amount[1] = "+" /\ text = Tail(amount)
    BY <1>7 DEF text, Signless
  <2>2. Len(text) = n - 1 /\ \A i \in 1..(n - 1) : text[i] = amount[i + 1]
    BY <1>3, <2>1
  <2>3. point # 1
    BY <1>1, <2>1
  <2>4. PointOf(text) = point - 1
    <3>1. point - 1 \in 1..Len(text) /\ text[point - 1] = "."
      BY <1>1, <1>3, <2>2, <2>3
    <3> QED BY <1>4, <3>1
  <2>5. /\ joined # <<>> /\ joined[1] = "+"
        /\ Len(joined) \in Nat \ {0}
    <3>1. 1 \in 1..(decimals + point - 1) /\ 1 < point
      BY <1>1, <1>3, <2>3
    <3>2. joined[1] = amount[1]
      BY <1>2, <3>1
    <3>3. Len(joined) \in Nat \ {0}
      <4>1. decimals + point - 1 \in Nat \ {0}
        BY <1>1, <1>3, <2>3
      <4> QED BY <1>2, <4>1
    <3> QED BY <2>1, <3>2, <3>3
  <2>6. Shown(joined) = joined
    <3>1. joined[1] # "0"
      BY <2>5
    <3>2. TrimZeros(joined) = joined
      BY <1>2, <2>5, <3>1, TrimKeepsSign
    <3> QED BY <2>5, <3>2 DEF Shown
  <2>7. Signless(joined) = Tail(joined)
    BY <2>5 DEF Signless
  <2>8. Tail(joined) = base
    <3> DEFINE m == decimals + point - 2
    <3>1. m \in Nat /\ decimals + PointOf(text) - 1 = m
      BY <1>1, <1>3, <2>3, <2>4
    <3>2. \A i \in 1..m : base[i] = IF i < PointOf(text) THEN text[i]
                                    ELSE IF i < Len(text) THEN text[i + 1] ELSE "0"
      BY <3>1 DEF BaseDigits
    <3>3. base = [i \in 1..m |-> base[i]]
      BY <3>1 DEF BaseDigits
    <3>4. Tail(joined) = [i \in 1..m |-> joined[i + 1]]
      BY <1>1, <1>2, <2>5
    <3>5. ASSUME NEW i \in 1..m
          PROVE  joined[i + 1] = base[i]
      <4>1. i + 1 \in 1..(decimals + point - 1)
        BY <1>1, <1>3
      <4>2. joined[i + 1] = IF i + 1 < point THEN amount[i + 1]
                            ELSE IF i + 1 < n THEN amount[(i + 1) + 1] ELSE "0"
        BY <1>2, <4>1
      <4>3. base[i] = IF i < PointOf(text) THEN text[i]
                      ELSE IF i < Len(text) THEN text[i + 1] ELSE "0"
        BY <3>2
      <4> HIDE DEF base
      <4>4. CASE i + 1 < point
        <5>1. i < PointOf(text) /\ i \in 1..(n - 1)
          BY <1>1, <1>3, <2>4, <4>4
        <5> QED BY <2>2, <4>2, <4>3, <4>4, <5>1
      <4>5. CASE ~(i + 1 < point) /\ i + 1 < n
        <5>1. ~(i < PointOf(text)) /\ i < Len(text) /\ i + 1 \in 1..(n - 1)
          BY <1>1, <1>3, <2>2, <2>4, <4>5
        <5> QED BY <2>2, <4>2, <4>3, <4>5, <5>1
      <4>6. CASE ~(i + 1 < point) /\ ~(i + 1 < n)
        <5>1. ~(i < PointOf(text)) /\ ~(i < Len(text))
          BY <1>1, <1>3, <2>2, <2>4, <4>6
        <5> QED BY <4>2, <4>3, <4>6, <5>1
      <4> QED BY <4>4, <4>5, <4>6
    <3> HIDE DEF base
    <3> QED BY <3>3, <3>4, <3>5
  <2>9. ParseUnsigned(joined, U64) # Unparsable
    BY <1>1, <2>6 DEF ParseAmount, joined
  <2>10. ParseUnsigned(joined, U64) = ValueOf(base)
    BY <1>2, <2>7, <2>8, <2>9, ParsedDigits
  <2> QED BY <1>1, <1>5, <2>6, <2>10 DEF ParseAmount, joined
<1> QED BY <1>6, <1>7

\* Whatever price is configured, an amount the client can parse is what it is worth.
LEMMA PriceIsWorth ==
  ASSUME NEW S, NEW amount \in Seq(S),
         ParseUnits(amount, Decimals) # Unparsable,
         ParseAmount(ParseUnits(amount, Decimals)) # Unparsable
  PROVE  IF UnitsOf(amount, Decimals) = Unparsable THEN "+" \in Range(amount)
         ELSE UnitsOf(amount, Decimals) < U128 =>
                ParseAmount(ParseUnits(amount, Decimals)) = UnitsOf(amount, Decimals)
<1>1. Decimals \in Nat /\ U128 \in Nat /\ Unparsable \notin Nat
  BY GateAssumption
<1>2. CASE PointsOf(amount) = {}
  BY <1>1, <1>2, WholePrice
<1>3. CASE PointsOf(amount) # {} /\ IsNumeral(Signless(amount), Decimals)
  BY <1>1, <1>3, PointedPrice
<1>4. CASE PointsOf(amount) # {} /\ ~IsNumeral(Signless(amount), Decimals)
  <2>1. "+" \in Range(amount)
    BY <1>1, <1>4, PointedNonsense
  <2>2. UnitsOf(amount, Decimals) = Unparsable
    BY <1>4 DEF UnitsOf
  <2> QED BY <2>1, <2>2
<1> QED BY <1>2, <1>3, <1>4

-----------------------------------------------------------------------------
(* The challenge of a route and the credentials of a request. *)

Units(route) == ParseUnits(gate.amounts[route], Decimals)

\* A challenge carries the route's price in base units.
LEMMA ChallengeCarriesPrice ==
  ASSUME NEW route, ChargeWithOptions(route) # None
  PROVE  /\ Units(route) # Unparsable
         /\ DecodeRequest(ChargeWithOptions(route).request).amount = Units(route)
<1> DEFINE request == EncodeRequest(ChargeRequest(Units(route)))
           challenge == WithSecretKey(gate.key, gate.realm, Text("solana"), Text("charge"),
                                      request, Minutes(Validity), gate.description)
<1>1. Units(route) # Unparsable /\ ChargeWithOptions(route) = challenge
  BY Zenon DEF ChargeWithOptions, Units
<1>2. DecodeRequest(request).amount = Units(route)
  BY DEF EncodeRequest, DecodeRequest, Text, V, ChargeRequest
<1> HIDE DEF request
<1>3. challenge.request = request
  BY DEF WithSecretKey
<1> QED BY <1>1, <1>2, <1>3

\* Whatever a request carries, the server takes one of its tokens or none.
LEMMA CredentialIn ==
  ASSUME gate \in Gates, NEW S, NEW auth, DOMAIN auth \in SUBSET Nat,
         \A i \in DOMAIN auth : auth[i].token \in S \cup {None}
  PROVE  CredentialOf(auth) \in S \cup {None}
<1> DEFINE parts == {i \in DOMAIN auth : auth[i].scheme \in {"Payment", "payment"}}
<1>1. ParseAuthorization(auth) \in S \cup {None}
  <2>1. CASE parts = {}
    BY <2>1 DEF ParseAuthorization, ExtractPaymentScheme
  <2>2. CASE parts # {}
    <3>1. Min(parts) \in parts
      BY <2>2, MinIn
    <3> HIDE DEF parts
    <3>2. Min(parts) \in DOMAIN auth
      BY <3>1 DEF parts
    <3> QED BY <2>2, <3>2 DEF ParseAuthorization, ExtractPaymentScheme, parts
  <2> QED BY <2>1, <2>2
<1>2. gate.front \in {"axum", "interop", "link"}
  BY GateAssumption
<1> QED BY <1>1, <1>2
        DEF CredentialOf, AxumCredential, LinkCredential, InteropCredential

-----------------------------------------------------------------------------
(* The state: what was handed out, and what the client can send. *)

Held == {wallet[k] : k \in DOMAIN wallet}

\* Credentials are made for amounts that parse.
WalletInv ==
  /\ wallet \in Seq(Held)
  /\ \A cred \in Held : cred.payment.amount # Unparsable

\* Every response has a payment of its own, consumed, landed and worth the price the
\* server wrote into the challenge.
ServedInv ==
  /\ served \in Seq(Range(served))
  /\ \A i \in DOMAIN served :
       /\ served[i].payment \in landed \cap consumed
       /\ \A j \in DOMAIN served : served[i].payment = served[j].payment => i = j
       /\ served[i].route \in Routes
       /\ Units(served[i].route) # Unparsable
       /\ served[i].amount = ParseAmount(Units(served[i].route))
       /\ served[i].amount # Unparsable

GateInv ==
  /\ gate \in Gates /\ goal \in Routes
  /\ WalletInv
  /\ ServedInv
  /\ RefusedIsNotCharged

\* A request either leaves ledger, store and responses alone or is served with a
\* credential the client holds, for the route's price and not yet consumed.
Sold(route, cred) ==
  LET p == cred.payment.id IN
    /\ p \notin consumed /\ consumed' = consumed \cup {p}
    /\ landed' = landed \cup {p}
    /\ served' = Append(served, [route |-> route, payment |-> p,
                                 amount |-> cred.payment.amount])
    /\ Units(route) # Unparsable
    /\ cred.payment.amount = ParseAmount(Units(route))

LEMMA HandleEffect ==
  ASSUME gate \in Gates, NEW route, NEW auth, DOMAIN auth \in SUBSET Nat,
         \A i \in DOMAIN auth : auth[i].token \in Held \cup {None}, Handle(route, auth)
  PROVE  /\ UNCHANGED <<gate, goal, now, wallet, doubtful, received>>
         /\ \/ UNCHANGED <<landed, consumed, served>>
            \/ \E cred \in Held : Sold(route, cred)
<1> DEFINE challenge == ChargeWithOptions(route)
           cred == CredentialOf(auth)
<1>1. cred \in Held \cup {None}
  BY CredentialIn
<1>2. /\ \/ Refuse(challenge)
         \/ /\ cred # None /\ challenge # None /\ MayBroadcast(cred, route)
            /\ Settle(cred, route, challenge)
      /\ UNCHANGED <<gate, goal, now, wallet, doubtful, received>>
  BY Zenon DEF Handle
<1> HIDE DEF cred
<1>3. CASE Refuse(challenge)
  BY <1>2, <1>3 DEF Refuse
<1>4. CASE /\ cred # None /\ challenge # None /\ MayBroadcast(cred, route)
           /\ Settle(cred, route, challenge)
  <2>1. CASE Refuse(challenge)
    BY <1>2, <2>1 DEF Refuse
  <2>2. CASE ~Refuse(challenge)
    <3>1. /\ PutIfAbsent(cred.payment.id)
          /\ landed' = landed \cup {cred.payment.id}
          /\ served' = Append(served, [route |-> route, payment |-> cred.payment.id,
                                       amount |-> cred.payment.amount])
      BY <1>4, <2>2 DEF Settle
    <3>2. Pays(cred.payment, DecodeRequest(ChargeWithOptions(route).request))
      BY <1>4 DEF MayBroadcast
    <3>3. Units(route) # Unparsable /\ cred.payment.amount = ParseAmount(Units(route))
      BY <1>4, <3>2, ChallengeCarriesPrice DEF Pays
    <3>4. Sold(route, cred) /\ cred \in Held
      BY <1>1, <1>4, <3>1, <3>3 DEF Sold, PutIfAbsent
    <3> QED BY <1>2, <3>4
  <2> QED BY <2>1, <2>2
<1> QED BY <1>2, <1>3, <1>4

\* What a sale does to the books.
LEMMA SaleKeepsBooks ==
  ASSUME WalletInv, ServedInv, RefusedIsNotCharged, NEW route \in Routes,
         NEW cred \in Held, Sold(route, cred), UNCHANGED <<gate, doubtful>>
  PROVE  ServedInv' /\ RefusedIsNotCharged'
<1> DEFINE p == cred.payment.id
           entry == [route |-> route, payment |-> p, amount |-> cred.payment.amount]
           n == Len(served)
<1>1. served \in Seq(Range(served)) /\ served' = Append(served, entry)
  BY DEF ServedInv, Sold
<1>2. n \in Nat /\ DOMAIN served = 1..n
  BY <1>1
<1>3. entry.route = route /\ entry.payment = p /\ entry.amount = cred.payment.amount
  OBVIOUS
<1>4. /\ p \notin consumed /\ consumed' = consumed \cup {p} /\ landed' = landed \cup {p}
      /\ Units(route) # Unparsable /\ cred.payment.amount = ParseAmount(Units(route))
      /\ cred.payment.amount # Unparsable
  BY DEF Sold, WalletInv
<1>5. \A r : Units(r)' = Units(r)
  BY DEF Units
<1> HIDE DEF entry, n, p
<1>6. /\ served' \in Seq(Range(served) \cup {entry})
      /\ DOMAIN served' = 1..(n + 1) /\ served'[n + 1] = entry
      /\ \A i \in 1..n : served'[i] = served[i]
  <2>1. served \in Seq(Range(served) \cup {entry}) /\ Len(served) = n
    BY <1>1 DEF n
  <2> QED BY <1>1, <2>1
<1>7. served' \in Seq(Range(served'))
  <2> DEFINE S == Range(served) \cup {entry}
  <2>1. \A i \in DOMAIN served' : served'[i] \in Range(served')
    BY DEF Range
  <2> HIDE DEF S
  <2>2. served' \in Seq(S)
    BY <1>6 DEF S
  <2> QED BY <2>1, <2>2
<1>8. ASSUME NEW i \in 1..n
      PROVE  /\ served'[i] = served[i] /\ served[i].payment # p
             /\ served[i].payment \in (landed \cap consumed)
             /\ served[i].route \in Routes /\ Units(served[i].route) # Unparsable
             /\ served[i].amount = ParseAmount(Units(served[i].route))
             /\ served[i].amount # Unparsable
             /\ \A j \in 1..n : served[i].payment = served[j].payment => i = j
  BY <1>2, <1>4, <1>6 DEF ServedInv
<1>9. ASSUME NEW i \in 1..(n + 1)
      PROVE  /\ served'[i].payment \in (landed' \cap consumed')
             /\ \A j \in 1..(n + 1) : served'[i].payment = served'[j].payment => i = j
             /\ served'[i].route \in Routes
             /\ Units(served'[i].route) # Unparsable
             /\ served'[i].amount = ParseAmount(Units(served'[i].route))
             /\ served'[i].amount # Unparsable
  <2>1. CASE i = n + 1
    <3>1. \A j \in 1..(n + 1) : j # n + 1 => j \in 1..n
      BY <1>2
    <3> QED BY <1>3, <1>4, <1>6, <1>8, <2>1, <3>1
  <2>2. CASE i # n + 1
    <3>1. i \in 1..n /\ \A j \in 1..(n + 1) : j # n + 1 => j \in 1..n
      BY <1>2, <2>2
    <3>2. served'[i].payment # p /\ served'[n + 1].payment = p
      BY <1>3, <1>6, <1>8, <3>1
    <3>3. \A j \in 1..(n + 1) : served'[i].payment = served'[j].payment => i = j
      BY <1>6, <1>8, <3>1, <3>2
    <3> QED BY <1>4, <1>8, <3>1, <3>3
  <2> QED BY <2>1, <2>2
<1>10. ServedInv'
  <2>1. \A r : ParseAmount(Units(r))' = ParseAmount(Units(r))
    BY <1>5 DEF ParseAmount, ParseUnsigned
  <2> QED BY <1>2, <1>5, <1>6, <1>7, <1>9, <2>1 DEF ServedInv
<1>11. RefusedIsNotCharged'
  <2>1. landed \subseteq {served[i].payment : i \in DOMAIN served} \cup doubtful
    BY DEF RefusedIsNotCharged
  <2>2. \A i \in DOMAIN served : i \in DOMAIN served' /\ served'[i].payment = served[i].payment
    BY <1>2, <1>6
  <2>3. n + 1 \in DOMAIN served' /\ served'[n + 1].payment = p
    BY <1>2, <1>3, <1>6
  <2>4. landed' \subseteq {served'[i].payment : i \in DOMAIN served'} \cup doubtful
    BY <1>4, <2>1, <2>2, <2>3
  <2> QED BY <2>4 DEF RefusedIsNotCharged
<1> QED BY <1>10, <1>11

\* A step that sells nothing, and puts on the ledger only what it loses sight of.
LEMMA QuietStep ==
  ASSUME ServedInv, RefusedIsNotCharged, UNCHANGED <<gate, served>>,
         consumed \subseteq consumed', NEW S, landed' = landed \cup S, doubtful' = doubtful \cup S
  PROVE  ServedInv' /\ RefusedIsNotCharged'
<1>1. \A r : Units(r)' = Units(r)
  BY DEF Units
<1>2. ServedInv'
  <2>1. \A r : ParseAmount(Units(r))' = ParseAmount(Units(r))
    BY <1>1 DEF ParseAmount, ParseUnsigned
  <2> QED BY <1>1, <2>1 DEF ServedInv
<1>3. RefusedIsNotCharged'
  BY DEF RefusedIsNotCharged
<1> QED BY <1>2, <1>3

LEMMA HandleKeeps ==
  ASSUME GateInv, NEW route \in Routes, NEW auth, DOMAIN auth \in SUBSET Nat,
         \A i \in DOMAIN auth : auth[i].token \in Held \cup {None}, Handle(route, auth)
  PROVE  GateInv'
<1>1. /\ gate \in Gates /\ goal \in Routes /\ WalletInv /\ ServedInv /\ RefusedIsNotCharged
  BY DEF GateInv
<1>2. /\ UNCHANGED <<gate, goal, now, wallet, doubtful, received>>
      /\ \/ UNCHANGED <<landed, consumed, served>>
         \/ \E cred \in Held : Sold(route, cred)
  BY <1>1, HandleEffect
<1>3. WalletInv'
  BY <1>1, <1>2 DEF WalletInv, Held
<1>4. ServedInv' /\ RefusedIsNotCharged'
  <2>1. CASE UNCHANGED <<landed, consumed, served>>
    <3>1. landed' = landed \cup {} /\ doubtful' = doubtful \cup {}
      BY <1>2, <2>1
    <3> QED BY <1>1, <1>2, <2>1, <3>1, QuietStep
  <2>2. CASE \E cred \in Held : Sold(route, cred)
    BY <1>1, <1>2, <2>2, SaleKeepsBooks
  <2> QED BY <1>2, <2>1, <2>2
<1> QED BY <1>1, <1>2, <1>3, <1>4 DEF GateInv

\* Whatever form a stray request has, its tokens are held or do not decode.
LEMMA StrayTokens ==
  ASSUME NEW cred \in Held, NEW auth \in StrayForms(cred)
  PROVE  /\ DOMAIN auth \in SUBSET Nat
         /\ \A i \in DOMAIN auth : auth[i].token \in Held \cup {None}
<1>1. \/ auth = <<[scheme |-> "Payment", token |-> cred]>>
      \/ auth = <<[scheme |-> "payment", token |-> cred]>>
      \/ auth = <<[scheme |-> "Bearer", token |-> None], [scheme |-> "Payment", token |-> cred]>>
      \/ auth = <<[scheme |-> "Payment", token |-> None], [scheme |-> "Payment", token |-> cred]>>
  BY DEF StrayForms, FormatAuthorization
<1>2. CASE auth = <<[scheme |-> "Payment", token |-> cred]>>
  BY <1>2
<1>3. CASE auth = <<[scheme |-> "payment", token |-> cred]>>
  BY <1>3
<1>4. CASE auth = <<[scheme |-> "Bearer", token |-> None], [scheme |-> "Payment", token |-> cred]>>
  BY <1>4
<1>5. CASE auth = <<[scheme |-> "Payment", token |-> None], [scheme |-> "Payment", token |-> cred]>>
  BY <1>5
<1> QED BY <1>1, <1>2, <1>3, <1>4, <1>5

\* The client keeps the credential it sent last besides the new one.
LEMMA AnswerKeepsWallet ==
  ASSUME WalletInv, Answer
  PROVE  WalletInv'
<1>1. PICK offer \in Offers :
        /\ Payable(offer)
        /\ wallet' = IF wallet = <<>> THEN <<BuildCredential(offer)>>
                     ELSE <<BuildCredential(offer), Head(wallet)>>
  BY DEF Answer
<1> DEFINE new == BuildCredential(offer)
<1>2. new.payment.amount # Unparsable
  <2>1. new.payment.amount = ParseAmount(DecodeRequest(offer.request).amount)
    BY DEF BuildCredential
  <2>2. ParseAmount(DecodeRequest(offer.request).amount) # Unparsable
    BY <1>1 DEF Payable
  <2> QED BY <2>1, <2>2
<1> HIDE DEF new
<1>3. CASE wallet = <<>>
  <2>1. wallet' = <<new>>
    BY <1>1, <1>3 DEF new
  <2> QED BY <1>2, <2>1 DEF WalletInv, Held
<1>4. CASE wallet # <<>>
  <2>1. wallet' = <<new, Head(wallet)>>
    BY <1>1, <1>4 DEF new
  <2>2. Head(wallet) \in Held
    <3>1. wallet \in Seq(Held)
      BY DEF WalletInv
    <3> HIDE DEF new
    <3> QED BY <1>4, <3>1
  <2>3. Head(wallet).payment.amount # Unparsable
    BY <2>2 DEF WalletInv
  <2> DEFINE old == Head(wallet)
  <2>4. old.payment.amount # Unparsable /\ wallet' = <<new, old>>
    BY <2>1, <2>3
  <2> HIDE DEF old
  <2>5. WalletInv'
    <3>1. DOMAIN wallet' = {1, 2} /\ wallet'[1] = new /\ wallet'[2] = old
      BY <2>4
    <3>2. Held' = {new, old}
      BY <3>1 DEF Held
    <3>3. <<new, old>> \in Seq({new, old})
      OBVIOUS
    <3> QED BY <1>2, <2>4, <3>2, <3>3 DEF WalletInv
  <2> QED BY <2>5
<1> QED BY <1>3, <1>4

LEMMA GateInit == Init => GateInv
  BY DEF Init, GateInv, WalletInv, Held, ServedInv, RefusedIsNotCharged, Range

LEMMA GateStep ==
  ASSUME GateInv, [Next]_vars
  PROVE  GateInv'
<1>1. gate \in Gates /\ goal \in Routes /\ WalletInv /\ ServedInv /\ RefusedIsNotCharged
  BY DEF GateInv
<1>2. ASSUME UNCHANGED <<gate, goal, wallet, landed, consumed, doubtful, served>>
      PROVE  GateInv'
  <2>1. landed' = landed \cup {} /\ doubtful' = doubtful \cup {}
    BY <1>2
  <2>2. ServedInv' /\ RefusedIsNotCharged'
    BY <1>1, <1>2, <2>1, QuietStep
  <2>3. WalletInv'
    BY <1>1, <1>2 DEF WalletInv, Held
  <2> QED BY <1>1, <1>2, <2>2, <2>3 DEF GateInv
<1>3. CASE Request
  <2>1. Handle(goal, <<>>)
    BY <1>3 DEF Request
  <2>2. DOMAIN <<>> \in SUBSET Nat /\ \A i \in DOMAIN <<>> : <<>>[i].token \in Held \cup {None}
    OBVIOUS
  <2> QED BY <1>1, <2>1, <2>2, HandleKeeps
<1>4. CASE Answer
  <2>1. UNCHANGED <<gate, goal, landed, consumed, doubtful, served>>
    BY <1>4 DEF Answer
  <2>2. landed' = landed \cup {} /\ doubtful' = doubtful \cup {}
    BY <2>1
  <2>3. ServedInv' /\ RefusedIsNotCharged'
    BY <1>1, <2>1, <2>2, QuietStep
  <2>4. WalletInv'
    BY <1>1, <1>4, AnswerKeepsWallet
  <2> QED BY <1>1, <2>1, <2>3, <2>4 DEF GateInv
<1>5. CASE Present
  <2> DEFINE auth == FormatAuthorization(Head(wallet))
  <2>1. Handle(goal, auth) /\ wallet # <<>>
    BY <1>5 DEF Present
  <2>2. Head(wallet) \in Held
    BY <1>1, <2>1 DEF WalletInv, Held
  <2>3. auth \in StrayForms(Head(wallet))
    BY DEF StrayForms
  <2>4. DOMAIN auth \in SUBSET Nat /\ \A i \in DOMAIN auth : auth[i].token \in Held \cup {None}
    BY <2>2, <2>3, StrayTokens
  <2> HIDE DEF auth
  <2> QED BY <1>1, <2>1, <2>4, HandleKeeps
<1>6. CASE ReceiveResource
  BY <1>2, <1>6 DEF ReceiveResource
<1>7. CASE Discard
  BY <1>2, <1>7 DEF Discard
<1>8. CASE Stray
  <2>1. PICK route \in Routes, k \in DOMAIN wallet :
          \E auth \in StrayForms(wallet[k]) : Handle(route, auth)
    BY <1>8 DEF Stray
  <2>2. PICK auth \in StrayForms(wallet[k]) : Handle(route, auth)
    BY <2>1
  <2>3. wallet[k] \in Held
    BY DEF Held
  <2>4. DOMAIN auth \in SUBSET Nat /\ \A i \in DOMAIN auth : auth[i].token \in Held \cup {None}
    BY <2>3, StrayTokens
  <2> QED BY <2>2, <2>4, HandleKeeps
<1>9. CASE BroadcastFails
  <2>1. /\ UNCHANGED <<gate, goal, wallet, served>>
        /\ consumed \subseteq consumed'
        /\ \/ UNCHANGED <<landed, doubtful>>
           \/ /\ landed' = landed \cup {Head(wallet).payment.id}
              /\ doubtful' = doubtful \cup {Head(wallet).payment.id}
    BY <1>9 DEF BroadcastFails
  <2>2. PICK S : landed' = landed \cup S /\ doubtful' = doubtful \cup S
    <3>1. UNCHANGED <<landed, doubtful>> =>
            landed' = landed \cup {} /\ doubtful' = doubtful \cup {}
      OBVIOUS
    <3> QED BY <2>1, <3>1
  <2>3. ServedInv' /\ RefusedIsNotCharged'
    BY <1>1, <2>1, <2>2, QuietStep
  <2>4. WalletInv'
    BY <1>1, <2>1 DEF WalletInv, Held
  <2> QED BY <1>1, <2>1, <2>3, <2>4 DEF GateInv
<1>10. CASE LoseReply
  BY <1>2, <1>10 DEF LoseReply
<1>11. CASE Tick
  BY <1>2, <1>11 DEF Tick
<1>12. CASE UNCHANGED vars
  BY <1>2, <1>12 DEF vars
<1> QED BY <1>3, <1>4, <1>5, <1>6, <1>7, <1>8, <1>9, <1>10, <1>11, <1>12 DEF Next, ClientStep

\* The inductive invariant: the client's credentials, the server's books, and that
\* nobody who was refused has paid.
THEOREM GateInvariance == Spec => []GateInv
  BY GateInit, GateStep, PTL DEF Spec

\* Nothing is on the ledger but payments that were honoured and those the server
\* lost sight of: a refused credential costs nothing (handle in the three servers).
THEOREM RefusedTheorem == Spec => []RefusedIsNotCharged
<1>1. GateInv => RefusedIsNotCharged
  BY DEF GateInv
<1> QED BY <1>1, GateInvariance, PTL

\* Nobody is served for less than the price: every response has a payment of its own on
\* the ledger, worth what the configured price is worth as a decimal numeral
\* (parse_units, parse_amount and verify in the three servers).
THEOREM ServedAtPriceTheorem == Spec => []ServedAtPrice
<1>1. ASSUME GateInv
      PROVE  ServedAtPrice
  <2> SUFFICES ASSUME NEW i \in DOMAIN served
               PROVE  /\ served[i].payment \in landed
                      /\ \A j \in DOMAIN served : served[i].payment = served[j].payment => i = j
                      /\ LET amount == gate.amounts[served[i].route]
                             price == UnitsOf(amount, Decimals) IN
                           IF price = Unparsable THEN "+" \in Range(amount)
                           ELSE price < U128 => served[i].amount = price
    BY DEF ServedAtPrice
  <2> DEFINE amount == gate.amounts[served[i].route]
  <2>1. /\ served[i].payment \in landed
        /\ \A j \in DOMAIN served : served[i].payment = served[j].payment => i = j
        /\ served[i].route \in Routes
        /\ Units(served[i].route) # Unparsable
        /\ served[i].amount = ParseAmount(Units(served[i].route))
        /\ served[i].amount # Unparsable
        /\ gate \in Gates
    BY <1>1 DEF GateInv, ServedInv
  <2>2. amount \in Seq(Range(amount))
    BY <2>1, GateAssumption
  <2>3. /\ ParseUnits(amount, Decimals) # Unparsable
        /\ served[i].amount = ParseAmount(ParseUnits(amount, Decimals))
        /\ ParseAmount(ParseUnits(amount, Decimals)) # Unparsable
    BY <2>1 DEF Units
  <2> HIDE DEF amount
  <2>4. IF UnitsOf(amount, Decimals) = Unparsable THEN "+" \in Range(amount)
        ELSE UnitsOf(amount, Decimals) < U128 =>
               ParseAmount(ParseUnits(amount, Decimals)) = UnitsOf(amount, Decimals)
    BY <2>2, <2>3, PriceIsWorth
  <2>5. IF UnitsOf(amount, Decimals) = Unparsable THEN "+" \in Range(amount)
        ELSE UnitsOf(amount, Decimals) < U128 => served[i].amount = UnitsOf(amount, Decimals)
    BY <2>3, <2>4
  <2> QED BY <2>1, <2>5 DEF amount
<1> QED BY <1>1, GateInvariance, PTL

-----------------------------------------------------------------------------
(* HttpStream: numbers and sets of them. *)

\* The greatest number of a set with a bound.
LEMMA MaxIn ==
  ASSUME NEW n \in Nat, NEW s \in SUBSET (1..n), s # {}
  PROVE  Max(s) \in s /\ \A y \in s : Max(s) >= y
<1> DEFINE bounds == {b \in Nat : \A y \in s : b >= y}
<1>1. n \in bounds
  OBVIOUS
<1>2. PICK b \in bounds : b = Min(bounds) /\ \A a \in bounds : b <= a
  BY <1>1, MinIn
<1>3. b \in s
  <2> SUFFICES ASSUME b \notin s PROVE FALSE
    OBVIOUS
  <2>1. ASSUME NEW y \in s
        PROVE  b - 1 >= y /\ b - 1 \in Nat
    <3>1. y \in 1..n /\ b >= y /\ b # y /\ b \in Nat
      OBVIOUS
    <3> QED BY <3>1
  <2>2. b - 1 \in bounds
    BY <2>1
  <2> QED BY <1>2, <2>2
<1>4. \A y \in s : b >= y
  OBVIOUS
<1> HIDE DEF bounds
<1> QED BY <1>3, <1>4 DEF Max

LEMMA MaxPrefix ==
  ASSUME NEW n \in Nat, NEW k \in 1..n
  PROVE  /\ 1..k \in SUBSET (1..n) /\ 1..k # {}
         /\ Max(1..k) = k /\ (1..k) \ {Max(1..k)} = 1..(k - 1)
<1>1. 1..k \in SUBSET (1..n) /\ k \in 1..k
  OBVIOUS
<1>2. Max(1..k) = k
  BY <1>1, MaxIn
<1>3. (1..k) \ {k} = 1..(k - 1)
  OBVIOUS
<1> QED BY <1>1, <1>2, <1>3

-----------------------------------------------------------------------------
(* Folds.  A fold over a finite set S goes through its subsets, the element  *)
(* ch[s] of each last.                                                       *)

FoldStep(F, s, ch, base, h) ==
  F[s] = IF s = {} THEN base ELSE h[<<ch[s], F[s \ {ch[s]}]>>]

\* A fold exists whatever its step h is, and its values are those h returns.
LEMMA FoldExists ==
  ASSUME NEW S, IsFiniteSet(S), NEW W, NEW base \in W, NEW h \in [S \X W -> W],
         NEW ch, \A s \in SUBSET S : s # {} => ch[s] \in s
  PROVE  \E F \in [SUBSET S -> W] : \A s \in SUBSET S : FoldStep(F, s, ch, base, h)
<1> DEFINE UpTo(F, n) == \A s \in SUBSET S : Cardinality(s) <= n => FoldStep(F, s, ch, base, h)
           T == {n \in Nat : \E F \in [SUBSET S -> W] : UpTo(F, n)}
<1>1. ASSUME NEW s \in SUBSET S
      PROVE  IsFiniteSet(s) /\ Cardinality(s) \in Nat /\ (Cardinality(s) = 0 <=> s = {})
  BY FS_Subset, FS_CardinalityType, FS_EmptySet
<1>2. ASSUME NEW s \in SUBSET S, s # {}
      PROVE  /\ s \ {ch[s]} \in SUBSET S /\ ch[s] \in S
             /\ Cardinality(s \ {ch[s]}) = Cardinality(s) - 1
  BY <1>1, <1>2, FS_RemoveElement
<1>3. 0 \in T
  <2> DEFINE F == [s \in SUBSET S |-> base]
  <2>1. F \in [SUBSET S -> W]
    OBVIOUS
  <2>2. ASSUME NEW s \in SUBSET S, Cardinality(s) <= 0
        PROVE  s = {} /\ F[s] = base
    BY <1>1, <2>2
  <2>3. UpTo(F, 0)
    BY <2>2 DEF FoldStep
  <2> QED BY <2>1, <2>3
<1>4. ASSUME NEW n \in Nat, n \in T
      PROVE  n + 1 \in T
  <2>1. PICK F \in [SUBSET S -> W] : UpTo(F, n)
    BY <1>4
  <2> DEFINE G == [s \in SUBSET S |-> IF s = {} THEN base ELSE h[<<ch[s], F[s \ {ch[s]}]>>]]
  <2>2. G \in [SUBSET S -> W]
    <3> SUFFICES ASSUME NEW s \in SUBSET S, s # {}
                 PROVE  h[<<ch[s], F[s \ {ch[s]}]>>] \in W
      OBVIOUS
    <3>1. ch[s] \in S /\ F[s \ {ch[s]}] \in W
      BY <1>2
    <3> QED BY <3>1
  <2>3. ASSUME NEW s \in SUBSET S, Cardinality(s) <= n
        PROVE  G[s] = F[s]
    BY <2>1, <2>3 DEF FoldStep
  <2>4. ASSUME NEW s \in SUBSET S, Cardinality(s) <= n + 1
        PROVE  FoldStep(G, s, ch, base, h)
    <3>1. CASE s = {}
      BY <3>1 DEF FoldStep
    <3>2. CASE s # {}
      <4>1. s \ {ch[s]} \in SUBSET S /\ Cardinality(s \ {ch[s]}) <= n
        BY <1>1, <1>2, <2>4, <3>2
      <4>2. G[s \ {ch[s]}] = F[s \ {ch[s]}]
        BY <2>3, <4>1
      <4>3. G[s] = h[<<ch[s], F[s \ {ch[s]}]>>]
        BY <3>2
      <4> HIDE DEF G
      <4> QED BY <3>2, <4>2, <4>3 DEF FoldStep
    <3> QED BY <3>1, <3>2
  <2> HIDE DEF G
  <2>5. UpTo(G, n + 1)
    BY <2>4
  <2> QED BY <2>2, <2>5
<1> HIDE DEF T
<1>5. Cardinality(S) \in T
  BY <1>1, <1>3, <1>4, NatSets
<1>6. PICK F \in [SUBSET S -> W] : UpTo(F, Cardinality(S))
  BY <1>5 DEF T
<1>7. ASSUME NEW s \in SUBSET S
      PROVE  Cardinality(s) <= Cardinality(S)
  BY FS_Subset
<1> QED BY <1>6, <1>7

\* A fold along a sequence of length n: the greatest index is taken last.
PrefixStep(F, s, base, h) ==
  F[s] = IF s = {} THEN base ELSE h[<<Max(s), F[s \ {Max(s)}]>>]

LEMMA PrefixFold ==
  ASSUME NEW n \in Nat, NEW W, NEW base \in W, NEW h \in [(1..n) \X W -> W]
  PROVE  \E F \in [SUBSET (1..n) -> W] :
           \A s \in SUBSET (1..n) : PrefixStep(F, s, base, h)
<1> DEFINE ch == [s \in SUBSET (1..n) |-> Max(s)]
<1>1. \A s \in SUBSET (1..n) : s # {} => ch[s] \in s
  BY MaxIn
<1>2. IsFiniteSet(1..n)
  BY FS_Interval
<1>3. \A s \in SUBSET (1..n) : ch[s] = Max(s)
  OBVIOUS
<1> HIDE DEF ch
<1>4. PICK F \in [SUBSET (1..n) -> W] :
        \A s \in SUBSET (1..n) : FoldStep(F, s, ch, base, h)
  BY <1>1, <1>2, FoldExists
<1>5. ASSUME NEW s \in SUBSET (1..n)
      PROVE  PrefixStep(F, s, base, h)
  BY <1>3, <1>4 DEF FoldStep, PrefixStep
<1> QED BY <1>5

-----------------------------------------------------------------------------
(* What the decoder and the state make of a sequence, step by step. *)

\* The decoder's way from d to e along the atoms.
Runs(d, atoms, e) ==
  \E P : /\ P[0] = d /\ P[Len(atoms)] = e
         /\ \A k \in 1..Len(atoms) : P[k] = PushAtom(P[k - 1], atoms[k])

\* The stream state's way from a to b along the events.
Applies(a, events, b) ==
  \E P : /\ P[0] = a /\ P[Len(events)] = b
         /\ \A k \in 1..Len(events) : P[k] = ApplyEvent(P[k - 1], events[k])

LEMMA RunsAlone ==
  ASSUME NEW d, NEW atoms, Len(atoms) \in Nat, NEW e, NEW f, Runs(d, atoms, e), Runs(d, atoms, f)
  PROVE  e = f
<1> DEFINE n == Len(atoms)
<1>n. n \in Nat
  OBVIOUS
<1>1. PICK P : /\ P[0] = d /\ P[n] = e
               /\ \A k \in 1..n : P[k] = PushAtom(P[k - 1], atoms[k])
  BY DEF Runs
<1>2. PICK Q : /\ Q[0] = d /\ Q[n] = f
               /\ \A k \in 1..n : Q[k] = PushAtom(Q[k - 1], atoms[k])
  BY DEF Runs
<1> HIDE DEF n
<1> DEFINE T == {k \in Nat : P[k] = Q[k]}
<1>3. 0 \in T
  BY <1>1, <1>2
<1>4. \A k \in 1..n : k - 1 \in T => k \in T
  BY <1>1, <1>2
<1> HIDE DEF T
<1>5. n \in T
  <2>1. \A k \in 0..n : k \in T
    BY <1>n, <1>3, <1>4, PrefixSets, Zenon
  <2> QED BY <1>n, <2>1
<1> QED BY <1>1, <1>2, <1>5 DEF T

LEMMA AppliesAlone ==
  ASSUME NEW a, NEW events, Len(events) \in Nat, NEW b, NEW c,
         Applies(a, events, b), Applies(a, events, c)
  PROVE  b = c
<1> DEFINE n == Len(events)
<1>n. n \in Nat
  OBVIOUS
<1>1. PICK P : /\ P[0] = a /\ P[n] = b
               /\ \A k \in 1..n : P[k] = ApplyEvent(P[k - 1], events[k])
  BY DEF Applies
<1>2. PICK Q : /\ Q[0] = a /\ Q[n] = c
               /\ \A k \in 1..n : Q[k] = ApplyEvent(Q[k - 1], events[k])
  BY DEF Applies
<1> HIDE DEF n
<1> DEFINE T == {k \in Nat : P[k] = Q[k]}
<1>3. 0 \in T
  BY <1>1, <1>2
<1>4. \A k \in 1..n : k - 1 \in T => k \in T
  BY <1>1, <1>2
<1> HIDE DEF T
<1>5. n \in T
  <2>1. \A k \in 0..n : k \in T
    BY <1>n, <1>3, <1>4, PrefixSets, Zenon
  <2> QED BY <1>n, <2>1
<1> QED BY <1>1, <1>2, <1>5 DEF T

\* The laws of concatenation.
LEMMA ConcatLaws ==
  ASSUME NEW S, NEW s \in Seq(S), NEW t \in Seq(S)
  PROVE  /\ s \o t \in Seq(S) /\ Len(s \o t) = Len(s) + Len(t)
         /\ \A i \in 1..Len(s) : (s \o t)[i] = s[i]
         /\ \A i \in 1..Len(t) : (s \o t)[Len(s) + i] = t[i]
  OBVIOUS

LEMMA RunsOn ==
  ASSUME NEW S, NEW s \in Seq(S), NEW t \in Seq(S), NEW d, NEW e, NEW f,
         Runs(d, s, e), Runs(e, t, f)
  PROVE  Runs(d, s \o t, f)
<1> DEFINE m == Len(s)
           n == Len(t)
           both == s \o t
<1>n. m \in Nat /\ n \in Nat
  OBVIOUS
<1>1. PICK P : /\ P[0] = d /\ P[m] = e
               /\ \A k \in 1..m : P[k] = PushAtom(P[k - 1], s[k])
  BY DEF Runs
<1>2. PICK Q : /\ Q[0] = e /\ Q[n] = f
               /\ \A k \in 1..n : Q[k] = PushAtom(Q[k - 1], t[k])
  BY DEF Runs
<1>3. /\ Len(both) = m + n
      /\ \A i \in 1..m : both[i] = s[i]
      /\ \A i \in 1..n : both[m + i] = t[i]
  BY ConcatLaws
<1> HIDE DEF m, n, both
<1> DEFINE R == [k \in 0..(m + n) |-> IF k <= m THEN P[k] ELSE Q[k - m]]
<1>4. R[0] = d
  BY <1>n, <1>1
<1>5. R[m + n] = f
  <2>1. CASE n = 0
    BY <1>n, <1>1, <1>2, <2>1
  <2>2. CASE n # 0
    BY <1>n, <1>2, <2>2
  <2> QED BY <2>1, <2>2
<1>6. ASSUME NEW k \in 1..(m + n)
      PROVE  R[k] = PushAtom(R[k - 1], both[k])
  <2>1. CASE k <= m
    <3>1. R[k] = P[k] /\ R[k - 1] = P[k - 1] /\ both[k] = s[k] /\ k \in 1..m
      BY <1>n, <1>3, <2>1
    <3> QED BY <1>1, <3>1, Zenon
  <2>2. CASE k > m
    <3>1. k - m \in 1..n /\ m + (k - m) = k /\ (k - m) - 1 = (k - 1) - m
      BY <1>n, <2>2
    <3>2. both[k] = t[k - m]
      BY <1>3, <3>1
    <3>3. R[k] = Q[k - m]
      BY <1>n, <2>2
    <3>4. R[k - 1] = Q[(k - m) - 1]
      <4>1. CASE k - 1 = m
        BY <1>n, <1>1, <1>2, <4>1
      <4>2. CASE k - 1 # m
        BY <1>n, <2>2, <4>2, <3>1
      <4> QED BY <4>1, <4>2
    <3> QED BY <1>2, <3>1, <3>2, <3>3, <3>4, Zenon
  <2> QED BY <1>n, <2>1, <2>2
<1> HIDE DEF R
<1>7. Runs(d, both, f)
  <2>1. R[Len(both)] = f /\ \A k \in 1..Len(both) : R[k] = PushAtom(R[k - 1], both[k])
    BY <1>3, <1>5, <1>6
  <2> QED BY <1>4, <2>1 DEF Runs
<1> QED BY <1>7 DEF both

LEMMA AppliesOn ==
  ASSUME NEW S, NEW s \in Seq(S), NEW t \in Seq(S), NEW d, NEW e, NEW f,
         Applies(d, s, e), Applies(e, t, f)
  PROVE  Applies(d, s \o t, f)
<1> DEFINE m == Len(s)
           n == Len(t)
           both == s \o t
<1>n. m \in Nat /\ n \in Nat
  OBVIOUS
<1>1. PICK P : /\ P[0] = d /\ P[m] = e
               /\ \A k \in 1..m : P[k] = ApplyEvent(P[k - 1], s[k])
  BY DEF Applies
<1>2. PICK Q : /\ Q[0] = e /\ Q[n] = f
               /\ \A k \in 1..n : Q[k] = ApplyEvent(Q[k - 1], t[k])
  BY DEF Applies
<1>3. /\ Len(both) = m + n
      /\ \A i \in 1..m : both[i] = s[i]
      /\ \A i \in 1..n : both[m + i] = t[i]
  BY ConcatLaws
<1> HIDE DEF m, n, both
<1> DEFINE R == [k \in 0..(m + n) |-> IF k <= m THEN P[k] ELSE Q[k - m]]
<1>4. R[0] = d
  BY <1>n, <1>1
<1>5. R[m + n] = f
  <2>1. CASE n = 0
    BY <1>n, <1>1, <1>2, <2>1
  <2>2. CASE n # 0
    BY <1>n, <1>2, <2>2
  <2> QED BY <2>1, <2>2
<1>6. ASSUME NEW k \in 1..(m + n)
      PROVE  R[k] = ApplyEvent(R[k - 1], both[k])
  <2>1. CASE k <= m
    <3>1. R[k] = P[k] /\ R[k - 1] = P[k - 1] /\ both[k] = s[k] /\ k \in 1..m
      BY <1>n, <1>3, <2>1
    <3> QED BY <1>1, <3>1, Zenon
  <2>2. CASE k > m
    <3>1. k - m \in 1..n /\ m + (k - m) = k /\ (k - m) - 1 = (k - 1) - m
      BY <1>n, <2>2
    <3>2. both[k] = t[k - m]
      BY <1>3, <3>1
    <3>3. R[k] = Q[k - m]
      BY <1>n, <2>2
    <3>4. R[k - 1] = Q[(k - m) - 1]
      <4>1. CASE k - 1 = m
        BY <1>n, <1>1, <1>2, <4>1
      <4>2. CASE k - 1 # m
        BY <1>n, <2>2, <4>2, <3>1
      <4> QED BY <4>1, <4>2
    <3> QED BY <1>2, <3>1, <3>2, <3>3, <3>4, Zenon
  <2> QED BY <1>n, <2>1, <2>2
<1> HIDE DEF R
<1>7. Applies(d, both, f)
  <2>1. R[Len(both)] = f /\ \A k \in 1..Len(both) : R[k] = ApplyEvent(R[k - 1], both[k])
    BY <1>3, <1>5, <1>6
  <2> QED BY <1>4, <2>1 DEF Applies
<1> QED BY <1>7 DEF both

LEMMA RunsOn1 ==
  ASSUME NEW S, NEW s \in Seq(S), NEW d, NEW e, NEW atom \in S, Runs(d, s, e)
  PROVE  Runs(d, Append(s, atom), PushAtom(e, atom))
<1>1. Runs(e, <<atom>>, PushAtom(e, atom))
  <2> DEFINE P == [k \in 0..1 |-> IF k = 0 THEN e ELSE PushAtom(e, atom)]
  <2>1. P[0] = e /\ P[1] = PushAtom(e, atom) /\ Len(<<atom>>) = 1 /\ <<atom>>[1] = atom
    OBVIOUS
  <2> HIDE DEF P
  <2>2. \A k \in 1..Len(<<atom>>) : P[k] = PushAtom(P[k - 1], <<atom>>[k])
    <3>1. \A k \in 1..1 : k = 1 /\ k - 1 = 0
      OBVIOUS
    <3> QED BY <2>1, <3>1
  <2> QED BY <2>1, <2>2 DEF Runs
<1>2. <<atom>> \in Seq(S) /\ Append(s, atom) = s \o <<atom>>
  OBVIOUS
<1> QED BY <1>1, <1>2, RunsOn

LEMMA AppliesOn1 ==
  ASSUME NEW S, NEW s \in Seq(S), NEW d, NEW e, NEW event \in S, Applies(d, s, e)
  PROVE  Applies(d, Append(s, event), ApplyEvent(e, event))
<1>1. Applies(e, <<event>>, ApplyEvent(e, event))
  <2> DEFINE P == [k \in 0..1 |-> IF k = 0 THEN e ELSE ApplyEvent(e, event)]
  <2>1. P[0] = e /\ P[1] = ApplyEvent(e, event) /\ Len(<<event>>) = 1 /\ <<event>>[1] = event
    OBVIOUS
  <2> HIDE DEF P
  <2>2. \A k \in 1..Len(<<event>>) : P[k] = ApplyEvent(P[k - 1], <<event>>[k])
    <3>1. \A k \in 1..1 : k = 1 /\ k - 1 = 0
      OBVIOUS
    <3> QED BY <2>1, <3>1
  <2> QED BY <2>1, <2>2 DEF Applies
<1>2. <<event>> \in Seq(S) /\ Append(s, event) = s \o <<event>>
  OBVIOUS
<1> QED BY <1>1, <1>2, AppliesOn

LEMMA RunsNowhere ==
  ASSUME NEW d
  PROVE  Runs(d, <<>>, d)
<1> DEFINE P == [k \in 0..0 |-> d]
<1>1. P[0] = d /\ Len(<<>>) = 0 /\ \A k \in 1..0 : FALSE
  OBVIOUS
<1> HIDE DEF P
<1> QED BY <1>1 DEF Runs

LEMMA AppliesNothing ==
  ASSUME NEW a
  PROVE  Applies(a, <<>>, a)
<1> DEFINE P == [k \in 0..0 |-> a]
<1>1. P[0] = a /\ Len(<<>>) = 0 /\ \A k \in 1..0 : FALSE
  OBVIOUS
<1> HIDE DEF P
<1> QED BY <1>1 DEF Applies

\* What a decoder over the atoms A may hold.
Pieces(A) ==
  [event : Seq(A) \cup {Absent}, data : Seq(A), id : Seq(A) \cup {Absent},
   retry : Seq(A) \cup {Absent}]

Decoders(A) == [buffer : Seq(A), current : Pieces(A), events : Seq(Pieces(A))]

LEMMA NoEventIsPiece ==
  ASSUME NEW A
  PROVE  NoEvent \in Pieces(A)
  BY DEF NoEvent, Pieces

LEMMA FieldsIn ==
  ASSUME NEW B, NEW Ps, NEW E, NEW d \in [buffer : B, current : Ps, events : E]
  PROVE  /\ d.buffer \in B /\ d.current \in Ps /\ d.events \in E
         /\ d = [buffer |-> d.buffer, current |-> d.current, events |-> d.events]
         /\ \A x \in B : [d EXCEPT !.buffer = x] \in [buffer : B, current : Ps, events : E]
         /\ \A x \in Ps : [d EXCEPT !.current = x] \in [buffer : B, current : Ps, events : E]
         /\ \A x \in Ps, y \in E :
              [d EXCEPT !.current = x, !.events = y] \in [buffer : B, current : Ps, events : E]
  OBVIOUS

LEMMA FieldsOf ==
  ASSUME NEW A, NEW d \in Decoders(A)
  PROVE  d.buffer \in Seq(A) /\ d.current \in Pieces(A) /\ d.events \in Seq(Pieces(A))
  BY FieldsIn, Zenon DEF Decoders

LEMMA FieldsAre ==
  ASSUME NEW A, NEW d \in Decoders(A)
  PROVE  d = [buffer |-> d.buffer, current |-> d.current, events |-> d.events]
  BY FieldsIn, Zenon DEF Decoders

LEMMA FieldsWith ==
  ASSUME NEW A, NEW d \in Decoders(A)
  PROVE  /\ \A x \in Seq(A) : [d EXCEPT !.buffer = x] \in Decoders(A)
         /\ \A x \in Pieces(A) : [d EXCEPT !.current = x] \in Decoders(A)
         /\ \A x \in Pieces(A), y \in Seq(Pieces(A)) :
              [d EXCEPT !.current = x, !.events = y] \in Decoders(A)
  BY FieldsIn, Zenon DEF Decoders

LEMMA DispatchTyped ==
  ASSUME NEW A, NEW d \in Decoders(A)
  PROVE  Dispatch(d) \in Decoders(A)
<1>1. d.current \in Pieces(A) /\ d.events \in Seq(Pieces(A))
  BY FieldsOf
<1>2. NoEvent \in Pieces(A) /\ Append(d.events, d.current) \in Seq(Pieces(A))
  BY <1>1, NoEventIsPiece
<1> QED BY <1>2, FieldsWith, Zenon DEF Dispatch

LEMMA LineTyped ==
  ASSUME NEW A, "LF" \in A, NEW d \in Decoders(A), NEW line \in Seq(A)
  PROVE  ProcessLine(d, line) \in Decoders(A)
<1>1. CASE line = <<>>
  BY <1>1, DispatchTyped DEF ProcessLine
<1>2. CASE line # <<>>
  <2> DEFINE value == Tail(line)
  <2>1. value \in Seq(A)
    BY <1>2
  <2>2. d.current \in Pieces(A) /\ d.current.data \in Seq(A)
    BY FieldsOf DEF Pieces
  <2>3. AppendData(d.current.data, value) \in Seq(A)
    <3>1. <<"LF">> \in Seq(A)
      OBVIOUS
    <3>2. \A x, y, z \in Seq(A) : x \o y \o z \in Seq(A)
      OBVIOUS
    <3> QED BY <2>1, <2>2, <3>1, <3>2 DEF AppendData
  <2>4. /\ [d.current EXCEPT !.event = value] \in Pieces(A)
        /\ [d.current EXCEPT !.data = AppendData(d.current.data, value)] \in Pieces(A)
        /\ [d.current EXCEPT !.id = value] \in Pieces(A)
        /\ [d.current EXCEPT !.retry = value] \in Pieces(A)
        /\ [d.current EXCEPT !.retry = Absent] \in Pieces(A)
    BY <2>1, <2>2, <2>3 DEF Pieces
  <2>5. /\ [d EXCEPT !.current = [d.current EXCEPT !.event = value]] \in Decoders(A)
        /\ [d EXCEPT !.current = [d.current EXCEPT !.data = AppendData(d.current.data, value)]]
             \in Decoders(A)
        /\ [d EXCEPT !.current = [d.current EXCEPT !.id = value]] \in Decoders(A)
        /\ [d EXCEPT !.current = [d.current EXCEPT !.retry = value]] \in Decoders(A)
        /\ [d EXCEPT !.current = [d.current EXCEPT !.retry = Absent]] \in Decoders(A)
    BY <2>4, FieldsWith, Zenon
  <2> QED BY <1>2, <2>5 DEF ProcessLine
<1> QED BY <1>1, <1>2

LEMMA AtomTyped ==
  ASSUME NEW A, "LF" \in A, NEW d \in Decoders(A), NEW atom \in A
  PROVE  PushAtom(d, atom) \in Decoders(A)
<1>1. CASE atom # "LF"
  <2>1. Append(d.buffer, atom) \in Seq(A)
    <3>1. d.buffer \in Seq(A)
      BY FieldsOf
    <3> QED BY <3>1
  <2> QED BY <1>1, <2>1, FieldsWith, Zenon DEF PushAtom
<1>2. CASE atom = "LF"
  <2> DEFINE line == Chop(d.buffer)
             e == ProcessLine(d, line)
  <2>1. line \in Seq(A)
    <3>1. d.buffer \in Seq(A)
      BY FieldsOf
    <3>2. CASE d.buffer # <<>>
      <4>1. Front(d.buffer) \in Seq(A)
        BY <3>1, <3>2 DEF Front
      <4> QED BY <3>1, <4>1 DEF Chop
    <3> QED BY <3>1, <3>2 DEF Chop
  <2>2. e \in Decoders(A) /\ <<>> \in Seq(A)
    BY <2>1, LineTyped
  <2>3. PushAtom(d, atom) = [e EXCEPT !.buffer = <<>>]
    BY <1>2, Zenon DEF PushAtom
  <2> HIDE DEF line, e
  <2> QED BY <2>2, <2>3, FieldsWith, Zenon
<1> QED BY <1>1, <1>2

LEMMA RunsTyped ==
  ASSUME NEW A, "LF" \in A, NEW d \in Decoders(A), NEW atoms \in Seq(A), NEW e, Runs(d, atoms, e)
  PROVE  e \in Decoders(A)
<1> DEFINE n == Len(atoms)
<1>n. n \in Nat /\ \A k \in 1..n : atoms[k] \in A
  OBVIOUS
<1>1. PICK P : /\ P[0] = d /\ P[n] = e
               /\ \A k \in 1..n : P[k] = PushAtom(P[k - 1], atoms[k])
  BY DEF Runs
<1> HIDE DEF n
<1> DEFINE T == {k \in Nat : P[k] \in Decoders(A)}
<1>2. 0 \in T
  BY <1>1
<1>3. ASSUME NEW k \in 1..n, k - 1 \in T
      PROVE  k \in T
  <2>1. PushAtom(P[k - 1], atoms[k]) \in Decoders(A)
    BY <1>n, <1>3, AtomTyped
  <2> QED BY <1>1, <2>1
<1> HIDE DEF T
<1>4. \A k \in 0..n : k \in T
  BY <1>n, <1>2, <1>3, PrefixSets
<1>5. n \in T
  BY <1>n, <1>4
<1> QED BY <1>1, <1>5 DEF T

LEMMA RunsSomewhere ==
  ASSUME NEW A, NEW atoms \in Seq(A), NEW d
  PROVE  \E e : Runs(d, atoms, e)
<1> DEFINE n == Len(atoms)
           Way(P, m) == P[0] = d /\ \A k \in 1..m : P[k] = PushAtom(P[k - 1], atoms[k])
           T == {m \in Nat : \E P : Way(P, m)}
<1>n. n \in Nat
  OBVIOUS
<1>1. 0 \in T
  <2> DEFINE P == [k \in 0..0 |-> d]
  <2>1. P[0] = d /\ \A k \in 1..0 : FALSE
    OBVIOUS
  <2> HIDE DEF P
  <2>2. Way(P, 0)
    BY <2>1
  <2> QED BY <2>2
<1>2. ASSUME NEW m \in Nat, m \in T
      PROVE  m + 1 \in T
  <2>1. PICK P : Way(P, m)
    BY <1>2
  <2> DEFINE Q == [k \in 0..(m + 1) |-> IF k = m + 1 THEN PushAtom(P[m], atoms[m + 1]) ELSE P[k]]
  <2>2. /\ Q[m + 1] = PushAtom(P[m], atoms[m + 1])
        /\ \A k \in 0..m : Q[k] = P[k]
    OBVIOUS
  <2> HIDE DEF Q
  <2>3. ASSUME NEW k \in 1..(m + 1)
        PROVE  Q[k] = PushAtom(Q[k - 1], atoms[k])
    <3>1. k - 1 \in 0..m /\ Q[k - 1] = P[k - 1]
      BY <2>2
    <3>2. CASE k = m + 1
      <4>1. k - 1 = m
        BY <3>2
      <4> QED BY <2>2, <3>1, <3>2, <4>1
    <3>3. CASE k # m + 1
      <4>1. k \in 1..m /\ k \in 0..m
        BY <3>3
      <4> QED BY <2>1, <2>2, <3>1, <4>1
    <3> QED BY <3>2, <3>3
  <2>4. Q[0] = d
    BY <2>1, <2>2
  <2>5. Way(Q, m + 1)
    BY <2>3, <2>4
  <2> QED BY <2>5
<1> HIDE DEF T
<1>3. n \in T
  BY <1>n, <1>1, <1>2, NatSets
<1>4. PICK P : Way(P, n)
  BY <1>3 DEF T
<1>5. Runs(d, atoms, P[n])
  BY <1>4 DEF Runs
<1> QED BY <1>5

\* A decoder that has dispatched the events s before does the same.
Having(s, d) == [buffer |-> d.buffer, current |-> d.current, events |-> s \o d.events]

WithBuffer(d, x) == [d EXCEPT !.buffer = x]
WithCurrent(d, x) == [d EXCEPT !.current = x]

LEMMA WithIs ==
  ASSUME NEW b, NEW c, NEW v, NEW d, d = [buffer |-> b, current |-> c, events |-> v], NEW x
  PROVE  /\ WithBuffer(d, x) = [buffer |-> x, current |-> c, events |-> v]
         /\ WithCurrent(d, x) = [buffer |-> b, current |-> x, events |-> v]
  BY DEF WithBuffer, WithCurrent

LEMMA HavingWith ==
  ASSUME NEW A, NEW d \in Decoders(A), NEW s, NEW x
  PROVE  /\ WithBuffer(Having(s, d), x) = Having(s, WithBuffer(d, x))
         /\ WithCurrent(Having(s, d), x) = Having(s, WithCurrent(d, x))
<1>1. PICK b, c, v : d = [buffer |-> b, current |-> c, events |-> v]
  BY FieldsAre, Zenon
<1> DEFINE w == s \o v
           h == Having(s, d)
<1>2. h = [buffer |-> b, current |-> c, events |-> w]
  BY <1>1 DEF Having
<1>3. /\ Having(s, [buffer |-> x, current |-> c, events |-> v])
           = [buffer |-> x, current |-> c, events |-> w]
      /\ Having(s, [buffer |-> b, current |-> x, events |-> v])
           = [buffer |-> b, current |-> x, events |-> w]
  BY DEF Having
<1> HIDE DEF w, h
<1>4. /\ WithBuffer(d, x) = [buffer |-> x, current |-> c, events |-> v]
      /\ WithCurrent(d, x) = [buffer |-> b, current |-> x, events |-> v]
  BY <1>1, WithIs
<1>5. /\ WithBuffer(h, x) = [buffer |-> x, current |-> c, events |-> w]
      /\ WithCurrent(h, x) = [buffer |-> b, current |-> x, events |-> w]
  BY <1>2, WithIs
<1> QED BY <1>3, <1>4, <1>5 DEF h

\* What a line that is not blank does to the event.
Taken(c, line) ==
  CASE line[1] = "event:" -> [c EXCEPT !.event = Tail(line)]
    [] line[1] = "data:" -> [c EXCEPT !.data = AppendData(@, Tail(line))]
    [] line[1] = "id:" -> [c EXCEPT !.id = Tail(line)]
    [] line[1] = "retry:" -> [c EXCEPT !.retry = IF Tail(line) = <<"ms">> THEN Tail(line) ELSE Absent]
    [] OTHER -> c

LEMMA LineIs ==
  ASSUME NEW A, NEW d \in Decoders(A), NEW line, line # <<>>
  PROVE  ProcessLine(d, line) = WithCurrent(d, Taken(d.current, line))
<1>1. WithCurrent(d, d.current) = d
  <2>1. PICK b, c, v : d = [buffer |-> b, current |-> c, events |-> v]
    BY FieldsAre, Zenon
  <2>2. WithCurrent(d, c) = [buffer |-> b, current |-> c, events |-> v] /\ d.current = c
    BY <2>1, WithIs
  <2> QED BY <2>1, <2>2
<1>2. CASE line[1] = "event:"
  BY <1>2 DEF ProcessLine, Taken, WithCurrent
<1>3. CASE line[1] = "data:"
  BY <1>3 DEF ProcessLine, Taken, WithCurrent
<1>4. CASE line[1] = "id:"
  BY <1>4 DEF ProcessLine, Taken, WithCurrent
<1>5. CASE line[1] = "retry:"
  BY <1>5 DEF ProcessLine, Taken, WithCurrent
<1>6. CASE line[1] \notin {"event:", "data:", "id:", "retry:"}
  <2>1. Taken(d.current, line) = d.current
    BY <1>6 DEF Taken
  <2>2. ProcessLine(d, line) = d
    BY <1>6 DEF ProcessLine
  <2> QED BY <1>1, <2>1, <2>2
<1> QED BY <1>2, <1>3, <1>4, <1>5, <1>6

LEMMA DispatchHaving ==
  ASSUME NEW A, NEW d \in Decoders(A), NEW s \in Seq(Pieces(A))
  PROVE  Dispatch(Having(s, d)) = Having(s, Dispatch(d))
<1>1. d.current \in Pieces(A) /\ d.events \in Seq(Pieces(A))
  BY FieldsOf
<1>2. d = [buffer |-> d.buffer, current |-> d.current, events |-> d.events]
  BY FieldsAre
<1>3. s \o Append(d.events, d.current) = Append(s \o d.events, d.current)
  BY <1>1
<1> QED BY <1>2, <1>3 DEF Dispatch, Having

LEMMA LineHaving ==
  ASSUME NEW A, NEW d \in Decoders(A), NEW s \in Seq(Pieces(A)), NEW line,
         Having(s, d) \in Decoders(A)
  PROVE  ProcessLine(Having(s, d), line) = Having(s, ProcessLine(d, line))
<1>1. CASE line = <<>>
  BY <1>1, DispatchHaving DEF ProcessLine
<1>2. CASE line # <<>>
  <2>1. Having(s, d).current = d.current
    BY DEF Having
  <2>2. ProcessLine(Having(s, d), line) = WithCurrent(Having(s, d), Taken(d.current, line))
    BY <1>2, <2>1, LineIs
  <2> QED BY <1>2, <2>2, LineIs, HavingWith
<1> QED BY <1>1, <1>2

LEMMA HavingTyped ==
  ASSUME NEW A, NEW d \in Decoders(A), NEW s \in Seq(Pieces(A))
  PROVE  Having(s, d) \in Decoders(A)
<1> DEFINE B == Seq(A)
           Ps == Pieces(A)
           E == Seq(Pieces(A))
<1>1. d.buffer \in B /\ d.current \in Ps /\ d.events \in E
  BY FieldsOf
<1>2. s \o d.events \in E
  BY <1>1
<1> HIDE DEF B, Ps, E
<1>3. Having(s, d) \in [buffer : B, current : Ps, events : E]
  BY <1>1, <1>2 DEF Having
<1> QED BY <1>3, Zenon DEF Decoders, B, Ps, E

LEMMA AtomHaving ==
  ASSUME NEW A, "LF" \in A, NEW d \in Decoders(A), NEW s \in Seq(Pieces(A)), NEW atom
  PROVE  PushAtom(Having(s, d), atom) = Having(s, PushAtom(d, atom))
<1>1. \A x : PushAtom(x, atom) = IF atom # "LF" THEN WithBuffer(x, Append(x.buffer, atom))
                                ELSE WithBuffer(ProcessLine(x, Chop(x.buffer)), <<>>)
  BY Zenon DEF PushAtom, WithBuffer
<1>2. Having(s, d).buffer = d.buffer /\ Having(s, d) \in Decoders(A)
  BY HavingTyped DEF Having
<1>3. CASE atom # "LF"
  BY <1>1, <1>2, <1>3, HavingWith
<1>4. CASE atom = "LF"
  <2> DEFINE e == ProcessLine(d, Chop(d.buffer))
  <2>1. ProcessLine(Having(s, d), Chop(d.buffer)) = Having(s, e)
    BY <1>2, LineHaving
  <2>2. e \in Decoders(A)
    <3>1. d.buffer \in Seq(A)
      BY FieldsOf
    <3>2. CASE d.buffer # <<>>
      <4>1. Front(d.buffer) \in Seq(A)
        BY <3>1, <3>2 DEF Front
      <4>2. Chop(d.buffer) \in Seq(A)
        BY <3>1, <4>1 DEF Chop
      <4> QED BY <4>2, LineTyped
    <3>3. CASE d.buffer = <<>>
      <4>1. Chop(d.buffer) \in Seq(A)
        BY <3>1, <3>3 DEF Chop
      <4> QED BY <4>1, LineTyped
    <3> QED BY <3>2, <3>3
  <2> HIDE DEF e
  <2>3. PushAtom(d, atom) = WithBuffer(e, <<>>)
    BY <1>1, <1>4 DEF e
  <2>4. PushAtom(Having(s, d), atom) = WithBuffer(Having(s, e), <<>>)
    BY <1>1, <1>2, <1>4, <2>1
  <2> QED BY <2>2, <2>3, <2>4, HavingWith
<1> QED BY <1>3, <1>4

LEMMA RunsHaving ==
  ASSUME NEW A, "LF" \in A, NEW d \in Decoders(A), NEW s \in Seq(Pieces(A)),
         NEW atoms \in Seq(A), NEW e, Runs(d, atoms, e)
  PROVE  Runs(Having(s, d), atoms, Having(s, e))
<1> DEFINE n == Len(atoms)
<1>n. n \in Nat /\ \A k \in 1..n : atoms[k] \in A
  OBVIOUS
<1>1. PICK P : /\ P[0] = d /\ P[n] = e
               /\ \A k \in 1..n : P[k] = PushAtom(P[k - 1], atoms[k])
  BY DEF Runs
<1> HIDE DEF n
<1> DEFINE T == {k \in Nat : P[k] \in Decoders(A)}
<1>2. 0 \in T
  BY <1>1
<1>3. ASSUME NEW k \in 1..n, k - 1 \in T
      PROVE  k \in T
  <2>1. PushAtom(P[k - 1], atoms[k]) \in Decoders(A)
    BY <1>n, <1>3, AtomTyped
  <2> QED BY <1>1, <2>1
<1> HIDE DEF T
<1>4. \A k \in 0..n : k \in T
  BY <1>n, <1>2, <1>3, PrefixSets
<1> DEFINE Q == [k \in 0..n |-> Having(s, P[k])]
<1>5. ASSUME NEW k \in 1..n
      PROVE  Q[k] = PushAtom(Q[k - 1], atoms[k])
  <2>1. k \in 0..n /\ k - 1 \in 0..n
    BY <1>n
  <2>2. P[k - 1] \in Decoders(A)
    BY <1>4, <2>1 DEF T
  <2>3. PushAtom(Having(s, P[k - 1]), atoms[k]) = Having(s, PushAtom(P[k - 1], atoms[k]))
    BY <2>2, AtomHaving
  <2>4. Q[k] = Having(s, P[k]) /\ Q[k - 1] = Having(s, P[k - 1])
    BY <2>1
  <2> QED BY <1>1, <2>3, <2>4
<1>6. Q[0] = Having(s, d) /\ Q[n] = Having(s, e)
  BY <1>n, <1>1
<1> HIDE DEF Q
<1> QED BY <1>5, <1>6 DEF Runs, n

\* One list goes on where the other ends.
Extends(s, t) == Len(s) <= Len(t) /\ \A i \in 1..Len(s) : t[i] = s[i]

LEMMA ConcatExtends ==
  ASSUME NEW S, NEW s \in Seq(S), NEW t \in Seq(S)
  PROVE  Extends(s, s \o t)
  BY ConcatLaws DEF Extends

\* What was dispatched stays dispatched.
LEMMA RunsGrow ==
  ASSUME NEW A, "LF" \in A, NEW d \in Decoders(A), NEW atoms \in Seq(A), NEW e, Runs(d, atoms, e)
  PROVE  Extends(d.events, e.events)
<1>1. d = [buffer |-> d.buffer, current |-> d.current, events |-> d.events]
  BY FieldsAre
<1>2. d.buffer \in Seq(A) /\ d.current \in Pieces(A) /\ d.events \in Seq(Pieces(A))
  BY FieldsOf
<1> DEFINE f == [buffer |-> d.buffer, current |-> d.current, events |-> <<>>]
<1>3. f \in Decoders(A) /\ f.events = <<>> /\ f.buffer = d.buffer /\ f.current = d.current
  <2> DEFINE B == Seq(A)
             Ps == Pieces(A)
             E == Seq(Pieces(A))
  <2>1. d.buffer \in B /\ d.current \in Ps /\ <<>> \in E
    BY <1>2
  <2> HIDE DEF B, Ps, E
  <2>2. f \in [buffer : B, current : Ps, events : E]
    BY <2>1
  <2>3. f.events = <<>> /\ f.buffer = d.buffer /\ f.current = d.current
    OBVIOUS
  <2> QED BY <2>2, <2>3, Zenon DEF Decoders, B, Ps, E
<1>4. d = Having(d.events, f)
  <2>1. d.events \o <<>> = d.events
    BY <1>2
  <2>2. d = [buffer |-> d.buffer, current |-> d.current, events |-> d.events \o <<>>]
    BY <1>1, <2>1, Zenon
  <2> QED BY <2>2, Zenon DEF Having
<1> HIDE DEF f
<1>5. PICK g : Runs(f, atoms, g)
  BY RunsSomewhere
<1>6. Runs(d, atoms, Having(d.events, g))
  BY <1>2, <1>3, <1>4, <1>5, RunsHaving
<1>7. e = Having(d.events, g) /\ g \in Decoders(A)
  <2>1. Len(atoms) \in Nat
    OBVIOUS
  <2> QED BY <1>3, <1>5, <1>6, <2>1, RunsAlone, RunsTyped
<1>8. e.events = d.events \o g.events /\ g.events \in Seq(Pieces(A))
  BY <1>7, FieldsOf DEF Having
<1> DEFINE S == Pieces(A)
<1>9. d.events \in Seq(S) /\ g.events \in Seq(S)
  BY <1>2, <1>8
<1> HIDE DEF S
<1> QED BY <1>8, <1>9, ConcatExtends

ChunkUpTo(F, s, d, chunk) ==
  IF s = {} THEN d ELSE PushAtom(F[s \ {Max(s)}], chunk[Max(s)])

FoldOfChunk(F, d, chunk, n) == F = [s \in SUBSET (1..n) |-> ChunkUpTo(F, s, d, chunk)]

\* push_chunk goes through its atoms one after the other.
LEMMA ChunkRuns ==
  ASSUME NEW A, "LF" \in A, NEW d \in Decoders(A), NEW chunk \in Seq(A)
  PROVE  Runs(d, chunk, FoldLeft(PushAtom, d, chunk))
<1> DEFINE n == Len(chunk)
           W == Decoders(A)
           result == FoldLeft(PushAtom, d, chunk)
<1>n. n \in Nat /\ DOMAIN chunk = 1..n /\ \A k \in 1..n : chunk[k] \in A
  OBVIOUS
<1>1. result = (CHOOSE F : FoldOfChunk(F, d, chunk, n))[1..n]
  <2>1. DOMAIN chunk = 1..n
    BY <1>n
  <2> HIDE DEF n
  <2> QED BY <2>1, Zenon DEF FoldLeft, MapThenFoldSet, FoldOfChunk, ChunkUpTo
<1> HIDE DEF n, result
<1> DEFINE h == [x \in (1..n) \X W |-> PushAtom(x[2], chunk[x[1]])]
<1>2. h \in [(1..n) \X W -> W]
  <2> SUFFICES ASSUME NEW k \in 1..n, NEW v \in W PROVE PushAtom(v, chunk[k]) \in W
    OBVIOUS
  <2> QED BY <1>n, AtomTyped
<1>3. \A k \in 1..n, v \in W : h[<<k, v>>] = PushAtom(v, chunk[k])
  OBVIOUS
<1>4. d \in W
  OBVIOUS
<1> HIDE DEF h, W
<1>5. PICK G \in [SUBSET (1..n) -> W] : \A s \in SUBSET (1..n) : PrefixStep(G, s, d, h)
  BY <1>n, <1>2, <1>4, PrefixFold
<1>6. FoldOfChunk(G, d, chunk, n)
  <2>1. ASSUME NEW s \in SUBSET (1..n)
        PROVE  G[s] = ChunkUpTo(G, s, d, chunk)
    <3>1. CASE s = {}
      BY <1>5, <3>1 DEF PrefixStep, ChunkUpTo
    <3>2. CASE s # {}
      <4>1. Max(s) \in 1..n /\ s \ {Max(s)} \in SUBSET (1..n)
        BY <1>n, <3>2, MaxIn
      <4>2. G[s] = h[<<Max(s), G[s \ {Max(s)}]>>]
        BY <1>5, <3>2 DEF PrefixStep
      <4>3. G[s \ {Max(s)}] \in W
        BY <4>1
      <4> QED BY <1>3, <3>2, <4>1, <4>2, <4>3 DEF ChunkUpTo
    <3> QED BY <3>1, <3>2
  <2> QED BY <2>1 DEF FoldOfChunk
<1>7. PICK F : FoldOfChunk(F, d, chunk, n) /\ result = F[1..n]
  BY <1>1, <1>6
<1>8. \A s \in SUBSET (1..n) : F[s] = ChunkUpTo(F, s, d, chunk)
  BY <1>7 DEF FoldOfChunk
<1> DEFINE P == [k \in 0..n |-> F[1..k]]
<1>9. P[0] = d /\ P[n] = result
  <2>1. 1..0 = {} /\ {} \in SUBSET (1..n) /\ 0 \in 0..n /\ n \in 0..n
    BY <1>n
  <2>2. F[{}] = d
    BY <1>8, <2>1 DEF ChunkUpTo
  <2> QED BY <1>7, <2>1, <2>2
<1>10. ASSUME NEW k \in 1..n
       PROVE  P[k] = PushAtom(P[k - 1], chunk[k])
  <2>1. F[1..k] = PushAtom(F[1..(k - 1)], chunk[k])
    <3>1. 1..k \in SUBSET (1..n) /\ 1..k # {}
      BY <1>n, MaxPrefix
    <3>2. Max(1..k) = k /\ (1..k) \ {Max(1..k)} = 1..(k - 1)
      BY <1>n, MaxPrefix
    <3>3. F[1..k] = ChunkUpTo(F, 1..k, d, chunk)
      BY <1>8, <3>1
    <3> QED BY <3>1, <3>2, <3>3, Zenon DEF ChunkUpTo
  <2>2. k \in 0..n /\ k - 1 \in 0..n
    BY <1>n
  <2> QED BY <2>1, <2>2
<1> HIDE DEF P
<1> QED BY <1>9, <1>10 DEF Runs, n, result

-----------------------------------------------------------------------------
(* The state the events are applied to. *)

Jsons(E) == {Parsed(event.data) : event \in E}

States(E) ==
  [directive : Jsons(E) \cup {Absent}, final_amount : {json.amount : json \in Jsons(E)} \cup {Absent},
   done : BOOLEAN]

Texts(E) == {json.text : json \in Jsons(E)}

Results(E) == [state : States(E), messages : Seq(Texts(E)), ok : BOOLEAN]

\* Does apply_event take the event, and what becomes of the state.
Accepts(s, event) ==
  CASE KindOf(event) = "metering" -> Parsed(event.data).kind = "directive"
    [] KindOf(event) = "usage" ->
         Parsed(event.data).kind = "usage" /\ UsageMatches(s, Parsed(event.data))
    [] KindOf(event) = "message" -> Parsed(event.data).kind = "message"
    [] OTHER -> TRUE

Changed(s, event) ==
  CASE KindOf(event) = "metering" -> [s EXCEPT !.directive = Parsed(event.data)]
    [] KindOf(event) = "usage" -> [s EXCEPT !.final_amount = Parsed(event.data).amount]
    [] KindOf(event) = "done" -> [s EXCEPT !.done = TRUE]
    [] OTHER -> s

Heard(m, event) ==
  IF KindOf(event) = "message" THEN Append(m, Parsed(event.data).text) ELSE m

LEMMA Kinds ==
  ASSUME NEW event
  PROVE  KindOf(event) \in {"metering", "usage", "done", "message", "other"}
  BY DEF KindOf

\* What a change to one field of a result leaves.
WithState(a, x) == [a EXCEPT !.state = x]
WithMessages(a, x) == [a EXCEPT !.messages = x]
WithOk(a, x) == [a EXCEPT !.ok = x]

Result(s, m, k) == [state |-> s, messages |-> m, ok |-> k]

LEMMA ResultWith ==
  ASSUME NEW s, NEW m, NEW k, NEW x
  PROVE  /\ WithOk(Result(s, m, k), x) = Result(s, m, x)
         /\ WithMessages(Result(s, m, k), x) = Result(s, x, k)
         /\ WithState(Result(s, m, k), x) = Result(x, m, k)
         /\ Result(s, m, k).state = s /\ Result(s, m, k).messages = m /\ Result(s, m, k).ok = k
  BY DEF WithOk, WithMessages, WithState, Result

Good(s, m) == [state |-> s, messages |-> m, ok |-> TRUE]
Bad(s, m) == [state |-> s, messages |-> m, ok |-> FALSE]

LEMMA ApplyIs ==
  ASSUME NEW s, NEW m, NEW event
  PROVE  ApplyEvent(Good(s, m), event) =
           IF Accepts(s, event) THEN Good(Changed(s, event), Heard(m, event))
           ELSE Bad(s, m)
<1> DEFINE json == Parsed(event.data)
           kind == KindOf(event)
           k == TRUE
           a == Result(s, m, k)
<1>0. a.state = s /\ a.messages = m /\ a.ok
  BY DEF Result
<1>1. ApplyEvent(a, event) =
        CASE kind = "metering" ->
               IF json.kind # "directive" THEN [a EXCEPT !.ok = FALSE]
               ELSE [a EXCEPT !.state.directive = json]
          [] kind = "usage" ->
               IF json.kind # "usage" \/ ~UsageMatches(a.state, json)
               THEN [a EXCEPT !.ok = FALSE] ELSE [a EXCEPT !.state.final_amount = json.amount]
          [] kind = "message" ->
               IF json.kind # "message" THEN [a EXCEPT !.ok = FALSE]
               ELSE [a EXCEPT !.messages = Append(@, json.text)]
          [] kind = "done" -> [a EXCEPT !.state.done = TRUE]
          [] OTHER -> a
  BY <1>0, Zenon DEF ApplyEvent
<1>2. kind \in {"metering", "usage", "done", "message", "other"}
  BY Kinds
<1> HIDE DEF json, kind, k
<1>3. /\ Accepts(s, event) = CASE kind = "metering" -> json.kind = "directive"
                               [] kind = "usage" -> json.kind = "usage" /\ UsageMatches(s, json)
                               [] kind = "message" -> json.kind = "message"
                               [] OTHER -> TRUE
      /\ Changed(s, event) = CASE kind = "metering" -> [s EXCEPT !.directive = json]
                               [] kind = "usage" -> [s EXCEPT !.final_amount = json.amount]
                               [] kind = "done" -> [s EXCEPT !.done = TRUE]
                               [] OTHER -> s
      /\ Heard(m, event) = IF kind = "message" THEN Append(m, json.text) ELSE m
  BY Zenon DEF Accepts, Changed, Heard, json, kind
<1>4. /\ \A x : [a EXCEPT !.ok = x] = Result(s, m, x)
      /\ \A x : [a EXCEPT !.messages = x] = Result(s, x, k)
      /\ \A x : [a EXCEPT !.state = x] = Result(x, m, k)
  BY DEF Result
<1>e. a = Result(s, m, k)
  OBVIOUS
<1> HIDE DEF a
<1>a. [a EXCEPT !.messages = Append(@, json.text)] = Result(s, Append(m, json.text), k)
  BY <1>0, <1>4, Zenon
<1>b. [a EXCEPT !.state.directive = json] = Result([s EXCEPT !.directive = json], m, k)
  BY <1>0, <1>4, Zenon
<1>c. [a EXCEPT !.state.final_amount = json.amount]
        = Result([s EXCEPT !.final_amount = json.amount], m, k)
  BY <1>0, <1>4, Zenon
<1>d. [a EXCEPT !.state.done = TRUE] = Result([s EXCEPT !.done = TRUE], m, k)
  BY <1>0, <1>4, Zenon
<1>5. ApplyEvent(a, event) =
        IF Accepts(s, event) THEN Result(Changed(s, event), Heard(m, event), k)
        ELSE Result(s, m, FALSE)
  <2>1. CASE kind = "metering"
    BY <1>0, <1>1, <1>3, <1>4, <2>1, <1>b
  <2>2. CASE kind = "usage"
    BY <1>0, <1>1, <1>3, <1>4, <2>2, <1>c
  <2>3. CASE kind = "message"
    BY <1>0, <1>1, <1>3, <1>4, <2>3, <1>a
  <2>4. CASE kind = "done"
    BY <1>0, <1>1, <1>3, <1>4, <2>4, <1>d
  <2>5. CASE kind = "other"
    BY <1>0, <1>1, <1>3, <1>4, <2>5, <1>e
  <2> QED BY <1>2, <2>1, <2>2, <2>3, <2>4, <2>5
<1> QED BY <1>5, Zenon DEF a, k, Good, Bad, Result

LEMMA ResultIn ==
  ASSUME NEW S, NEW M
  PROVE  /\ \A a \in [state : S, messages : M, ok : BOOLEAN] :
              /\ a.state \in S /\ a.messages \in M
              /\ a = Good(a.state, a.messages) \/ a = Bad(a.state, a.messages)
         /\ \A s \in S, m \in M : /\ Good(s, m) \in [state : S, messages : M, ok : BOOLEAN]
                                 /\ Bad(s, m) \in [state : S, messages : M, ok : BOOLEAN]
<1>1. ASSUME NEW a \in [state : S, messages : M, ok : BOOLEAN]
      PROVE  /\ a.state \in S /\ a.messages \in M
             /\ a = Good(a.state, a.messages) \/ a = Bad(a.state, a.messages)
  <2>1. /\ a.state \in S /\ a.messages \in M /\ a.ok \in BOOLEAN
        /\ a = [state |-> a.state, messages |-> a.messages, ok |-> a.ok]
    OBVIOUS
  <2> QED BY <2>1 DEF Good, Bad
<1>2. ASSUME NEW s \in S, NEW m \in M
      PROVE  /\ Good(s, m) \in [state : S, messages : M, ok : BOOLEAN]
             /\ Bad(s, m) \in [state : S, messages : M, ok : BOOLEAN]
  BY DEF Good, Bad
<1> QED BY <1>1, <1>2, Zenon

LEMMA ResultsAre ==
  ASSUME NEW E, NEW a \in Results(E)
  PROVE  \E s \in States(E), m \in Seq(Texts(E)) : a = Good(s, m) \/ a = Bad(s, m)
<1> DEFINE S == States(E)
           M == Seq(Texts(E))
<1>1. a \in [state : S, messages : M, ok : BOOLEAN]
  BY Zenon DEF Results
<1> HIDE DEF S, M
<1>2. /\ a.state \in S /\ a.messages \in M
      /\ a = Good(a.state, a.messages) \/ a = Bad(a.state, a.messages)
  BY <1>1, ResultIn, Zenon
<1>3. \E s \in S, m \in M : a = Good(s, m) \/ a = Bad(s, m)
  BY <1>2, Zenon
<1> QED BY <1>3, Zenon DEF S, M

LEMMA ResultTyped ==
  ASSUME NEW E, NEW s \in States(E), NEW m \in Seq(Texts(E))
  PROVE  Good(s, m) \in Results(E) /\ Bad(s, m) \in Results(E)
  BY ResultIn, Zenon DEF Results

\* After an error the events that follow are gone.
LEMMA ApplyStops ==
  ASSUME NEW s, NEW m, NEW event
  PROVE  ApplyEvent(Bad(s, m), event) = Bad(s, m)
<1>1. ~Bad(s, m).ok
  BY DEF Bad
<1> QED BY <1>1, Zenon DEF ApplyEvent

LEMMA ChangedTyped ==
  ASSUME NEW E, NEW s \in States(E), NEW m \in Seq(Texts(E)), NEW event \in E
  PROVE  Changed(s, event) \in States(E) /\ Heard(m, event) \in Seq(Texts(E))
<1> DEFINE json == Parsed(event.data)
           D == Jsons(E) \cup {Absent}
           F == {j.amount : j \in Jsons(E)} \cup {Absent}
           B == BOOLEAN
           y == TRUE
<1>1. json \in Jsons(E)
  BY DEF Jsons
<1>2. json \in D /\ json.amount \in F /\ json.text \in Texts(E) /\ y \in B
  BY <1>1 DEF Texts
<1>3. States(E) = [directive : D, final_amount : F, done : B]
  BY DEF States
<1>4. Heard(m, event) \in Seq(Texts(E))
  BY <1>2 DEF Heard
<1> HIDE DEF json, D, F, B, y
<1>5. [s EXCEPT !.directive = json] \in States(E)
  BY <1>2, <1>3
<1>6. [s EXCEPT !.final_amount = json.amount] \in States(E)
  BY <1>2, <1>3
<1>7. [s EXCEPT !.done = y] \in States(E)
  BY <1>2, <1>3
<1> QED BY <1>4, <1>5, <1>6, <1>7, Zenon DEF Changed, json, y

LEMMA ApplyTyped ==
  ASSUME NEW E, NEW a \in Results(E), NEW event \in E
  PROVE  ApplyEvent(a, event) \in Results(E)
<1>1. PICK s \in States(E), m \in Seq(Texts(E)) :
        a = Good(s, m) \/ a = Bad(s, m)
  BY ResultsAre
<1>2. CASE a = Good(s, m)
  <2>1. \/ ApplyEvent(a, event) = Good(Changed(s, event), Heard(m, event))
        \/ ApplyEvent(a, event) = Bad(s, m)
    BY <1>2, ApplyIs, Zenon
  <2>2. Changed(s, event) \in States(E) /\ Heard(m, event) \in Seq(Texts(E))
    BY ChangedTyped
  <2> QED BY <2>1, <2>2, ResultTyped, Zenon
<1>3. CASE a = Bad(s, m)
  BY <1>3, ApplyStops, ResultTyped, Zenon
<1> QED BY <1>1, <1>2, <1>3

\* What was said before stays in front of what is heard.
After(m, a) == [a EXCEPT !.messages = m \o @]

LEMMA AfterResult ==
  ASSUME NEW m, NEW s, NEW n, NEW k
  PROVE  After(m, Result(s, n, k)) = Result(s, m \o n, k)
<1>1. After(m, Result(s, n, k)) = WithMessages(Result(s, n, k), m \o Result(s, n, k).messages)
  BY Zenon DEF After, WithMessages
<1>2. Result(s, n, k).messages = n
  BY DEF Result
<1>3. \A x : WithMessages(Result(s, n, k), x) = Result(s, x, k)
  BY DEF WithMessages, Result
<1> QED BY <1>1, <1>2, <1>3, Zenon

LEMMA AfterIs ==
  ASSUME NEW m, NEW s, NEW n
  PROVE  After(m, Good(s, n)) = Good(s, m \o n) /\ After(m, Bad(s, n)) = Bad(s, m \o n)
<1>1. PICK k : Good(s, n) = Result(s, n, k) /\ Good(s, m \o n) = Result(s, m \o n, k)
  BY DEF Good, Result
<1>2. PICK l : Bad(s, n) = Result(s, n, l) /\ Bad(s, m \o n) = Result(s, m \o n, l)
  BY DEF Bad, Result
<1>3. /\ After(m, Result(s, n, k)) = Result(s, m \o n, k)
      /\ After(m, Result(s, n, l)) = Result(s, m \o n, l)
  BY AfterResult
<1> QED BY <1>1, <1>2, <1>3, Zenon

LEMMA ApplyAfter ==
  ASSUME NEW E, NEW a \in Results(E), NEW event \in E, NEW m \in Seq(Texts(E))
  PROVE  ApplyEvent(After(m, a), event) = After(m, ApplyEvent(a, event))
<1>1. PICK s \in States(E), n \in Seq(Texts(E)) :
        a = Good(s, n) \/ a = Bad(s, n)
  BY ResultsAre
<1>2. CASE a = Good(s, n)
  <2>1. Heard(m \o n, event) = m \o Heard(n, event)
    BY DEF Heard
  <2>2. After(m, a) = Good(s, m \o n)
    BY <1>2, AfterIs, Zenon
  <2>3. CASE Accepts(s, event)
    <3>1. ApplyEvent(a, event) = Good(Changed(s, event), Heard(n, event))
      BY <1>2, <2>3, ApplyIs, Zenon
    <3>2. ApplyEvent(After(m, a), event) = Good(Changed(s, event), m \o Heard(n, event))
      BY <2>1, <2>2, <2>3, ApplyIs, Zenon
    <3> QED BY <3>1, <3>2, AfterIs, Zenon
  <2>4. CASE ~Accepts(s, event)
    <3>1. ApplyEvent(a, event) = Bad(s, n)
      BY <1>2, <2>4, ApplyIs, Zenon
    <3>2. ApplyEvent(After(m, a), event) = Bad(s, m \o n)
      BY <2>2, <2>4, ApplyIs, Zenon
    <3> QED BY <3>1, <3>2, AfterIs, Zenon
  <2> QED BY <2>3, <2>4
<1>3. CASE a = Bad(s, n)
  <2>1. After(m, a) = Bad(s, m \o n) /\ ApplyEvent(a, event) = Bad(s, n)
    BY <1>3, AfterIs, ApplyStops, Zenon
  <2>2. ApplyEvent(Bad(s, m \o n), event) = Bad(s, m \o n)
    BY ApplyStops, Zenon
  <2> QED BY <1>3, <2>1, <2>2, Zenon
<1> QED BY <1>1, <1>2, <1>3

LEMMA AppliesSomewhere ==
  ASSUME NEW E, NEW events \in Seq(E), NEW a
  PROVE  \E b : Applies(a, events, b)
<1> DEFINE n == Len(events)
           Way(P, m) == P[0] = a /\ \A k \in 1..m : P[k] = ApplyEvent(P[k - 1], events[k])
           T == {m \in Nat : \E P : Way(P, m)}
<1>n. n \in Nat
  OBVIOUS
<1>1. 0 \in T
  <2> DEFINE P == [k \in 0..0 |-> a]
  <2>1. P[0] = a /\ \A k \in 1..0 : FALSE
    OBVIOUS
  <2> HIDE DEF P
  <2>2. Way(P, 0)
    BY <2>1
  <2> QED BY <2>2
<1>2. ASSUME NEW m \in Nat, m \in T
      PROVE  m + 1 \in T
  <2>1. PICK P : Way(P, m)
    BY <1>2
  <2> DEFINE Q == [k \in 0..(m + 1) |-> IF k = m + 1 THEN ApplyEvent(P[m], events[m + 1]) ELSE P[k]]
  <2>2. /\ Q[m + 1] = ApplyEvent(P[m], events[m + 1])
        /\ \A k \in 0..m : Q[k] = P[k]
    OBVIOUS
  <2> HIDE DEF Q
  <2>3. ASSUME NEW k \in 1..(m + 1)
        PROVE  Q[k] = ApplyEvent(Q[k - 1], events[k])
    <3>1. k - 1 \in 0..m /\ Q[k - 1] = P[k - 1]
      BY <2>2
    <3>2. CASE k = m + 1
      <4>1. k - 1 = m
        BY <3>2
      <4> QED BY <2>2, <3>1, <3>2, <4>1
    <3>3. CASE k # m + 1
      <4>1. k \in 1..m /\ k \in 0..m
        BY <3>3
      <4> QED BY <2>1, <2>2, <3>1, <4>1
    <3> QED BY <3>2, <3>3
  <2>4. Q[0] = a
    BY <2>1, <2>2
  <2>5. Way(Q, m + 1)
    BY <2>3, <2>4
  <2> QED BY <2>5
<1> HIDE DEF T
<1>3. n \in T
  BY <1>n, <1>1, <1>2, NatSets
<1>4. PICK P : Way(P, n)
  BY <1>3 DEF T
<1>5. Applies(a, events, P[n])
  BY <1>4 DEF Applies
<1> QED BY <1>5

LEMMA AppliesTyped ==
  ASSUME NEW E, NEW a \in Results(E), NEW events \in Seq(E), NEW b, Applies(a, events, b)
  PROVE  b \in Results(E)
<1> DEFINE n == Len(events)
<1>n. n \in Nat /\ \A k \in 1..n : events[k] \in E
  OBVIOUS
<1>1. PICK P : /\ P[0] = a /\ P[n] = b
               /\ \A k \in 1..n : P[k] = ApplyEvent(P[k - 1], events[k])
  BY DEF Applies
<1> HIDE DEF n
<1> DEFINE T == {k \in Nat : P[k] \in Results(E)}
<1>2. 0 \in T
  BY <1>1
<1>3. ASSUME NEW k \in 1..n, k - 1 \in T
      PROVE  k \in T
  <2>1. ApplyEvent(P[k - 1], events[k]) \in Results(E)
    BY <1>n, <1>3, ApplyTyped
  <2> QED BY <1>1, <2>1
<1> HIDE DEF T
<1>4. \A k \in 0..n : k \in T
  BY <1>n, <1>2, <1>3, PrefixSets
<1>5. n \in T
  BY <1>n, <1>4
<1> QED BY <1>1, <1>5 DEF T

LEMMA AppliesAfter ==
  ASSUME NEW E, NEW a \in Results(E), NEW m \in Seq(Texts(E)), NEW events \in Seq(E),
         NEW b, Applies(a, events, b)
  PROVE  Applies(After(m, a), events, After(m, b))
<1> DEFINE n == Len(events)
<1>n. n \in Nat /\ \A k \in 1..n : events[k] \in E
  OBVIOUS
<1>1. PICK P : /\ P[0] = a /\ P[n] = b
               /\ \A k \in 1..n : P[k] = ApplyEvent(P[k - 1], events[k])
  BY DEF Applies
<1> HIDE DEF n
<1> DEFINE T == {k \in Nat : P[k] \in Results(E)}
<1>2. 0 \in T
  BY <1>1
<1>3. ASSUME NEW k \in 1..n, k - 1 \in T
      PROVE  k \in T
  <2>1. ApplyEvent(P[k - 1], events[k]) \in Results(E)
    BY <1>n, <1>3, ApplyTyped
  <2> QED BY <1>1, <2>1
<1> HIDE DEF T
<1>4. \A k \in 0..n : k \in T
  BY <1>n, <1>2, <1>3, PrefixSets
<1> DEFINE Q == [k \in 0..n |-> After(m, P[k])]
<1>5. ASSUME NEW k \in 1..n
      PROVE  Q[k] = ApplyEvent(Q[k - 1], events[k])
  <2>1. k \in 0..n /\ k - 1 \in 0..n
    BY <1>n
  <2>2. P[k - 1] \in Results(E)
    BY <1>4, <2>1 DEF T
  <2>3. ApplyEvent(After(m, P[k - 1]), events[k]) = After(m, ApplyEvent(P[k - 1], events[k]))
    BY <1>n, <2>2, ApplyAfter
  <2>4. Q[k] = After(m, P[k]) /\ Q[k - 1] = After(m, P[k - 1])
    BY <2>1
  <2> QED BY <1>1, <2>3, <2>4
<1>6. Q[0] = After(m, a) /\ Q[n] = After(m, b)
  BY <1>n, <1>1
<1> HIDE DEF Q
<1> QED BY <1>5, <1>6 DEF Applies, n

ApplyUpTo(F, s, a, events) ==
  IF s = {} THEN a ELSE ApplyEvent(F[s \ {Max(s)}], events[Max(s)])

FoldOfEvents(F, a, events, n) == F = [s \in SUBSET (1..n) |-> ApplyUpTo(F, s, a, events)]

\* A chunk's events are applied one after the other.
LEMMA EventsApply ==
  ASSUME NEW E, NEW a \in Results(E), NEW events \in Seq(E)
  PROVE  Applies(a, events, FoldLeft(ApplyEvent, a, events))
<1> DEFINE n == Len(events)
           W == Results(E)
           result == FoldLeft(ApplyEvent, a, events)
<1>n. n \in Nat /\ DOMAIN events = 1..n /\ \A k \in 1..n : events[k] \in E
  OBVIOUS
<1>1. result = (CHOOSE F : FoldOfEvents(F, a, events, n))[1..n]
  <2>1. DOMAIN events = 1..n
    BY <1>n
  <2> HIDE DEF n
  <2> QED BY <2>1, Zenon DEF FoldLeft, MapThenFoldSet, FoldOfEvents, ApplyUpTo
<1> HIDE DEF n, result
<1> DEFINE h == [x \in (1..n) \X W |-> ApplyEvent(x[2], events[x[1]])]
<1>2. h \in [(1..n) \X W -> W]
  <2> SUFFICES ASSUME NEW k \in 1..n, NEW v \in W PROVE ApplyEvent(v, events[k]) \in W
    OBVIOUS
  <2> QED BY <1>n, ApplyTyped
<1>3. \A k \in 1..n, v \in W : h[<<k, v>>] = ApplyEvent(v, events[k])
  OBVIOUS
<1>4. a \in W
  OBVIOUS
<1> HIDE DEF h, W
<1>5. PICK G \in [SUBSET (1..n) -> W] : \A s \in SUBSET (1..n) : PrefixStep(G, s, a, h)
  BY <1>n, <1>2, <1>4, PrefixFold
<1>6. FoldOfEvents(G, a, events, n)
  <2>1. ASSUME NEW s \in SUBSET (1..n)
        PROVE  G[s] = ApplyUpTo(G, s, a, events)
    <3>1. CASE s = {}
      BY <1>5, <3>1 DEF PrefixStep, ApplyUpTo
    <3>2. CASE s # {}
      <4>1. Max(s) \in 1..n /\ s \ {Max(s)} \in SUBSET (1..n)
        BY <1>n, <3>2, MaxIn
      <4>2. G[s] = h[<<Max(s), G[s \ {Max(s)}]>>]
        BY <1>5, <3>2 DEF PrefixStep
      <4>3. G[s \ {Max(s)}] \in W
        BY <4>1
      <4> QED BY <1>3, <3>2, <4>1, <4>2, <4>3 DEF ApplyUpTo
    <3> QED BY <3>1, <3>2
  <2> QED BY <2>1 DEF FoldOfEvents
<1>7. PICK F : FoldOfEvents(F, a, events, n) /\ result = F[1..n]
  BY <1>1, <1>6
<1>8. \A s \in SUBSET (1..n) : F[s] = ApplyUpTo(F, s, a, events)
  BY <1>7 DEF FoldOfEvents
<1> DEFINE P == [k \in 0..n |-> F[1..k]]
<1>9. P[0] = a /\ P[n] = result
  <2>1. 1..0 = {} /\ {} \in SUBSET (1..n) /\ 0 \in 0..n /\ n \in 0..n
    BY <1>n
  <2>2. F[{}] = a
    BY <1>8, <2>1 DEF ApplyUpTo
  <2> QED BY <1>7, <2>1, <2>2
<1>10. ASSUME NEW k \in 1..n
       PROVE  P[k] = ApplyEvent(P[k - 1], events[k])
  <2>1. F[1..k] = ApplyEvent(F[1..(k - 1)], events[k])
    <3>1. 1..k \in SUBSET (1..n) /\ 1..k # {}
      BY <1>n, MaxPrefix
    <3>2. Max(1..k) = k /\ (1..k) \ {Max(1..k)} = 1..(k - 1)
      BY <1>n, MaxPrefix
    <3>3. F[1..k] = ApplyUpTo(F, 1..k, a, events)
      BY <1>8, <3>1
    <3> QED BY <3>1, <3>2, <3>3, Zenon DEF ApplyUpTo
  <2>2. k \in 0..n /\ k - 1 \in 0..n
    BY <1>n
  <2> QED BY <2>1, <2>2
<1> HIDE DEF P
<1> QED BY <1>9, <1>10 DEF Applies, n, result

-----------------------------------------------------------------------------
(* What the decoder makes of a line. *)

LEMMA WithTwice ==
  ASSUME NEW A, NEW d \in Decoders(A), NEW x, NEW y
  PROVE  /\ WithBuffer(WithBuffer(d, x), y) = WithBuffer(d, y)
         /\ WithBuffer(d, x).buffer = x /\ WithBuffer(d, x).current = d.current
         /\ WithBuffer(d, x).events = d.events
         /\ WithBuffer(d, d.buffer) = d
         /\ WithCurrent(WithBuffer(d, x), y) = WithBuffer(WithCurrent(d, y), x)
         /\ WithCurrent(d, y).buffer = d.buffer
<1>1. PICK b, c, v : d = [buffer |-> b, current |-> c, events |-> v]
  BY FieldsAre, Zenon
<1>2. /\ \A z : WithBuffer(d, z) = [buffer |-> z, current |-> c, events |-> v]
      /\ \A z : WithCurrent(d, z) = [buffer |-> b, current |-> z, events |-> v]
      /\ d.buffer = b /\ d.current = c /\ d.events = v
  BY <1>1, WithIs
<1>3. /\ \A z : WithBuffer(WithBuffer(d, x), z) = [buffer |-> z, current |-> c, events |-> v]
      /\ \A z : WithCurrent(WithBuffer(d, x), z) = [buffer |-> x, current |-> z, events |-> v]
      /\ \A z : WithBuffer(WithCurrent(d, y), z) = [buffer |-> z, current |-> y, events |-> v]
  BY <1>2, WithIs
<1> HIDE <1>1
<1>4. WithBuffer(d, d.buffer) = d
  BY <1>1, <1>2
<1>5. /\ WithBuffer(d, x).buffer = x /\ WithBuffer(d, x).current = d.current
      /\ WithBuffer(d, x).events = d.events /\ WithCurrent(d, y).buffer = d.buffer
  BY <1>2
<1> QED BY <1>2, <1>3, <1>4, <1>5

LEMMA LineKeepsBuffer ==
  ASSUME NEW A, "LF" \in A, NEW d \in Decoders(A), NEW line, NEW x \in Seq(A)
  PROVE  /\ ProcessLine(WithBuffer(d, x), line) = WithBuffer(ProcessLine(d, line), x)
         /\ ProcessLine(d, line).buffer = d.buffer
<1>1. WithBuffer(d, x) \in Decoders(A)
  BY FieldsWith, Zenon DEF WithBuffer
<1>2. CASE line # <<>>
  <2>1. WithBuffer(d, x).current = d.current
    BY WithTwice
  <2>2. /\ ProcessLine(d, line) = WithCurrent(d, Taken(d.current, line))
        /\ ProcessLine(WithBuffer(d, x), line)
             = WithCurrent(WithBuffer(d, x), Taken(d.current, line))
    BY <1>1, <1>2, <2>1, LineIs
  <2> QED BY <2>2, WithTwice
<1>3. CASE line = <<>>
  <2>1. PICK b, c, v : d = [buffer |-> b, current |-> c, events |-> v]
    BY FieldsAre, Zenon
  <2>2. WithBuffer(d, x) = [buffer |-> x, current |-> c, events |-> v]
    BY <2>1, WithIs
  <2>3. /\ d.buffer = b /\ d.current = c /\ d.events = v
        /\ WithBuffer(d, x).current = c /\ WithBuffer(d, x).events = v
    BY <2>1, <2>2
  <2>4. CASE c = NoEvent
    <3>1. Dispatch(d) = d /\ Dispatch(WithBuffer(d, x)) = WithBuffer(d, x)
      BY <2>3, <2>4, Zenon DEF Dispatch
    <3> QED BY <1>3, <3>1, Zenon DEF ProcessLine
  <2>5. CASE c # NoEvent
    <3>1. /\ Dispatch(d) = [d EXCEPT !.current = NoEvent, !.events = Append(v, c)]
          /\ Dispatch(WithBuffer(d, x))
               = [WithBuffer(d, x) EXCEPT !.current = NoEvent, !.events = Append(v, c)]
      BY <2>3, <2>5, Zenon DEF Dispatch
    <3>2. Dispatch(d) = [buffer |-> b, current |-> NoEvent, events |-> Append(v, c)]
      <4>1. /\ Dispatch(d).buffer = b /\ Dispatch(d).current = NoEvent
            /\ Dispatch(d).events = Append(v, c)
        BY <2>1, <3>1
      <4>2. Dispatch(d) = [buffer |-> Dispatch(d).buffer, current |-> Dispatch(d).current,
                           events |-> Dispatch(d).events]
        BY DispatchTyped, FieldsAre
      <4> QED BY <4>1, <4>2, Zenon
    <3>3. Dispatch(WithBuffer(d, x)) = [buffer |-> x, current |-> NoEvent, events |-> Append(v, c)]
      <4> DEFINE e == Dispatch(WithBuffer(d, x))
      <4>1. e.buffer = x /\ e.current = NoEvent /\ e.events = Append(v, c)
        <5>1. PICK w : /\ w = [buffer |-> x, current |-> c, events |-> v]
                       /\ e = [w EXCEPT !.current = NoEvent, !.events = Append(v, c)]
          BY <2>2, <3>1, Zenon
        <5> HIDE DEF e
        <5> QED BY <5>1
      <4>2. e \in Decoders(A)
        BY <1>1, DispatchTyped
      <4> HIDE DEF e
      <4>3. e = [buffer |-> e.buffer, current |-> e.current, events |-> e.events]
        BY <4>2, FieldsAre
      <4> QED BY <4>1, <4>3, Zenon DEF e
    <3>4. WithBuffer(Dispatch(d), x) = [buffer |-> x, current |-> NoEvent, events |-> Append(v, c)]
      BY <3>2, WithIs
    <3>5. Dispatch(d).buffer = b
      BY <3>2
    <3> QED BY <1>3, <2>3, <3>3, <3>4, <3>5, Zenon DEF ProcessLine
  <2> QED BY <2>4, <2>5
<1> QED BY <1>2, <1>3

\* Atoms pile up until a line feed.
LEMMA TextRuns ==
  ASSUME NEW A, "LF" \in A, NEW d \in Decoders(A), NEW text \in Seq(A),
         \A k \in 1..Len(text) : text[k] # "LF"
  PROVE  Runs(d, text, WithBuffer(d, d.buffer \o text))
<1> DEFINE n == Len(text)
           P == [k \in 0..n |-> WithBuffer(d, d.buffer \o SubSeq(text, 1, k))]
<1>n. n \in Nat /\ d.buffer \in Seq(A)
  BY FieldsOf
<1>1. P[0] = d
  <2>1. SubSeq(text, 1, 0) = <<>> /\ d.buffer \o <<>> = d.buffer
    BY <1>n
  <2>2. P[0] = WithBuffer(d, d.buffer \o SubSeq(text, 1, 0))
    BY <1>n
  <2> QED BY <2>1, <2>2, WithTwice
<1>2. P[n] = WithBuffer(d, d.buffer \o text)
  <2>1. SubSeq(text, 1, n) = text
    OBVIOUS
  <2>2. P[n] = WithBuffer(d, d.buffer \o SubSeq(text, 1, n))
    BY <1>n
  <2> QED BY <2>1, <2>2, Zenon
<1>3. ASSUME NEW k \in 1..n
      PROVE  P[k] = PushAtom(P[k - 1], text[k])
  <2> DEFINE b == d.buffer \o SubSeq(text, 1, k - 1)
  <2>1. d.buffer \o SubSeq(text, 1, k) = Append(b, text[k])
    <3>1. SubSeq(text, 1, k) = Append(SubSeq(text, 1, k - 1), text[k])
      BY <1>n
    <3>2. SubSeq(text, 1, k - 1) \in Seq(A) /\ text[k] \in A
      BY <1>n
    <3>3. \A s, t \in Seq(A), x \in A : s \o Append(t, x) = Append(s \o t, x)
      OBVIOUS
    <3>4. d.buffer \o Append(SubSeq(text, 1, k - 1), text[k])
            = Append(d.buffer \o SubSeq(text, 1, k - 1), text[k])
      BY <1>n, <3>2, <3>3, Zenon
    <3> QED BY <3>1, <3>4, Zenon
  <2>2. P[k] = WithBuffer(d, Append(b, text[k])) /\ P[k - 1] = WithBuffer(d, b)
    <3>1. k \in 0..n /\ k - 1 \in 0..n
      BY <1>n
    <3> QED BY <2>1, <3>1
  <2> HIDE DEF b, P
  <2>3. PushAtom(WithBuffer(d, b), text[k])
          = WithBuffer(WithBuffer(d, b), Append(WithBuffer(d, b).buffer, text[k]))
    BY Zenon DEF PushAtom, WithBuffer
  <2> QED BY <2>2, <2>3, WithTwice
<1> HIDE DEF P
<1> QED BY <1>1, <1>2, <1>3 DEF Runs

IsLineEnd(eol) == eol \in {<<"LF">>, <<"CR", "LF">>}

\* A line is taken whole, whichever way it ends.
LEMMA LineRuns ==
  ASSUME NEW A, "LF" \in A, "CR" \in A, NEW d \in Decoders(A), d.buffer = <<>>,
         NEW line \in Seq(A), \A k \in 1..Len(line) : line[k] \notin {"CR", "LF"},
         NEW eol, IsLineEnd(eol)
  PROVE  /\ Runs(d, line \o eol, ProcessLine(d, line))
         /\ ProcessLine(d, line) \in Decoders(A) /\ ProcessLine(d, line).buffer = <<>>
         /\ line \o eol \in Seq(A)
<1>1. ProcessLine(d, line) \in Decoders(A) /\ ProcessLine(d, line).buffer = <<>>
  BY LineTyped, LineKeepsBuffer
<1>2. ASSUME NEW text \in Seq(A), \A k \in 1..Len(text) : text[k] # "LF", Chop(text) = line
      PROVE  Runs(d, Append(text, "LF"), ProcessLine(d, line))
  <2> DEFINE b == WithBuffer(d, text)
  <2>1. Runs(d, text, b)
    <3>1. d.buffer \o text = text
      OBVIOUS
    <3> QED BY <1>2, <3>1, TextRuns
  <2>2. Runs(d, Append(text, "LF"), PushAtom(b, "LF"))
    BY <2>1, RunsOn1
  <2>3. b.buffer = text
    BY WithTwice
  <2>4. PushAtom(b, "LF") = WithBuffer(ProcessLine(b, line), <<>>)
    BY <1>2, <2>3, Zenon DEF PushAtom, WithBuffer
  <2>5. ProcessLine(b, line) = WithBuffer(ProcessLine(d, line), text)
    BY LineKeepsBuffer
  <2>6. WithBuffer(ProcessLine(b, line), <<>>) = ProcessLine(d, line)
    BY <1>1, <2>5, WithTwice
  <2> QED BY <2>2, <2>4, <2>6
<1>3. CASE eol = <<"LF">>
  <2>1. Chop(line) = line
    <3>1. CASE line = <<>>
      BY <3>1 DEF Chop
    <3>2. CASE line # <<>>
      <4>1. Len(line) \in 1..Len(line)
        BY <3>2
      <4> QED BY <3>2, <4>1 DEF Chop, Last
    <3> QED BY <3>1, <3>2
  <2>2. line \o eol = Append(line, "LF") /\ Append(line, "LF") \in Seq(A)
    BY <1>3
  <2>3. Runs(d, Append(line, "LF"), ProcessLine(d, line))
    BY <1>2, <2>1
  <2> QED BY <1>1, <2>2, <2>3
<1>4. CASE eol = <<"CR", "LF">>
  <2> DEFINE text == Append(line, "CR")
  <2>1. /\ text \in Seq(A) /\ Len(text) = Len(line) + 1
        /\ \A k \in 1..Len(line) : text[k] = line[k]
        /\ text[Len(line) + 1] = "CR"
        /\ SubSeq(text, 1, Len(line)) = line
    OBVIOUS
  <2>2. line \o eol = Append(text, "LF") /\ Append(text, "LF") \in Seq(A)
    BY <1>4
  <2> HIDE DEF text
  <2>3. \A k \in 1..Len(text) : text[k] # "LF"
    BY <2>1
  <2>4. Chop(text) = line
    <3>1. text # <<>> /\ text[Len(text)] = "CR" /\ Len(text) - 1 = Len(line)
      BY <2>1
    <3> QED BY <2>1, <3>1 DEF Chop, Last, Front
  <2>5. Runs(d, Append(text, "LF"), ProcessLine(d, line))
    BY <1>2, <2>1, <2>3, <2>4
  <2> QED BY <1>1, <2>2, <2>5
<1> QED BY <1>3, <1>4 DEF IsLineEnd

-----------------------------------------------------------------------------
(* What the server writes, piece by piece. *)

FlattenIs(F, seqs) ==
  F = [i \in 1..Len(seqs) |-> IF i = 1 THEN seqs[i] ELSE F[i - 1] \o seqs[i]]

\* The pieces of a flattened sequence come one after the other.
Joins(P, seqs, n) == P[0] = <<>> /\ \A k \in 1..n : P[k] = P[k - 1] \o seqs[k]

LEMMA JoinsSomewhere ==
  ASSUME NEW seqs, NEW n \in Nat
  PROVE  \E P : Joins(P, seqs, n)
<1> DEFINE T == {m \in Nat : \E P : Joins(P, seqs, m)}
<1>1. 0 \in T
  <2> DEFINE P == [k \in 0..0 |-> <<>>]
  <2>1. P[0] = <<>> /\ \A k \in 1..0 : FALSE
    OBVIOUS
  <2> HIDE DEF P
  <2>2. Joins(P, seqs, 0)
    BY <2>1 DEF Joins
  <2> QED BY <2>2
<1>2. ASSUME NEW m \in Nat, m \in T
      PROVE  m + 1 \in T
  <2>1. PICK P : Joins(P, seqs, m)
    BY <1>2
  <2> DEFINE Q == [k \in 0..(m + 1) |-> IF k = m + 1 THEN P[m] \o seqs[m + 1] ELSE P[k]]
  <2>2. /\ Q[m + 1] = P[m] \o seqs[m + 1]
        /\ \A k \in 0..m : Q[k] = P[k]
    OBVIOUS
  <2> HIDE DEF Q
  <2>3. ASSUME NEW k \in 1..(m + 1)
        PROVE  Q[k] = Q[k - 1] \o seqs[k]
    <3>1. k - 1 \in 0..m /\ Q[k - 1] = P[k - 1]
      BY <2>2
    <3>2. CASE k = m + 1
      <4>1. k - 1 = m
        BY <3>2
      <4> QED BY <2>2, <3>1, <3>2, <4>1
    <3>3. CASE k # m + 1
      <4>1. k \in 1..m /\ k \in 0..m
        BY <3>3
      <4> QED BY <2>1, <2>2, <3>1, <4>1 DEF Joins
    <3> QED BY <3>2, <3>3
  <2>4. Q[0] = <<>>
    BY <2>1, <2>2 DEF Joins
  <2>5. Joins(Q, seqs, m + 1)
    BY <2>3, <2>4 DEF Joins
  <2> QED BY <2>5
<1> HIDE DEF T
<1>3. n \in T
  BY <1>1, <1>2, NatSets
<1> QED BY <1>3 DEF T

LEMMA JoinsTyped ==
  ASSUME NEW A, NEW seqs, NEW n \in Nat, \A k \in 1..n : seqs[k] \in Seq(A),
         NEW P, Joins(P, seqs, n)
  PROVE  \A k \in 0..n : P[k] \in Seq(A)
<1> DEFINE T == {k \in Nat : P[k] \in Seq(A)}
<1>1. 0 \in T
  <2>1. P[0] = <<>> /\ <<>> \in Seq(A)
    BY DEF Joins
  <2> QED BY <2>1
<1>2. ASSUME NEW k \in 1..n, k - 1 \in T
      PROVE  k \in T
  <2>1. P[k] = P[k - 1] \o seqs[k] /\ P[k - 1] \in Seq(A) /\ seqs[k] \in Seq(A)
    BY <1>2 DEF Joins
  <2>2. \A s, t \in Seq(A) : s \o t \in Seq(A)
    OBVIOUS
  <2>3. P[k] \in Seq(A) /\ k \in Nat
    BY <2>1, <2>2
  <2> QED BY <2>3
<1> HIDE DEF T
<1>3. \A k \in 0..n : k \in T
  BY <1>1, <1>2, PrefixSets
<1> QED BY <1>3 DEF T

LEMMA FlattenJoins ==
  ASSUME NEW A, NEW seqs, NEW n \in Nat, n = Len(seqs), n = 0 => seqs = <<>>,
         \A k \in 1..n : seqs[k] \in Seq(A)
  PROVE  \E P : Joins(P, seqs, n) /\ P[n] = FlattenSeq(seqs)
<1>1. CASE n = 0
  <2>1. PICK P : Joins(P, seqs, n)
    BY JoinsSomewhere
  <2>2. FlattenSeq(seqs) = <<>>
    BY <1>1 DEF FlattenSeq
  <2> QED BY <1>1, <2>1, <2>2 DEF Joins
<1>2. CASE n # 0
  <2>1. FlattenSeq(seqs) = (CHOOSE F : FlattenIs(F, seqs))[n]
    BY <1>2, Zenon DEF FlattenSeq, FlattenIs
  <2>2. PICK P : Joins(P, seqs, n)
    BY JoinsSomewhere
  <2> DEFINE G == [i \in 1..n |-> P[i]]
  <2>3. FlattenIs(G, seqs)
    <3>1. ASSUME NEW i \in 1..n
          PROVE  P[i] = IF i = 1 THEN seqs[i] ELSE G[i - 1] \o seqs[i]
      <4>1. P[i] = P[i - 1] \o seqs[i]
        BY <2>2 DEF Joins
      <4>2. CASE i = 1
        <5>1. P[i - 1] = <<>> /\ seqs[i] \in Seq(A)
          BY <2>2, <4>2 DEF Joins
        <5>2. <<>> \o seqs[i] = seqs[i]
          BY <5>1
        <5> QED BY <4>1, <4>2, <5>1, <5>2
      <4>3. CASE i # 1
        <5>1. i - 1 \in 1..n
          BY <4>3
        <5>2. G[i - 1] = P[i - 1]
          BY <5>1
        <5> QED BY <4>1, <4>3, <5>2, Zenon
      <4> QED BY <4>2, <4>3
    <3>2. G = [i \in 1..n |-> IF i = 1 THEN seqs[i] ELSE G[i - 1] \o seqs[i]]
      BY <3>1, Zenon
    <3> HIDE DEF G
    <3> QED BY <3>2, Zenon DEF FlattenIs
  <2> HIDE DEF G
  <2>4. PICK F : FlattenIs(F, seqs) /\ FlattenSeq(seqs) = F[n]
    BY <2>1, <2>3, Zenon
  <2>5. \A i \in 1..n : F[i] = IF i = 1 THEN seqs[i] ELSE F[i - 1] \o seqs[i]
    BY <2>4 DEF FlattenIs
  <2> DEFINE Q == [k \in 0..n |-> IF k = 0 THEN <<>> ELSE F[k]]
  <2>6. Q[0] = <<>> /\ Q[n] = F[n]
    BY <1>2
  <2>7. ASSUME NEW k \in 1..n
        PROVE  Q[k] = Q[k - 1] \o seqs[k]
    <3>1. Q[k] = F[k]
      OBVIOUS
    <3>2. CASE k = 1
      <4>1. Q[k - 1] = <<>> /\ F[k] = seqs[k]
        BY <2>5, <3>2
      <4>2. <<>> \o seqs[k] = seqs[k]
        OBVIOUS
      <4> QED BY <3>1, <4>1, <4>2
    <3>3. CASE k # 1
      <4>1. Q[k - 1] = F[k - 1]
        BY <3>3
      <4>2. F[k] = F[k - 1] \o seqs[k]
        BY <2>5, <3>3
      <4> QED BY <3>1, <4>1, <4>2
    <3> QED BY <3>2, <3>3
  <2> HIDE DEF Q
  <2>8. Joins(Q, seqs, n)
    BY <2>6, <2>7 DEF Joins
  <2> QED BY <2>4, <2>6, <2>8
<1> QED BY <1>1, <1>2

-----------------------------------------------------------------------------
(* Data and messages, collected one after the other. *)

Collects(P, lines, n) ==
  P[0] = <<>> /\ \A k \in 1..n : P[k] = AppendData(P[k - 1], lines[k])

CollectUpTo(F, s, lines) ==
  IF s = {} THEN <<>> ELSE AppendData(F[s \ {Max(s)}], lines[Max(s)])

FoldOfLines(F, lines, n) == F = [s \in SUBSET (1..n) |-> CollectUpTo(F, s, lines)]

LEMMA JoinedCollects ==
  ASSUME NEW A, "LF" \in A, NEW e, NEW lines \in Seq(Seq(A)), lines = e.lines
  PROVE  \E P : Collects(P, lines, Len(lines)) /\ P[Len(lines)] = Joined(e)
<1> DEFINE n == Len(lines)
           W == Seq(A)
           result == Joined(e)
<1>n. n \in Nat /\ DOMAIN lines = 1..n /\ \A k \in 1..n : lines[k] \in Seq(A)
  OBVIOUS
<1>1. result = (CHOOSE F : FoldOfLines(F, lines, n))[1..n]
  <2>1. DOMAIN lines = 1..n
    BY <1>n
  <2> HIDE DEF n
  <2> QED BY <2>1, Zenon DEF Joined, AppendData, FoldLeft, MapThenFoldSet, FoldOfLines, CollectUpTo
<1> HIDE DEF n, result
<1> DEFINE h == [x \in (1..n) \X W |-> AppendData(x[2], lines[x[1]])]
<1>2. h \in [(1..n) \X W -> W]
  <2> SUFFICES ASSUME NEW k \in 1..n, NEW v \in W PROVE AppendData(v, lines[k]) \in W
    OBVIOUS
  <2>1. <<"LF">> \in Seq(A)
    OBVIOUS
  <2>2. \A x, y, z \in Seq(A) : x \o y \o z \in Seq(A)
    OBVIOUS
  <2> QED BY <1>n, <2>1, <2>2 DEF AppendData
<1>3. \A k \in 1..n, v \in W : h[<<k, v>>] = AppendData(v, lines[k])
  OBVIOUS
<1>4. <<>> \in W
  OBVIOUS
<1> HIDE DEF h, W
<1>5. PICK G \in [SUBSET (1..n) -> W] : \A s \in SUBSET (1..n) : PrefixStep(G, s, <<>>, h)
  BY <1>n, <1>2, <1>4, PrefixFold
<1>6. FoldOfLines(G, lines, n)
  <2>1. ASSUME NEW s \in SUBSET (1..n)
        PROVE  G[s] = CollectUpTo(G, s, lines)
    <3>1. CASE s = {}
      BY <1>5, <3>1 DEF PrefixStep, CollectUpTo
    <3>2. CASE s # {}
      <4>1. Max(s) \in 1..n /\ s \ {Max(s)} \in SUBSET (1..n)
        BY <1>n, <3>2, MaxIn
      <4>2. G[s] = h[<<Max(s), G[s \ {Max(s)}]>>]
        BY <1>5, <3>2 DEF PrefixStep
      <4>3. G[s \ {Max(s)}] \in W
        BY <4>1
      <4> QED BY <1>3, <3>2, <4>1, <4>2, <4>3 DEF CollectUpTo
    <3> QED BY <3>1, <3>2
  <2> QED BY <2>1 DEF FoldOfLines
<1>7. PICK F : FoldOfLines(F, lines, n) /\ result = F[1..n]
  BY <1>1, <1>6
<1>8. \A s \in SUBSET (1..n) : F[s] = CollectUpTo(F, s, lines)
  BY <1>7 DEF FoldOfLines
<1> DEFINE P == [k \in 0..n |-> F[1..k]]
<1>9. P[0] = <<>> /\ P[n] = result
  <2>1. 1..0 = {} /\ {} \in SUBSET (1..n) /\ 0 \in 0..n /\ n \in 0..n
    BY <1>n
  <2>2. F[{}] = <<>>
    BY <1>8, <2>1 DEF CollectUpTo
  <2> QED BY <1>7, <2>1, <2>2
<1>10. ASSUME NEW k \in 1..n
       PROVE  P[k] = AppendData(P[k - 1], lines[k])
  <2>1. F[1..k] = AppendData(F[1..(k - 1)], lines[k])
    <3>1. 1..k \in SUBSET (1..n) /\ 1..k # {}
      BY <1>n, MaxPrefix
    <3>2. Max(1..k) = k /\ (1..k) \ {Max(1..k)} = 1..(k - 1)
      BY <1>n, MaxPrefix
    <3>3. F[1..k] = CollectUpTo(F, 1..k, lines)
      BY <1>8, <3>1
    <3> QED BY <3>1, <3>2, <3>3, Zenon DEF CollectUpTo
  <2>2. k \in 0..n /\ k - 1 \in 0..n
    BY <1>n
  <2> QED BY <2>1, <2>2
<1> HIDE DEF P
<1> QED BY <1>9, <1>10 DEF Collects, n, result

Told(texts, e) == IF e.kind = "message" THEN Append(texts, Said(e).text) ELSE texts

Tells(P, events, n) == P[0] = <<>> /\ \A k \in 1..n : P[k] = Told(P[k - 1], events[k])

TellUpTo(F, s, events) ==
  IF s = {} THEN <<>> ELSE Told(F[s \ {Max(s)}], events[Max(s)])

FoldOfScript(F, events, n) == F = [s \in SUBSET (1..n) |-> TellUpTo(F, s, events)]

Sayings(E) == {Said(e).text : e \in E}

LEMMA MessagesTell ==
  ASSUME NEW E, NEW events \in Seq(E)
  PROVE  \E P : Tells(P, events, Len(events)) /\ P[Len(events)] = Messages(events)
<1> DEFINE n == Len(events)
           W == Seq(Sayings(E))
           result == Messages(events)
<1>n. n \in Nat /\ DOMAIN events = 1..n /\ \A k \in 1..n : events[k] \in E
  OBVIOUS
<1>1. result = (CHOOSE F : FoldOfScript(F, events, n))[1..n]
  <2>1. DOMAIN events = 1..n
    BY <1>n
  <2> HIDE DEF n
  <2> QED BY <2>1, Zenon DEF Messages, Told, FoldLeft, MapThenFoldSet, FoldOfScript, TellUpTo
<1> HIDE DEF n, result
<1> DEFINE h == [x \in (1..n) \X W |-> Told(x[2], events[x[1]])]
<1>2. h \in [(1..n) \X W -> W]
  <2> SUFFICES ASSUME NEW k \in 1..n, NEW v \in W PROVE Told(v, events[k]) \in W
    OBVIOUS
  <2>1. Said(events[k]).text \in Sayings(E)
    BY <1>n DEF Sayings
  <2> QED BY <2>1 DEF Told
<1>3. \A k \in 1..n, v \in W : h[<<k, v>>] = Told(v, events[k])
  OBVIOUS
<1>4. <<>> \in W
  OBVIOUS
<1> HIDE DEF h, W
<1>5. PICK G \in [SUBSET (1..n) -> W] : \A s \in SUBSET (1..n) : PrefixStep(G, s, <<>>, h)
  BY <1>n, <1>2, <1>4, PrefixFold
<1>6. FoldOfScript(G, events, n)
  <2>1. ASSUME NEW s \in SUBSET (1..n)
        PROVE  G[s] = TellUpTo(G, s, events)
    <3>1. CASE s = {}
      BY <1>5, <3>1 DEF PrefixStep, TellUpTo
    <3>2. CASE s # {}
      <4>1. Max(s) \in 1..n /\ s \ {Max(s)} \in SUBSET (1..n)
        BY <1>n, <3>2, MaxIn
      <4>2. G[s] = h[<<Max(s), G[s \ {Max(s)}]>>]
        BY <1>5, <3>2 DEF PrefixStep
      <4>3. G[s \ {Max(s)}] \in W
        BY <4>1
      <4> QED BY <1>3, <3>2, <4>1, <4>2, <4>3 DEF TellUpTo
    <3> QED BY <3>1, <3>2
  <2> QED BY <2>1 DEF FoldOfScript
<1>7. PICK F : FoldOfScript(F, events, n) /\ result = F[1..n]
  BY <1>1, <1>6
<1>8. \A s \in SUBSET (1..n) : F[s] = TellUpTo(F, s, events)
  BY <1>7 DEF FoldOfScript
<1> DEFINE P == [k \in 0..n |-> F[1..k]]
<1>9. P[0] = <<>> /\ P[n] = result
  <2>1. 1..0 = {} /\ {} \in SUBSET (1..n) /\ 0 \in 0..n /\ n \in 0..n
    BY <1>n
  <2>2. F[{}] = <<>>
    BY <1>8, <2>1 DEF TellUpTo
  <2> QED BY <1>7, <2>1, <2>2
<1>10. ASSUME NEW k \in 1..n
       PROVE  P[k] = Told(P[k - 1], events[k])
  <2>1. F[1..k] = Told(F[1..(k - 1)], events[k])
    <3>1. 1..k \in SUBSET (1..n) /\ 1..k # {}
      BY <1>n, MaxPrefix
    <3>2. Max(1..k) = k /\ (1..k) \ {Max(1..k)} = 1..(k - 1)
      BY <1>n, MaxPrefix
    <3>3. F[1..k] = TellUpTo(F, 1..k, events)
      BY <1>8, <3>1
    <3> QED BY <3>1, <3>2, <3>3, Zenon DEF TellUpTo
  <2>2. k \in 0..n /\ k - 1 \in 0..n
    BY <1>n
  <2> QED BY <2>1, <2>2
<1> HIDE DEF P
<1> QED BY <1>9, <1>10 DEF Tells, n, result

-----------------------------------------------------------------------------
(* What the decoder makes of an event. *)

At(c, events) == [buffer |-> <<>>, current |-> c, events |-> events]

Body(e, eol) ==
  (IF e.name = <<>> THEN <<>> ELSE Line("event:", e.name, eol))
    \o FlattenSeq([i \in 1..Len(e.lines) |-> Line(e.field, e.lines[i], eol)])

\* An event spelled with the atoms A.
IsSpelled(e, A) ==
  /\ {"LF", "CR", "event:", e.field} \subseteq A
  /\ e.name \in Seq(A) /\ e.lines \in Seq(Seq(A))

Named(e) ==
  [event |-> IF e.name = <<>> THEN Absent ELSE e.name, data |-> <<>>, id |-> Absent,
   retry |-> Absent]

\* What the decoder keeps of an event.
IsHeard(e, h) ==
  /\ h.event = Named(e).event
  /\ h.data = IF e.field = "data:" THEN Joined(e) ELSE <<>>
  /\ ~SetsField(e) => h.id = Absent /\ h.retry = Absent
  /\ h = [event |-> h.event, data |-> h.data, id |-> h.id, retry |-> h.retry]

LEMMA AtTyped ==
  ASSUME NEW A, NEW c \in Pieces(A), NEW events \in Seq(Pieces(A))
  PROVE  /\ At(c, events) \in Decoders(A) /\ At(c, events).buffer = <<>>
         /\ At(c, events).current = c /\ At(c, events).events = events
         /\ \A x : WithCurrent(At(c, events), x) = At(x, events)
<1> DEFINE B == Seq(A)
           Ps == Pieces(A)
           E == Seq(Pieces(A))
<1>1. <<>> \in B /\ c \in Ps /\ events \in E
  OBVIOUS
<1> HIDE DEF B, Ps, E
<1>2. At(c, events) \in [buffer : B, current : Ps, events : E]
  BY <1>1 DEF At
<1>3. At(c, events) \in Decoders(A)
  BY <1>2, Zenon DEF Decoders, B, Ps, E
<1> QED BY <1>3, WithIs DEF At

LEMMA PieceFields ==
  ASSUME NEW N, NEW D, NEW I, NEW R,
         NEW c \in [event : N, data : D, id : I, retry : R], NEW x
  PROVE  /\ x \in N => [c EXCEPT !.event = x] \in [event : N, data : D, id : I, retry : R]
         /\ x \in D => [c EXCEPT !.data = x] \in [event : N, data : D, id : I, retry : R]
         /\ x \in I => [c EXCEPT !.id = x] \in [event : N, data : D, id : I, retry : R]
         /\ x \in R => [c EXCEPT !.retry = x] \in [event : N, data : D, id : I, retry : R]
         /\ [c EXCEPT !.data = x].event = c.event /\ [c EXCEPT !.data = x].data = x
         /\ [c EXCEPT !.data = x].id = c.id /\ [c EXCEPT !.data = x].retry = c.retry
         /\ [c EXCEPT !.id = x].event = c.event /\ [c EXCEPT !.id = x].data = c.data
         /\ [c EXCEPT !.id = x].retry = c.retry
         /\ [c EXCEPT !.retry = x].event = c.event /\ [c EXCEPT !.retry = x].data = c.data
         /\ [c EXCEPT !.retry = x].id = c.id /\ [c EXCEPT !.retry = x].retry = x
         /\ c.data \in D
  OBVIOUS

LEMMA TakenIs ==
  ASSUME NEW A, "LF" \in A, NEW c \in Pieces(A), NEW field \in A, field # "event:",
         NEW value \in Seq(A)
  PROVE  LET t == Taken(c, <<field>> \o value) IN
           /\ t \in Pieces(A) /\ t.event = c.event
           /\ t.data = IF field = "data:" THEN AppendData(c.data, value) ELSE c.data
           /\ field # "id:" => t.id = c.id
           /\ t.retry = IF field # "retry:" THEN c.retry
                        ELSE IF value = <<"ms">> THEN value ELSE Absent
<1> DEFINE N == Seq(A) \cup {Absent}
           D == Seq(A)
           line == <<field>> \o value
           data == AppendData(c.data, value)
           ms == IF value = <<"ms">> THEN value ELSE Absent
<1>1. line[1] = field /\ Tail(line) = value
  OBVIOUS
<1>2. Pieces(A) = [event : N, data : D, id : N, retry : N]
  BY DEF Pieces
<1>3. value \in N /\ ms \in N
  OBVIOUS
<1>4. data \in D
  <2>1. c.data \in Seq(A)
    BY <1>2
  <2>2. <<"LF">> \in Seq(A)
    OBVIOUS
  <2>3. \A x, y, z \in Seq(A) : x \o y \o z \in Seq(A)
    OBVIOUS
  <2> QED BY <2>1, <2>2, <2>3 DEF AppendData
<1>5. Taken(c, line) =
        CASE field = "event:" -> [c EXCEPT !.event = value]
          [] field = "data:" -> [c EXCEPT !.data = data]
          [] field = "id:" -> [c EXCEPT !.id = value]
          [] field = "retry:" -> [c EXCEPT !.retry = ms]
          [] OTHER -> c
  BY <1>1, Zenon DEF Taken
<1> HIDE DEF N, D, line, data, ms
<1>6. /\ [c EXCEPT !.data = data] \in Pieces(A) /\ [c EXCEPT !.id = value] \in Pieces(A)
      /\ [c EXCEPT !.retry = ms] \in Pieces(A)
      /\ [c EXCEPT !.data = data].event = c.event /\ [c EXCEPT !.data = data].data = data
      /\ [c EXCEPT !.data = data].id = c.id /\ [c EXCEPT !.data = data].retry = c.retry
      /\ [c EXCEPT !.id = value].event = c.event /\ [c EXCEPT !.id = value].data = c.data
      /\ [c EXCEPT !.id = value].retry = c.retry
      /\ [c EXCEPT !.retry = ms].event = c.event /\ [c EXCEPT !.retry = ms].data = c.data
      /\ [c EXCEPT !.retry = ms].id = c.id /\ [c EXCEPT !.retry = ms].retry = ms
  BY <1>2, <1>3, <1>4, PieceFields
<1>7. /\ Taken(c, line) \in Pieces(A) /\ Taken(c, line).event = c.event
      /\ Taken(c, line).data = IF field = "data:" THEN data ELSE c.data
      /\ field # "id:" => Taken(c, line).id = c.id
      /\ Taken(c, line).retry = IF field # "retry:" THEN c.retry ELSE ms
  <2>1. CASE field = "data:"
    BY <1>5, <1>6, <2>1
  <2>2. CASE field = "id:"
    BY <1>5, <1>6, <2>2
  <2>3. CASE field = "retry:"
    BY <1>5, <1>6, <2>3
  <2>4. CASE field \notin {"data:", "id:", "retry:"}
    BY <1>5, <2>4
  <2> QED BY <2>1, <2>2, <2>3, <2>4
<1> QED BY <1>7 DEF line, data, ms

LEMMA NamedTaken ==
  ASSUME NEW A, NEW e, e.name # <<>>, e.name \in Seq(A)
  PROVE  Taken(NoEvent, <<"event:">> \o e.name) = Named(e)
<1> DEFINE line == <<"event:">> \o e.name
<1>1. line[1] = "event:" /\ Tail(line) = e.name
  OBVIOUS
<1>2. PICK c : c = NoEvent
  OBVIOUS
<1>3. Taken(c, line) = [c EXCEPT !.event = e.name]
  BY <1>1, Zenon DEF Taken
<1>4. /\ DOMAIN c = {"event", "data", "id", "retry"}
      /\ c.event = Absent /\ c.data = <<>> /\ c.id = Absent /\ c.retry = Absent
      /\ c = [event |-> c.event, data |-> c.data, id |-> c.id, retry |-> c.retry]
  BY <1>2 DEF NoEvent
<1> HIDE <1>2
<1>5. [c EXCEPT !.event = e.name]
        = [event |-> e.name, data |-> <<>>, id |-> Absent, retry |-> Absent]
  BY <1>4
<1> QED BY <1>2, <1>3, <1>5 DEF Named

\* A line of an event.
LEMMA EventLine ==
  ASSUME NEW A, "LF" \in A, "CR" \in A, NEW c \in Pieces(A), NEW events \in Seq(Pieces(A)),
         NEW field \in A \ {"LF", "CR"}, NEW value \in Seq(A),
         \A k \in 1..Len(value) : value[k] \notin {"CR", "LF"}, NEW eol, IsLineEnd(eol)
  PROVE  /\ Runs(At(c, events), Line(field, value, eol),
                 At(Taken(c, <<field>> \o value), events))
         /\ Line(field, value, eol) \in Seq(A)
<1> DEFINE line == <<field>> \o value
           d == At(c, events)
<1>1. line \in Seq(A) /\ line # <<>> /\ \A k \in 1..Len(line) : line[k] \notin {"CR", "LF"}
  OBVIOUS
<1>2. d \in Decoders(A) /\ d.buffer = <<>> /\ d.current = c
  BY AtTyped
<1>3. WithCurrent(d, Taken(c, line)) = At(Taken(c, line), events)
  BY AtTyped
<1>4. Line(field, value, eol) = line \o eol
  BY DEF Line
<1> HIDE DEF line, d
<1>5. Runs(d, line \o eol, ProcessLine(d, line)) /\ line \o eol \in Seq(A)
  BY <1>1, <1>2, LineRuns
<1>6. ProcessLine(d, line) = WithCurrent(d, Taken(c, line))
  BY <1>1, <1>2, LineIs
<1> QED BY <1>3, <1>4, <1>5, <1>6 DEF line, d

LEMMA NoLineEnds ==
  ASSUME NEW A, NEW e, IsEvent(e), IsSpelled(e, A)
  PROVE  /\ Len(e.lines) \in Nat
         /\ \A j \in 1..Len(e.name) : e.name[j] \notin {"CR", "LF"}
         /\ \A k \in 1..Len(e.lines) :
              /\ e.lines[k] \in Seq(A)
              /\ \A j \in 1..Len(e.lines[k]) : e.lines[k][j] \notin {"CR", "LF"}
<1>1. e.lines \in Seq(Seq(A)) /\ e.name \in Seq(A)
  BY DEF IsSpelled
<1>2. \A line \in Range(e.lines) \cup {e.name} : Range(line) \cap {"CR", "LF"} = {}
  BY DEF IsEvent
<1>3. ASSUME NEW line \in Seq(A), Range(line) \cap {"CR", "LF"} = {}
      PROVE  \A j \in 1..Len(line) : line[j] \notin {"CR", "LF"}
  <2>1. \A j \in 1..Len(line) : line[j] \in Range(line)
    BY DEF Range
  <2> QED BY <1>3, <2>1
<1>4. ASSUME NEW k \in 1..Len(e.lines)
      PROVE  e.lines[k] \in Seq(A) /\ e.lines[k] \in Range(e.lines)
  BY <1>1 DEF Range
<1>5. Len(e.lines) \in Nat
  BY <1>1
<1> QED BY <1>1, <1>2, <1>3, <1>4, <1>5

LEMMA NamedTyped ==
  ASSUME NEW A, NEW e, IsSpelled(e, A)
  PROVE  Named(e) \in Pieces(A)
  BY DEF Named, Pieces, IsSpelled

\* The event's name, if it has one.
LEMMA NameRuns ==
  ASSUME NEW A, NEW e, IsEvent(e), IsSpelled(e, A), NEW eol, IsLineEnd(eol),
         NEW events \in Seq(Pieces(A))
  PROVE  LET name == IF e.name = <<>> THEN <<>> ELSE Line("event:", e.name, eol) IN
           name \in Seq(A) /\ Runs(At(NoEvent, events), name, At(Named(e), events))
<1>1. "LF" \in A /\ "CR" \in A /\ "event:" \in A /\ e.name \in Seq(A)
  BY DEF IsSpelled
<1>2. CASE e.name = <<>>
  <2>1. Named(e) = NoEvent
    BY <1>2 DEF Named, NoEvent
  <2>2. <<>> \in Seq(A)
    OBVIOUS
  <2> QED BY <1>2, <2>1, <2>2, RunsNowhere
<1>3. CASE e.name # <<>>
  <2>1. \A k \in 1..Len(e.name) : e.name[k] \notin {"CR", "LF"}
    BY NoLineEnds
  <2>2. "event:" \in A \ {"LF", "CR"}
    BY <1>1
  <2>3. NoEvent \in Pieces(A)
    BY NoEventIsPiece
  <2>4. /\ Runs(At(NoEvent, events), Line("event:", e.name, eol),
                At(Taken(NoEvent, <<"event:">> \o e.name), events))
        /\ Line("event:", e.name, eol) \in Seq(A)
    BY <1>1, <2>1, <2>2, <2>3, EventLine
  <2>5. Taken(NoEvent, <<"event:">> \o e.name) = Named(e)
    BY <1>1, <1>3, NamedTaken
  <2> QED BY <1>3, <2>4, <2>5
<1> QED BY <1>2, <1>3

LEMMA EventRuns ==
  ASSUME NEW A, NEW e, IsEvent(e), IsSpelled(e, A), NEW eol, IsLineEnd(eol)
  PROVE  \E h \in Pieces(A) :
           /\ IsHeard(e, h) /\ Body(e, eol) \in Seq(A)
           /\ \A events \in Seq(Pieces(A)) :
                Runs(At(NoEvent, events), Body(e, eol), At(h, events))
<1> DEFINE n == Len(e.lines)
           lines == [i \in 1..n |-> Line(e.field, e.lines[i], eol)]
           name == IF e.name = <<>> THEN <<>> ELSE Line("event:", e.name, eol)
<1>1. /\ "LF" \in A /\ "CR" \in A /\ e.field \in A \ {"LF", "CR"} /\ e.field # "event:"
      /\ e.lines \in Seq(Seq(A)) /\ n \in Nat
  BY DEF IsSpelled, IsEvent
<1>2. \A k \in 1..n : /\ e.lines[k] \in Seq(A)
                      /\ \A j \in 1..Len(e.lines[k]) : e.lines[k][j] \notin {"CR", "LF"}
  BY NoLineEnds
<1> HIDE DEF n
<1>3. ASSUME NEW k \in 1..n, NEW c \in Pieces(A), NEW events \in Seq(Pieces(A))
      PROVE  /\ Runs(At(c, events), lines[k], At(Taken(c, <<e.field>> \o e.lines[k]), events))
             /\ lines[k] \in Seq(A)
  <2>1. lines[k] = Line(e.field, e.lines[k], eol)
    OBVIOUS
  <2> HIDE DEF lines
  <2>2. /\ Runs(At(c, events), Line(e.field, e.lines[k], eol),
                At(Taken(c, <<e.field>> \o e.lines[k]), events))
        /\ Line(e.field, e.lines[k], eol) \in Seq(A)
    BY <1>1, <1>2, EventLine
  <2> QED BY <2>1, <2>2, Zenon
<1>4. n = Len(lines) /\ (n = 0 => lines = <<>>)
  BY <1>1
<1>5. \A k \in 1..n : lines[k] \in Seq(A)
  <2>1. NoEvent \in Pieces(A) /\ <<>> \in Seq(Pieces(A))
    BY NoEventIsPiece
  <2> HIDE DEF lines
  <2> QED BY <1>3, <2>1
<1> HIDE DEF lines
<1>6. PICK P : Joins(P, lines, n) /\ P[n] = FlattenSeq(lines)
  BY <1>1, <1>4, <1>5, FlattenJoins
<1>7. \A k \in 0..n : P[k] \in Seq(A)
  BY <1>1, <1>5, <1>6, JoinsTyped
<1>8. PICK J : Collects(J, e.lines, n) /\ J[n] = Joined(e)
  BY <1>1, JoinedCollects DEF n
<1> DEFINE Made(k, c) ==
             /\ c \in Pieces(A) /\ c.event = Named(e).event
             /\ c.data = IF e.field = "data:" THEN J[k] ELSE <<>>
             /\ e.field # "id:" \/ k = 0 => c.id = Absent
             /\ e.field # "retry:" \/ k = 0 \/ e.lines[k] # <<"ms">> => c.retry = Absent
             /\ \A events \in Seq(Pieces(A)) : Runs(At(Named(e), events), P[k], At(c, events))
           T == {k \in Nat : \E c : Made(k, c)}
<1>9. 0 \in T
  <2>1. /\ Named(e) \in Pieces(A) /\ Named(e).data = <<>>
        /\ Named(e).id = Absent /\ Named(e).retry = Absent
    BY NamedTyped DEF Named
  <2>2. P[0] = <<>> /\ J[0] = <<>>
    BY <1>6, <1>8 DEF Joins, Collects
  <2>3. Made(0, Named(e))
    BY <2>1, <2>2, RunsNowhere
  <2> QED BY <2>3
<1>10. ASSUME NEW k \in 1..n, k - 1 \in T
       PROVE  k \in T
  <2>1. PICK c : Made(k - 1, c)
    BY <1>10
  <2> DEFINE t == Taken(c, <<e.field>> \o e.lines[k])
  <2>2. /\ t \in Pieces(A) /\ t.event = c.event
        /\ t.data = IF e.field = "data:" THEN AppendData(c.data, e.lines[k]) ELSE c.data
        /\ e.field # "id:" => t.id = c.id
        /\ t.retry = IF e.field # "retry:" THEN c.retry
                     ELSE IF e.lines[k] = <<"ms">> THEN e.lines[k] ELSE Absent
    <3> DEFINE v == e.lines[k]
               field == e.field
    <3>1. "LF" \in A /\ c \in Pieces(A) /\ field \in A /\ field # "event:" /\ v \in Seq(A)
      BY <1>1, <1>2, <2>1
    <3> HIDE DEF v, field
    <3>2. LET u == Taken(c, <<field>> \o v) IN
            /\ u \in Pieces(A) /\ u.event = c.event
            /\ u.data = IF field = "data:" THEN AppendData(c.data, v) ELSE c.data
            /\ field # "id:" => u.id = c.id
            /\ u.retry = IF field # "retry:" THEN c.retry
                         ELSE IF v = <<"ms">> THEN v ELSE Absent
      BY <3>1, TakenIs
    <3> QED BY <3>2 DEF v, field
  <2> HIDE DEF t
  <2>3. P[k] = P[k - 1] \o lines[k] /\ J[k] = AppendData(J[k - 1], e.lines[k])
    BY <1>6, <1>8 DEF Joins, Collects
  <2>4. ASSUME NEW events \in Seq(Pieces(A))
        PROVE  Runs(At(Named(e), events), P[k], At(t, events))
    <3>1. Runs(At(Named(e), events), P[k - 1], At(c, events))
      BY <2>1
    <3>2. Runs(At(c, events), lines[k], At(t, events))
      BY <1>3, <2>1 DEF t
    <3>3. P[k - 1] \in Seq(A) /\ lines[k] \in Seq(A)
      BY <1>1, <1>5, <1>7
    <3> QED BY <2>3, <3>1, <3>2, <3>3, RunsOn
  <2>5. Made(k, t)
    <3>1. k # 0
      BY <1>1
    <3> QED BY <2>1, <2>2, <2>3, <2>4, <3>1
  <2>6. k \in Nat
    BY <1>1
  <2> QED BY <2>5, <2>6
<1> HIDE DEF T
<1>11. n \in T
  <2>1. \A k \in 0..n : k \in T
    BY <1>1, <1>9, <1>10, PrefixSets
  <2> QED BY <1>1, <2>1
<1>12. PICK h : Made(n, h)
  BY <1>11 DEF T
<1>13. IsHeard(e, h)
  <2>1. h = [event |-> h.event, data |-> h.data, id |-> h.id, retry |-> h.retry]
    BY <1>12 DEF Pieces
  <2>2. ASSUME ~SetsField(e)
        PROVE  h.id = Absent /\ h.retry = Absent
    <3>1. n = 0 \/ (e.field # "id:" /\ (e.field # "retry:" \/ e.lines[n] # <<"ms">>))
      <4>1. n # 0 => e.lines # <<>> /\ Last(e.lines) = e.lines[n]
        BY <1>1 DEF n, Last
      <4> QED BY <2>2, <4>1 DEF SetsField
    <3> QED BY <1>12, <3>1
  <2> QED BY <1>8, <1>12, <2>1, <2>2 DEF IsHeard
<1>14. Body(e, eol) = name \o P[n]
  BY <1>6, Zenon DEF Body, lines, n
<1>15. name \in Seq(A) /\ P[n] \in Seq(A)
  <2>1. <<>> \in Seq(Pieces(A))
    OBVIOUS
  <2>2. n \in 0..n
    BY <1>1
  <2> QED BY <1>7, <2>1, <2>2, NameRuns
<1>16. ASSUME NEW events \in Seq(Pieces(A))
       PROVE  Runs(At(NoEvent, events), Body(e, eol), At(h, events))
  <2>1. Runs(At(NoEvent, events), name, At(Named(e), events))
    BY NameRuns
  <2>2. Runs(At(Named(e), events), P[n], At(h, events))
    BY <1>12
  <2> HIDE DEF name, Made
  <2> QED BY <1>14, <1>15, <2>1, <2>2, RunsOn
<1>17. Body(e, eol) \in Seq(A)
  <2> HIDE DEF name
  <2> QED BY <1>14, <1>15
<1> QED BY <1>12, <1>13, <1>16, <1>17

\* What a blank line dispatches.
Spoken(h) == IF h = NoEvent THEN <<>> ELSE <<h>>

LEMMA DispatchAt ==
  ASSUME NEW A, NEW c \in Pieces(A), NEW events \in Seq(Pieces(A))
  PROVE  /\ Dispatch(At(c, events)) = At(NoEvent, events \o Spoken(c))
         /\ Dispatch(At(NoEvent, events)) = At(NoEvent, events)
<1>1. NoEvent \in Pieces(A)
  BY NoEventIsPiece
<1>2. Dispatch(At(NoEvent, events)) = At(NoEvent, events)
  BY <1>1, AtTyped DEF Dispatch
<1>3. CASE c = NoEvent
  <2>1. events \o <<>> = events
    OBVIOUS
  <2> QED BY <1>2, <1>3, <2>1 DEF Spoken
<1>4. CASE c # NoEvent
  <2> DEFINE d == At(c, events)
             e == Dispatch(d)
  <2>1. d \in Decoders(A) /\ d.buffer = <<>> /\ d.current = c /\ d.events = events
    BY AtTyped
  <2>2. e = [d EXCEPT !.current = NoEvent, !.events = Append(events, c)]
    BY <1>4, <2>1, Zenon DEF Dispatch
  <2>3. d = [buffer |-> d.buffer, current |-> d.current, events |-> d.events]
    BY <2>1, FieldsAre
  <2>4. e \in Decoders(A)
    BY <2>1, DispatchTyped
  <2>5. Append(events, c) = events \o Spoken(c)
    BY <1>4 DEF Spoken
  <2> HIDE DEF d, e
  <2>6. e.buffer = <<>> /\ e.current = NoEvent /\ e.events = Append(events, c)
    BY <2>1, <2>2, <2>3
  <2>7. e = [buffer |-> e.buffer, current |-> e.current, events |-> e.events]
    BY <2>4, FieldsAre
  <2>8. e = At(NoEvent, events \o Spoken(c))
    BY <2>5, <2>6, <2>7, Zenon DEF At
  <2> QED BY <1>2, <2>8 DEF d, e
<1> QED BY <1>3, <1>4

LEMMA BlankRuns ==
  ASSUME NEW A, "LF" \in A, "CR" \in A, NEW c \in Pieces(A), NEW events \in Seq(Pieces(A)),
         NEW eol, IsLineEnd(eol)
  PROVE  /\ Runs(At(c, events), eol, At(NoEvent, events \o Spoken(c)))
         /\ eol \in Seq(A)
<1> DEFINE d == At(c, events)
<1>1. d \in Decoders(A) /\ d.buffer = <<>>
  BY AtTyped
<1>2. eol \in Seq(A) /\ <<>> \o eol = eol /\ <<>> \in Seq(A)
  <2>1. <<"LF">> \in Seq(A) /\ <<"CR", "LF">> \in Seq(A)
    OBVIOUS
  <2>2. eol \in Seq(A)
    BY <2>1 DEF IsLineEnd
  <2>3. \A s \in Seq(A) : <<>> \o s = s
    OBVIOUS
  <2> QED BY <2>2, <2>3
<1>3. ProcessLine(d, <<>>) = At(NoEvent, events \o Spoken(c))
  BY DispatchAt DEF ProcessLine
<1> HIDE DEF d
<1>4. Runs(d, <<>> \o eol, ProcessLine(d, <<>>))
  <2>1. \A k \in 1..Len(<<>>) : <<>>[k] \notin {"CR", "LF"}
    OBVIOUS
  <2> QED BY <1>1, <1>2, <2>1, LineRuns
<1> QED BY <1>2, <1>3, <1>4 DEF d

-----------------------------------------------------------------------------
(* What the decoder makes of a script. *)

\* The atoms of a script.
LettersOf(e) == Range(e.name) \cup {e.field} \cup UNION {Range(line) : line \in Range(e.lines)}

Letters(events) ==
  {"LF", "CR", "event:"} \cup UNION {LettersOf(e) : e \in Range(events)}

LEMMA ScriptSpelled ==
  ASSUME NEW events, NEW i \in DOMAIN events, IsEvent(events[i])
  PROVE  IsSpelled(events[i], Letters(events))
<1> DEFINE e == events[i]
           A == Letters(events)
<1>1. LettersOf(e) \subseteq A /\ {"LF", "CR", "event:"} \subseteq A
  BY DEF Letters, Range
<1>2. /\ e.name \in Seq(Range(e.name)) /\ e.lines \in Seq(Range(e.lines))
      /\ \A line \in Range(e.lines) : line \in Seq(Range(line))
  BY DEF IsEvent
<1> HIDE DEF e, A
<1>3. Range(e.name) \subseteq A /\ e.field \in A
  BY <1>1 DEF LettersOf
<1>4. \A line \in Range(e.lines) : Range(line) \subseteq A
  BY <1>1 DEF LettersOf
<1>5. \A S : S \subseteq A => Seq(S) \subseteq Seq(A)
  OBVIOUS
<1>6. e.name \in Seq(A)
  BY <1>2, <1>3, <1>5
<1>7. Range(e.lines) \subseteq Seq(A)
  BY <1>2, <1>4, <1>5
<1>8. e.lines \in Seq(Seq(A))
  <2>1. Seq(Range(e.lines)) \subseteq Seq(Seq(A))
    BY <1>7
  <2> QED BY <1>2, <2>1
<1> QED BY <1>1, <1>3, <1>6, <1>8 DEF IsSpelled, e, A

\* What the decoder hears of each event of a script.
Hears(events, eol, H) ==
  \A i \in 1..Len(events) :
    /\ H[i] \in Pieces(Letters(events)) /\ IsHeard(events[i], H[i])
    /\ Body(events[i], eol) \in Seq(Letters(events))
    /\ \A before \in Seq(Pieces(Letters(events))) :
         Runs(At(NoEvent, before), Body(events[i], eol), At(H[i], before))

Spokens(H, n) == [i \in 1..n |-> Spoken(H[i])]

LEMMA ScriptHeard ==
  ASSUME NEW events, Len(events) \in Nat, DOMAIN events = 1..Len(events),
         \A i \in DOMAIN events : IsEvent(events[i]), NEW eol, IsLineEnd(eol)
  PROVE  \E H : Hears(events, eol, H)
<1> DEFINE n == Len(events)
           A == Letters(events)
           Is(i, h) == /\ h \in Pieces(A) /\ IsHeard(events[i], h)
                       /\ Body(events[i], eol) \in Seq(A)
                       /\ \A before \in Seq(Pieces(A)) :
                            Runs(At(NoEvent, before), Body(events[i], eol), At(h, before))
           H == [i \in 1..n |-> CHOOSE h : Is(i, h)]
<1>1. ASSUME NEW i \in 1..n
      PROVE  Is(i, H[i])
  <2>1. IsSpelled(events[i], A)
    BY ScriptSpelled
  <2> HIDE DEF A
  <2>2. \E h : Is(i, h)
    BY <2>1, EventRuns
  <2>3. Is(i, CHOOSE h : Is(i, h))
    <3> HIDE DEF Is
    <3> QED BY <2>2
  <2> HIDE DEF Is
  <2>4. H[i] = CHOOSE h : Is(i, h)
    BY Zenon
  <2> HIDE DEF H
  <2> QED BY <2>3, <2>4, Zenon
<1> HIDE DEF H
<1> QED BY <1>1, Zenon DEF Hears

LEMMA SpokenTyped ==
  ASSUME NEW events, NEW eol, NEW H, Hears(events, eol, H), Len(events) \in Nat,
         NEW Q, Joins(Q, Spokens(H, Len(events)), Len(events))
  PROVE  \A i \in 0..Len(events) : Q[i] \in Seq(Pieces(Letters(events)))
<1> DEFINE P == Pieces(Letters(events))
           n == Len(events)
           K == Spokens(H, n)
<1>1. ASSUME NEW i \in 1..n
      PROVE  K[i] \in Seq(P)
  <2>1. H[i] \in P /\ K[i] = Spoken(H[i])
    BY DEF Hears, Spokens
  <2> HIDE DEF P, K
  <2>2. \A x \in P : <<x>> \in Seq(P)
    OBVIOUS
  <2>3. <<>> \in Seq(P)
    OBVIOUS
  <2> QED BY <2>1, <2>2, <2>3 DEF Spoken
<1> HIDE DEF P, K
<1> QED BY <1>1, JoinsTyped DEF P, K

IsScript(events) ==
  /\ Len(events) \in Nat /\ DOMAIN events = 1..Len(events)
  /\ \A i \in DOMAIN events : IsEvent(events[i]) /\ (events[i].closed \/ i = Len(events))

LEMMA ScriptRuns ==
  ASSUME NEW events, IsScript(events), NEW eol, IsLineEnd(eol), NEW H, Hears(events, eol, H),
         NEW Q, Joins(Q, Spokens(H, Len(events)), Len(events))
  PROVE  /\ Render(events, eol) \in Seq(Letters(events))
         /\ \E d \in Decoders(Letters(events)) :
              /\ Runs(At(NoEvent, <<>>), Render(events, eol), d) /\ d.buffer = <<>>
              /\ Dispatch(d) = At(NoEvent, Q[Len(events)])
<1> DEFINE n == Len(events)
           A == Letters(events)
           R == [i \in 1..n |-> RenderEvent(events[i], eol)]
<1>1. n \in Nat /\ "LF" \in A /\ "CR" \in A /\ NoEvent \in Pieces(A)
  BY NoEventIsPiece DEF IsScript, Letters
<1>2. \A i \in 1..n :
        /\ H[i] \in Pieces(A) /\ Body(events[i], eol) \in Seq(A)
        /\ \A before \in Seq(Pieces(A)) :
             Runs(At(NoEvent, before), Body(events[i], eol), At(H[i], before))
  BY DEF Hears
<1>3. \A i \in 0..n : Q[i] \in Seq(Pieces(A))
  BY <1>1, SpokenTyped
<1>4. Q[0] = <<>> /\ \A i \in 1..n : Q[i] = Q[i - 1] \o Spoken(H[i])
  BY DEF Joins, Spokens
<1>5. \A i \in 1..n : R[i] = Body(events[i], eol) \o IF events[i].closed THEN eol ELSE <<>>
  BY Zenon DEF RenderEvent, Body
<1>6. \A i \in 1..n : events[i].closed \/ i = n
  BY DEF IsScript
<1>7. Len(R) = n /\ (n = 0 => R = <<>>)
  BY <1>1
<1>8. Render(events, eol) = FlattenSeq(R)
  BY Zenon DEF Render
<1> HIDE DEF n, A, R
<1>9. \A i \in 1..n : R[i] \in Seq(A)
  <2> TAKE i \in 1..n
  <2>1. eol \in Seq(A) /\ <<>> \in Seq(A)
    <3>1. CASE eol = <<"LF">>
      BY <1>1, <3>1
    <3>2. CASE eol = <<"CR", "LF">>
      BY <1>1, <3>2
    <3> QED BY <3>1, <3>2 DEF IsLineEnd
  <2> DEFINE b == Body(events[i], eol)
  <2>2. b \in Seq(A)
    BY <1>2
  <2> HIDE DEF b
  <2>3. b \o eol \in Seq(A) /\ b \o <<>> \in Seq(A)
    BY <2>1, <2>2
  <2>4. R[i] = b \o eol \/ R[i] = b \o <<>>
    BY <1>5 DEF b
  <2> QED BY <2>3, <2>4
<1>10. PICK P : Joins(P, R, n) /\ P[n] = FlattenSeq(R)
  BY <1>1, <1>7, <1>9, FlattenJoins
<1>11. \A i \in 0..n : P[i] \in Seq(A)
  BY <1>1, <1>9, <1>10, JoinsTyped
<1> DEFINE Reached(i, d) ==
             /\ d \in Decoders(A) /\ d.buffer = <<>>
             /\ Runs(At(NoEvent, <<>>), P[i], d)
             /\ Dispatch(d) = At(NoEvent, Q[i])
             /\ i < n => d = At(NoEvent, Q[i])
           T == {i \in Nat : \E d : Reached(i, d)}
<1>12. 0 \in T
  <2> DEFINE d == At(NoEvent, <<>>)
  <2>1. <<>> \in Seq(Pieces(A))
    OBVIOUS
  <2>2. d \in Decoders(A) /\ d.buffer = <<>> /\ Dispatch(d) = At(NoEvent, <<>>)
    <3> DEFINE none == <<>>
    <3>1. none \in Seq(Pieces(A))
      BY <2>1
    <3> HIDE DEF none
    <3>2. At(NoEvent, none) \in Decoders(A) /\ At(NoEvent, none).buffer = <<>>
      BY <1>1, <3>1, AtTyped
    <3>3. Dispatch(At(NoEvent, none)) = At(NoEvent, none)
      BY <1>1, <3>1, DispatchAt
    <3> QED BY <3>2, <3>3 DEF none
  <2>3. P[0] = <<>> /\ Runs(d, <<>>, d)
    BY <1>10, RunsNowhere DEF Joins
  <2>4. Reached(0, d)
    <3> HIDE DEF d
    <3>1. d = At(NoEvent, Q[0])
      BY <1>4 DEF d
    <3>2. Runs(At(NoEvent, <<>>), P[0], d)
      BY <2>3 DEF d
    <3> QED BY <1>4, <2>2, <3>1, <3>2
  <2> QED BY <2>4
<1>13. ASSUME NEW i \in 1..n, i - 1 \in T
       PROVE  i \in T
  <2>1. PICK d : Reached(i - 1, d)
    BY <1>13
  <2>2. i - 1 < n /\ i \in Nat /\ i - 1 \in 0..n
    BY <1>1
  <2> DEFINE q == Q[i - 1]
             b == Body(events[i], eol)
  <2>3. d = At(NoEvent, q) /\ q \in Seq(Pieces(A)) /\ Runs(At(NoEvent, <<>>), P[i - 1], d)
    BY <1>3, <2>1, <2>2
  <2>4. /\ H[i] \in Pieces(A) /\ b \in Seq(A) /\ Runs(At(NoEvent, q), b, At(H[i], q))
        /\ Q[i] = q \o Spoken(H[i]) /\ P[i] = P[i - 1] \o R[i]
        /\ P[i - 1] \in Seq(A) /\ R[i] \in Seq(A)
    <3>1. H[i] \in Pieces(A) /\ b \in Seq(A) /\ Runs(At(NoEvent, q), b, At(H[i], q))
      BY <1>2, <2>3
    <3>2. Q[i] = q \o Spoken(H[i])
      BY <1>4
    <3>3. P[i] = P[i - 1] \o R[i]
      BY <1>10 DEF Joins
    <3>4. P[i - 1] \in Seq(A) /\ R[i] \in Seq(A)
      BY <1>9, <1>11, <2>2
    <3> QED BY <3>1, <3>2, <3>3, <3>4
  <2> HIDE DEF q, b
  <2>5. Dispatch(At(H[i], q)) = At(NoEvent, Q[i]) /\ Q[i] \in Seq(Pieces(A))
    <3>1. Dispatch(At(H[i], q)) = At(NoEvent, q \o Spoken(H[i]))
      BY <2>3, <2>4, DispatchAt
    <3>2. Q[i] \in Seq(Pieces(A))
      BY <1>1, <1>3
    <3>3. Q[i] = q \o Spoken(H[i])
      BY <2>4
    <3> QED BY <3>1, <3>2, <3>3
  <2>6. CASE events[i].closed
    <3> DEFINE e == At(NoEvent, Q[i])
    <3>1. R[i] = b \o eol
      BY <1>5, <2>6 DEF b
    <3>2. Runs(At(H[i], q), eol, e) /\ eol \in Seq(A)
      BY <1>1, <2>3, <2>4, BlankRuns
    <3>3. Runs(At(NoEvent, q), R[i], e)
      BY <2>4, <3>1, <3>2, RunsOn
    <3>4. Runs(At(NoEvent, <<>>), P[i], e)
      BY <2>3, <2>4, <3>3, RunsOn
    <3>5. e \in Decoders(A) /\ e.buffer = <<>> /\ Dispatch(e) = At(NoEvent, Q[i])
      BY <1>1, <2>5, AtTyped, DispatchAt
    <3>6. Reached(i, e)
      BY <3>4, <3>5
    <3> QED BY <2>2, <3>6
  <2>7. CASE ~events[i].closed
    <3> DEFINE e == At(H[i], q)
    <3>1. R[i] = b /\ i = n
      <4>1. b \o <<>> = b
        BY <2>4
      <4> QED BY <1>5, <1>6, <2>7, <4>1 DEF b
    <3>2. Runs(At(NoEvent, q), R[i], e)
      BY <2>4, <3>1
    <3>3. Runs(At(NoEvent, <<>>), P[i], e)
      BY <2>3, <2>4, <3>2, RunsOn
    <3>4. e \in Decoders(A) /\ e.buffer = <<>>
      BY <2>3, <2>4, AtTyped
    <3>5. Dispatch(e) = At(NoEvent, Q[i]) /\ ~(i < n)
      BY <1>1, <2>5, <3>1
    <3> HIDE DEF e
    <3>6. Reached(i, e)
      BY <3>3, <3>4, <3>5
    <3> QED BY <2>2, <3>6
  <2> QED BY <2>6, <2>7
<1> HIDE DEF T
<1>14. n \in T
  <2>1. \A i \in 0..n : i \in T
    BY <1>1, <1>12, <1>13, PrefixSets
  <2> QED BY <1>1, <2>1
<1>15. PICK d : Reached(n, d)
  BY <1>14 DEF T
<1>16. Render(events, eol) = P[n] /\ P[n] \in Seq(A)
  BY <1>1, <1>8, <1>10, <1>11
<1> QED BY <1>15, <1>16 DEF n, A

LEMMA SameSequence ==
  ASSUME NEW S, NEW s \in Seq(S), NEW t \in Seq(S), Len(s) = Len(t),
         \A i \in 1..Len(s) : s[i] = t[i]
  PROVE  s = t
  OBVIOUS

\* What was dispatched so far is what some first events of the script make.
LEMMA DispatchedIsSpoken ==
  ASSUME NEW S, NEW n \in Nat, NEW H, NEW Q, \A i \in 0..n : Q[i] \in Seq(S),
         Joins(Q, Spokens(H, n), n), NEW q \in Seq(S), Extends(q, Q[n])
  PROVE  \E j \in 0..n : Q[j] = q
<1> DEFINE T == {i \in Nat : i \in 0..n => (Extends(q, Q[i]) => \E j \in 0..n : Q[j] = q)}
<1>1. Q[0] = <<>> /\ \A i \in 1..n : Q[i] = Q[i - 1] \o Spoken(H[i])
  BY DEF Joins, Spokens
<1>2. 0 \in T
  <2>1. ASSUME Extends(q, Q[0]) PROVE Q[0] = q
    <3>1. Len(q) = 0
      BY <1>1, <2>1 DEF Extends
    <3> QED BY <1>1, <3>1
  <2>2. 0 \in 0..n
    OBVIOUS
  <2> QED BY <2>1, <2>2
<1>3. ASSUME NEW i \in 1..n, i - 1 \in T
      PROVE  i \in T
  <2>1. i - 1 \in 0..n /\ i \in 0..n /\ i \in Nat
    OBVIOUS
  <2> DEFINE p == Q[i - 1]
             r == Q[i]
  <2>2. p \in Seq(S) /\ r \in Seq(S)
    BY <2>1
  <2>3. r = p \o Spoken(H[i])
    BY <1>1
  <2>4. Extends(q, p) => \E j \in 0..n : Q[j] = q
    BY <1>3, <2>1
  <2> HIDE DEF p, r
  <2>5. ASSUME Extends(q, r) PROVE Extends(q, p) \/ r = q
    <3>1. CASE H[i] = NoEvent
      <4>1. r = p
        BY <2>2, <2>3, <3>1 DEF Spoken
      <4> QED BY <2>5, <4>1
    <3>2. CASE H[i] # NoEvent
      <4>1. r = p \o <<H[i]>>
        BY <2>3, <3>2 DEF Spoken
      <4>2. Len(r) = Len(p) + 1 /\ \A k \in 1..Len(p) : r[k] = p[k]
        BY <2>2, <4>1
      <4>3. Len(q) \in Nat /\ Len(p) \in Nat /\ Len(q) <= Len(r) /\ \A k \in 1..Len(q) : r[k] = q[k]
        BY <2>2, <2>5 DEF Extends
      <4>4. CASE Len(q) <= Len(p)
        <5>1. \A k \in 1..Len(q) : k \in 1..Len(p)
          BY <4>3, <4>4
        <5> QED BY <4>2, <4>3, <4>4, <5>1 DEF Extends
      <4>5. CASE ~(Len(q) <= Len(p))
        <5>1. Len(q) = Len(r)
          BY <4>2, <4>3, <4>5
        <5> QED BY <2>2, <4>3, <5>1, SameSequence
      <4> QED BY <4>4, <4>5
    <3> QED BY <3>1, <3>2
  <2> QED BY <2>1, <2>4, <2>5 DEF r
<1> HIDE DEF T
<1>4. n \in T
  <2>1. \A i \in 0..n : i \in T
    BY <1>2, <1>3, PrefixSets
  <2> QED BY <2>1
<1> QED BY <1>4 DEF T

\* Part of the way through a script: what was dispatched is what some first events
\* of the script make, and what is left leads to its end.
LEMMA MidwayRuns ==
  ASSUME NEW events, IsScript(events), NEW eol, IsLineEnd(eol), NEW H, Hears(events, eol, H),
         NEW Q, Joins(Q, Spokens(H, Len(events)), Len(events)),
         NEW before \in Seq(Letters(events)), NEW after \in Seq(Letters(events)),
         Render(events, eol) = before \o after,
         NEW d, Runs(At(NoEvent, <<>>), before, d)
  PROVE  /\ d \in Decoders(Letters(events))
         /\ \E j \in 0..Len(events) : Q[j] = d.events
         /\ after = <<>> => d.buffer = <<>> /\ Dispatch(d) = At(NoEvent, Q[Len(events)])
<1> DEFINE n == Len(events)
           A == Letters(events)
           start == At(NoEvent, <<>>)
<1>1. n \in Nat /\ "LF" \in A
  BY DEF IsScript, Letters
<1>2. start \in Decoders(A)
  <2>1. NoEvent \in Pieces(A) /\ <<>> \in Seq(Pieces(A))
    BY NoEventIsPiece
  <2> HIDE DEF A
  <2> QED BY <2>1, AtTyped
<1>3. \A i \in 0..n : Q[i] \in Seq(Pieces(A))
  BY <1>1, SpokenTyped
<1>4. PICK f \in Decoders(A) :
        Runs(start, before \o after, f) /\ f.buffer = <<>> /\ Dispatch(f) = At(NoEvent, Q[n])
  BY ScriptRuns
<1> HIDE DEF n, A, start
<1>5. d \in Decoders(A)
  BY <1>1, <1>2, RunsTyped DEF A, start
<1>6. PICK g : Runs(d, after, g)
  BY RunsSomewhere DEF A
<1>7. g = f
  <2>1. Runs(start, before \o after, g)
    BY <1>6, RunsOn DEF A, start
  <2>2. Len(before \o after) \in Nat
    BY ConcatLaws
  <2> QED BY <1>4, <2>1, <2>2, RunsAlone
<1>8. d.events \in Seq(Pieces(A)) /\ f.events \in Seq(Pieces(A)) /\ f.current \in Pieces(A)
  BY <1>4, <1>5, FieldsOf
<1>9. Extends(d.events, f.events)
  BY <1>1, <1>5, <1>6, <1>7, RunsGrow DEF A
<1>10. Q[n] = f.events \o Spoken(f.current)
  <2>1. f = At(f.current, f.events)
    BY <1>4, FieldsAre DEF At
  <2>2. Dispatch(f) = At(NoEvent, f.events \o Spoken(f.current))
    BY <1>8, <2>1, DispatchAt
  <2>3. \A x : At(NoEvent, x).events = x
    BY DEF At
  <2> QED BY <1>4, <2>2, <2>3
<1>11. Extends(d.events, Q[n])
  <2> DEFINE S == Pieces(A)
             s == d.events
             t == f.events
             u == Q[n]
  <2>1. s \in Seq(S) /\ t \in Seq(S) /\ Extends(s, t)
    BY <1>8, <1>9
  <2>2. u = t \/ u = t \o <<f.current>>
    <3>1. t \o <<>> = t
      BY <2>1
    <3> QED BY <1>10, <3>1 DEF Spoken
  <2>3. f.current \in S
    BY <1>8
  <2> HIDE DEF S, s, t, u
  <2>4. Extends(t, u)
    <3>1. <<f.current>> \in Seq(S)
      BY <2>3
    <3>2. Extends(t, t)
      BY <2>1 DEF Extends
    <3> QED BY <2>1, <2>2, <3>1, <3>2, ConcatExtends
  <2>5. Len(s) \in Nat /\ Len(t) \in Nat /\ Len(u) \in Nat
    <3>1. u \in Seq(S)
      <4>1. t \o <<f.current>> \in Seq(S)
        BY <2>1, <2>3
      <4> QED BY <2>1, <2>2, <4>1
    <3> QED BY <2>1, <3>1
  <2>6. Len(s) <= Len(u) /\ \A i \in 1..Len(s) : i \in 1..Len(t)
    BY <2>1, <2>4, <2>5 DEF Extends
  <2>7. Extends(s, u)
    BY <2>1, <2>4, <2>6 DEF Extends
  <2> QED BY <2>7 DEF s, u
<1>12. \E j \in 0..n : Q[j] = d.events
  <2> DEFINE S == Pieces(A)
  <2>1. d.events \in Seq(S) /\ \A i \in 0..n : Q[i] \in Seq(S)
    BY <1>3, <1>8
  <2>2. Joins(Q, Spokens(H, n), n)
    BY DEF n
  <2> DEFINE q == d.events
  <2>3. q \in Seq(S) /\ Extends(q, Q[n])
    BY <1>11, <2>1
  <2> HIDE DEF S, q
  <2>4. \E j \in 0..n : Q[j] = q
    BY <1>1, <2>1, <2>2, <2>3, DispatchedIsSpoken
  <2> QED BY <2>4 DEF q
<1>13. ASSUME after = <<>>
       PROVE  d = f
  <2>1. Runs(d, <<>>, f)
    BY <1>6, <1>7, <1>13
  <2>2. Runs(d, <<>>, d) /\ Len(<<>>) \in Nat
    BY RunsNowhere
  <2> QED BY <2>1, <2>2, RunsAlone
<1> QED BY <1>4, <1>5, <1>12, <1>13 DEF n, A

-----------------------------------------------------------------------------
(* What the client understands. *)

\* The kind of what is heard of an event.
Sense(e) ==
  CASE e.kind = "metering" -> "metering"
    [] e.kind = "usage" -> "usage"
    [] e.kind \in {"message", "garbled"} -> "message"
    [] e.kind = "done" -> "done"
    [] OTHER -> "other"

LEMMA NamesDiffer ==
  LET all == {<<"mpp.metering">>, <<"metering">>, <<"mpp.usage">>, <<"usage">>, <<"done">>,
              <<"message">>} IN
    /\ \A x, y \in all : x[1] # y[1] => x # y
    /\ <<"metering">>[1] = "metering" /\ <<"mpp.metering">>[1] = "mpp.metering"
    /\ <<"usage">>[1] = "usage" /\ <<"mpp.usage">>[1] = "mpp.usage"
    /\ <<"done">>[1] = "done" /\ <<"message">>[1] = "message"
  OBVIOUS

LEMMA KindNames ==
  ASSUME NEW event, Absent \notin Names
  PROVE  /\ event.event \in {<<"mpp.metering">>, <<"metering">>} => KindOf(event) = "metering"
         /\ event.event \in {<<"mpp.usage">>, <<"usage">>} => KindOf(event) = "usage"
         /\ event.event = <<"done">> => KindOf(event) = "done"
         /\ event.event \in {Absent, <<"message">>} =>
              KindOf(event) = IF event.data = <<"[DONE]">> THEN "done" ELSE "message"
         /\ event.event \notin Names \cup {Absent, <<"message">>} => KindOf(event) = "other"
<1> DEFINE n == event.event
           mm == <<"mpp.metering">>
           m == <<"metering">>
           mu == <<"mpp.usage">>
           u == <<"usage">>
           d == <<"done">>
           g == <<"message">>
<1>1. /\ {mm, m} \cap {mu, u, d, g} = {} /\ {mu, u} \cap {d, g} = {} /\ d # g
  BY NamesDiffer
<1>2. Absent \notin {mm, m, mu, u, d} /\ Names = {mm, m, mu, u, d}
  BY DEF Names
<1> HIDE DEF mm, m, mu, u, d, g
<1>3. CASE n \in {mm, m}
  <2>1. n \notin {mu, u, d, g, Absent} /\ n \in Names
    BY <1>1, <1>2, <1>3
  <2>2. KindOf(event) = "metering"
    BY <1>3, <2>1, Zenon DEF KindOf, mm, m, mu, u, d, g
  <2> QED BY <2>1, <2>2 DEF mm, m, mu, u, d, g
<1>4. CASE n \in {mu, u}
  <2>1. n \notin {mm, m, d, g, Absent} /\ n \in Names
    BY <1>1, <1>2, <1>4
  <2>2. KindOf(event) = "usage"
    BY <1>4, <2>1, Zenon DEF KindOf, mm, m, mu, u, d, g
  <2> QED BY <2>1, <2>2 DEF mm, m, mu, u, d, g
<1>5. CASE n = d
  <2>1. n \notin {mm, m, mu, u, g, Absent} /\ n \in Names
    BY <1>1, <1>2, <1>5
  <2>2. KindOf(event) = "done"
    BY <1>5, <2>1, Zenon DEF KindOf, mm, m, mu, u, d, g
  <2> QED BY <2>1, <2>2 DEF mm, m, mu, u, d, g
<1>6. CASE n \in {Absent, g}
  <2>1. n \notin {mm, m, mu, u, d}
    BY <1>1, <1>2, <1>6
  <2>2. KindOf(event) = IF event.data = <<"[DONE]">> THEN "done" ELSE "message"
    BY <1>6, <2>1, Zenon DEF KindOf, mm, m, mu, u, d, g
  <2> QED BY <1>6, <2>1, <2>2 DEF mm, m, mu, u, d, g
<1>7. CASE n \notin {mm, m, mu, u, d} \cup {Absent, g}
  <2>1. KindOf(event) = "other"
    BY <1>7, Zenon DEF KindOf, mm, m, mu, u, d, g
  <2> QED BY <1>7, <2>1 DEF mm, m, mu, u, d, g
<1> QED BY <1>3, <1>4, <1>5, <1>6, <1>7

LEMMA HeardKind ==
  ASSUME Absent \notin Names, NEW e, IsEvent(e), e.kind # "bare", NEW h, IsHeard(e, h),
         h # NoEvent
  PROVE  /\ KindOf(h) = Sense(e)
         /\ Sense(e) \in {"metering", "usage", "message"} => Parsed(h.data) = Said(e)
<1> DEFINE ofData(names) == e.field = "data:" /\ e.name \in names
           told == Joined(e)
           mm == <<"mpp.metering">>
           m == <<"metering">>
           mu == <<"mpp.usage">>
           u == <<"usage">>
           d == <<"done">>
           g == <<"message">>
           stop == <<"[DONE]">>
<1>1. /\ h.event = IF e.name = <<>> THEN Absent ELSE e.name
      /\ e.field = "data:" => h.data = told
      /\ e.name = <<>> /\ Dataless(e) /\ ~SetsField(e) => h = NoEvent
  <2>1. h.event = Named(e).event
    BY DEF IsHeard
  <2>2. Named(e).event = IF e.name = <<>> THEN Absent ELSE e.name
    BY DEF Named
  <2>3. ASSUME e.name = <<>>, Dataless(e), ~SetsField(e)
        PROVE  h = NoEvent
    <3>1. h.event = Absent /\ h.data = <<>> /\ h.id = Absent /\ h.retry = Absent
      BY <2>1, <2>2, <2>3 DEF IsHeard, Dataless
    <3>2. h = [event |-> h.event, data |-> h.data, id |-> h.id, retry |-> h.retry]
      BY DEF IsHeard
    <3> QED BY <3>1, <3>2, Zenon DEF NoEvent
  <2> QED BY <2>1, <2>2, <2>3 DEF IsHeard
<1>2. Parsed(told) = Said(e) /\ e.name # Absent
  BY DEF IsEvent
<1>3. /\ <<>> \notin {mm, m, mu, u, d, g} /\ Names = {mm, m, mu, u, d}
  BY DEF Names
<1>4. IsOfKind(e)
  BY DEF IsEvent
<1>5. /\ h.event \in {mm, m} => KindOf(h) = "metering"
      /\ h.event \in {mu, u} => KindOf(h) = "usage"
      /\ h.event = d => KindOf(h) = "done"
      /\ h.event \in {Absent, g} => KindOf(h) = IF h.data = stop THEN "done" ELSE "message"
      /\ h.event \notin Names \cup {Absent, g} => KindOf(h) = "other"
  BY KindNames
<1> DEFINE spoken == ofData({<<>>, g}) /\ told \notin {<<>>, stop}
<1>6. /\ e.kind = "metering" => ofData({mm, m})
      /\ e.kind = "usage" => ofData({mu, u})
      /\ e.kind \in {"message", "garbled"} => spoken
      /\ e.kind = "done" => e.name = d \/ (ofData({<<>>, g}) /\ told = stop)
      /\ e.kind \notin {"metering", "usage", "message", "garbled", "done"} =>
           \/ e.name = <<>> /\ Dataless(e) /\ ~SetsField(e)
           \/ e.name \notin Names \cup {<<>>, g}
  <2>1. e.kind = "metering" => ofData({mm, m})
    BY <1>4 DEF IsOfKind
  <2>2. e.kind = "usage" => ofData({mu, u})
    BY <1>4 DEF IsOfKind
  <2>3. e.kind \in {"message", "garbled"} => spoken
    BY <1>4 DEF IsOfKind
  <2>4. ASSUME e.kind = "done"
        PROVE  e.name = d \/ (ofData({<<>>, g}) /\ told = stop)
    <3>1. /\ e.kind # "metering" /\ e.kind # "usage" /\ e.kind # "message"
          /\ e.kind # "garbled"
      BY <2>4
    <3>2. \/ e.name = <<"done">>
          \/ (e.field = "data:" /\ e.name \in {<<>>, <<"message">>}) /\ Joined(e) = <<"[DONE]">>
      BY <1>4, <2>4, <3>1 DEF IsOfKind
    <3> QED BY <3>2
  <2>5. e.kind \notin {"metering", "usage", "message", "garbled", "done"} =>
           \/ e.name = <<>> /\ Dataless(e) /\ ~SetsField(e)
           \/ e.name \notin Names \cup {<<>>, g}
    BY <1>4 DEF IsOfKind
  <2> QED BY <2>1, <2>2, <2>3, <2>4, <2>5
<1> HIDE DEF told, mm, m, mu, u, d, g, stop
<1>7. CASE e.kind = "metering"
  <2>1. ofData({mm, m}) /\ h.event \in {mm, m}
    BY <1>1, <1>3, <1>6, <1>7
  <2> QED BY <1>1, <1>2, <1>5, <1>7, <2>1 DEF Sense
<1>8. CASE e.kind = "usage"
  <2>1. ofData({mu, u}) /\ h.event \in {mu, u}
    BY <1>1, <1>3, <1>6, <1>8
  <2> QED BY <1>1, <1>2, <1>5, <1>8, <2>1 DEF Sense
<1>9. CASE e.kind \in {"message", "garbled"}
  <2>1. spoken /\ h.event \in {Absent, g} /\ h.data = told
    BY <1>1, <1>3, <1>6, <1>9
  <2> QED BY <1>2, <1>5, <1>9, <2>1 DEF Sense
<1>10. CASE e.kind = "done"
  <2>1. KindOf(h) = "done"
    <3>1. CASE e.name = d
      <4>1. h.event = d
        BY <1>1, <1>3, <3>1
      <4> QED BY <1>5, <4>1
    <3>2. CASE ofData({<<>>, g}) /\ told = stop
      <4>1. h.event \in {Absent, g} /\ h.data = stop
        BY <1>1, <1>3, <3>2
      <4> QED BY <1>5, <4>1
    <3> QED BY <1>6, <1>10, <3>1, <3>2
  <2> QED BY <1>10, <2>1 DEF Sense
<1>11. CASE e.kind \notin {"metering", "usage", "message", "garbled", "done"}
  <2>1. e.name \notin Names \cup {<<>>, g} /\ h.event = e.name
    BY <1>1, <1>6, <1>11
  <2>2. KindOf(h) = "other"
    BY <1>2, <1>5, <2>1
  <2> QED BY <1>11, <2>2 DEF Sense
<1> QED BY <1>7, <1>8, <1>9, <1>10, <1>11

\* A frame without data that is dispatched is refused: the empty text is no JSON.
LEMMA BareRefused ==
  ASSUME Absent \notin Names, NEW e, IsEvent(e), e.kind = "bare", NEW h, IsHeard(e, h), NEW s
  PROVE  ~Accepts(s, h)
<1> DEFINE mm == <<"mpp.metering">>
           m == <<"metering">>
           mu == <<"mpp.usage">>
           u == <<"usage">>
           d == <<"done">>
           g == <<"message">>
<1>1. Dataless(e) /\ (e.name = <<>> \/ e.name \in {mm, m, mu, u, g})
  <2>1. IsOfKind(e)
    BY DEF IsEvent
  <2>2. /\ Dataless(e)
        /\ \/ e.name = <<>> /\ SetsField(e)
           \/ e.name \in (Names \ {<<"done">>}) \cup {<<"message">>}
    BY <2>1 DEF IsOfKind
  <2> QED BY <2>2 DEF Names
<1>2. h.data = <<>> /\ h.event = IF e.name = <<>> THEN Absent ELSE e.name
  BY <1>1 DEF IsHeard, Dataless, Named
<1>3. h.event \in {Absent, mm, m, mu, u, g}
  BY <1>1, <1>2
<1>4. /\ h.event \in {mm, m} => KindOf(h) = "metering"
      /\ h.event \in {mu, u} => KindOf(h) = "usage"
      /\ h.event \in {Absent, g} => KindOf(h) = IF h.data = <<"[DONE]">> THEN "done" ELSE "message"
  BY KindNames
<1>5. h.data # <<"[DONE]">>
  BY <1>2
<1>6. KindOf(h) \in {"metering", "usage", "message"}
  <2> HIDE DEF mm, m, mu, u, g
  <2> QED BY <1>3, <1>4, <1>5
<1>7. Parsed(h.data).kind \notin {"directive", "usage", "message"}
  BY <1>2, StreamAssumption DEF ScriptsAreStreams
<1> QED BY <1>6, <1>7 DEF Accepts

LEMMA UnheardKind ==
  ASSUME NEW e, IsEvent(e), IsHeard(e, NoEvent)
  PROVE  Sense(e) = "other"
<1>1. NoEvent.event = Absent /\ NoEvent.data = <<>>
  BY DEF NoEvent
<1>2. e.name = <<>> /\ (e.field = "data:" => Joined(e) = <<>>)
  <2>1. Named(e).event = IF e.name = <<>> THEN Absent ELSE e.name
    BY DEF Named
  <2> QED BY <1>1, <2>1 DEF IsHeard, IsEvent
<1>3. <<>> \notin {<<"mpp.metering">>, <<"metering">>, <<"mpp.usage">>, <<"usage">>, <<"done">>,
                  <<"[DONE]">>}
  OBVIOUS
<1>4. IsOfKind(e)
  BY DEF IsEvent
<1>5. e.kind \notin {"metering", "usage", "message", "garbled", "done"}
  BY <1>2, <1>3, <1>4 DEF IsOfKind
<1> QED BY <1>5, Zenon DEF Sense

\* The events of a kind among the first i.
Latest(events, i, kind) == {k \in 1..i : events[k].kind = kind}

LastSaid(events, i, kind) ==
  IF Latest(events, i, kind) = {} THEN Absent ELSE Said(events[Max(Latest(events, i, kind))])

LastUsed(events, i) ==
  IF Latest(events, i, "usage") = {} THEN Absent
  ELSE Said(events[Max(Latest(events, i, "usage"))]).amount

\* What the first i events of a script make of the state.
Means(s, events, i) ==
  /\ s.directive = LastSaid(events, i, "metering")
  /\ s.final_amount = LastUsed(events, i)
  /\ s.done = (Latest(events, i, "done") # {})

LEMMA LatestStep ==
  ASSUME NEW events, NEW i \in Nat \ {0}, NEW kind
  PROVE  /\ events[i].kind = kind =>
              Latest(events, i, kind) # {} /\ Max(Latest(events, i, kind)) = i
         /\ events[i].kind # kind => Latest(events, i, kind) = Latest(events, i - 1, kind)
<1>1. ASSUME events[i].kind = kind
      PROVE  Latest(events, i, kind) # {} /\ Max(Latest(events, i, kind)) = i
  <2> DEFINE s == Latest(events, i, kind)
  <2>1. i \in s /\ s \in SUBSET (1..i) /\ s # {}
    BY <1>1 DEF Latest
  <2> HIDE DEF s
  <2>2. i \in Nat
    OBVIOUS
  <2>3. Max(s) \in s /\ \A y \in s : Max(s) >= y
    BY <2>1, <2>2, MaxIn, Zenon
  <2>4. Max(s) = i
    <3> DEFINE x == Max(s)
    <3>1. x \in 1..i /\ x >= i
      BY <2>1, <2>3
    <3> HIDE DEF x
    <3>2. x = i
      BY <3>1
    <3> QED BY <3>2 DEF x
  <2> QED BY <2>1, <2>4 DEF s
<1>2. ASSUME events[i].kind # kind
      PROVE  Latest(events, i, kind) = Latest(events, i - 1, kind)
  <2>1. ASSUME NEW k
        PROVE  k \in Latest(events, i, kind) <=> k \in Latest(events, i - 1, kind)
    <3>1. k \in 1..i /\ k # i <=> k \in 1..(i - 1)
      OBVIOUS
    <3> QED BY <1>2, <3>1 DEF Latest
  <2> QED BY <2>1 DEF Latest
<1> QED BY <1>1, <1>2

LEMMA LastStep ==
  ASSUME NEW events, NEW i \in Nat \ {0}, NEW kind
  PROVE  /\ LastSaid(events, i, kind) =
              IF events[i].kind = kind THEN Said(events[i]) ELSE LastSaid(events, i - 1, kind)
         /\ LastUsed(events, i) =
              IF events[i].kind = "usage" THEN Said(events[i]).amount
              ELSE LastUsed(events, i - 1)
<1>1. /\ events[i].kind = kind =>
           Latest(events, i, kind) # {} /\ Max(Latest(events, i, kind)) = i
      /\ events[i].kind # kind => Latest(events, i, kind) = Latest(events, i - 1, kind)
  BY LatestStep
<1>2. /\ events[i].kind = "usage" =>
           Latest(events, i, "usage") # {} /\ Max(Latest(events, i, "usage")) = i
      /\ events[i].kind # "usage" => Latest(events, i, "usage") = Latest(events, i - 1, "usage")
  BY LatestStep
<1>3. LastSaid(events, i, kind) =
        IF events[i].kind = kind THEN Said(events[i]) ELSE LastSaid(events, i - 1, kind)
  BY <1>1 DEF LastSaid
<1>4. LastUsed(events, i) =
        IF events[i].kind = "usage" THEN Said(events[i]).amount ELSE LastUsed(events, i - 1)
  BY <1>2 DEF LastUsed
<1> QED BY <1>3, <1>4

LEMMA StateFields ==
  ASSUME NEW D, NEW F, NEW s \in [directive : D, final_amount : F, done : BOOLEAN], NEW x
  PROVE  /\ [s EXCEPT !.directive = x].directive = x
         /\ [s EXCEPT !.directive = x].final_amount = s.final_amount
         /\ [s EXCEPT !.directive = x].done = s.done
         /\ [s EXCEPT !.final_amount = x].final_amount = x
         /\ [s EXCEPT !.final_amount = x].directive = s.directive
         /\ [s EXCEPT !.final_amount = x].done = s.done
         /\ [s EXCEPT !.done = x].done = x
         /\ [s EXCEPT !.done = x].directive = s.directive
         /\ [s EXCEPT !.done = x].final_amount = s.final_amount
         /\ s.done \in BOOLEAN
  OBVIOUS

Takes(E, s, events, i, h) ==
  /\ s \in States(E) /\ i \in Nat \ {0} /\ Means(s, events, i - 1)
  /\ IsEvent(events[i]) /\ IsHeard(events[i], h) /\ h # NoEvent /\ Accepts(s, h)

\* An event that is taken changes the state and the messages as it says.
LEMMA EventTaken ==
  ASSUME Absent \notin Names, NEW E, NEW s, NEW m, NEW events, NEW i, NEW h,
         Takes(E, s, events, i, h)
  PROVE  Means(Changed(s, h), events, i) /\ Heard(m, h) = Told(m, events[i])
<1> USE DEF Takes
<1> DEFINE e == events[i]
           json == Parsed(h.data)
           t == Changed(s, h)
<1>1. /\ KindOf(h) = Sense(e)
      /\ Sense(e) \in {"metering", "usage", "message"} => json = Said(e)
  BY HeardKind, BareRefused
<1>2. /\ LastSaid(events, i, "metering") =
           IF e.kind = "metering" THEN Said(e) ELSE LastSaid(events, i - 1, "metering")
      /\ LastUsed(events, i) =
           IF e.kind = "usage" THEN Said(e).amount ELSE LastUsed(events, i - 1)
  BY LastStep
<1>3. (Latest(events, i, "done") # {}) = (e.kind = "done" \/ Latest(events, i - 1, "done") # {})
  BY LatestStep
<1>4. /\ s.directive = LastSaid(events, i - 1, "metering")
      /\ s.final_amount = LastUsed(events, i - 1)
      /\ s.done = (Latest(events, i - 1, "done") # {})
  BY DEF Means
<1>5. e.kind = "garbled" => Said(e).kind # "message"
  BY DEF IsEvent, IsOfKind
<1>6. KindOf(h) = "message" => json.kind = "message"
  BY DEF Accepts
<1> DEFINE dir(x) == [s EXCEPT !.directive = x]
           amt(x) == [s EXCEPT !.final_amount = x]
           end(x) == [s EXCEPT !.done = x]
<1>7. ASSUME NEW x
      PROVE  /\ dir(x).directive = x /\ dir(x).final_amount = s.final_amount
             /\ dir(x).done = s.done
             /\ amt(x).final_amount = x /\ amt(x).directive = s.directive
             /\ amt(x).done = s.done
             /\ end(x).done = x /\ end(x).directive = s.directive
             /\ end(x).final_amount = s.final_amount
  BY StateFields DEF States
<1>8. /\ KindOf(h) = "metering" => t = dir(json)
      /\ KindOf(h) = "usage" => t = amt(json.amount)
      /\ KindOf(h) = "done" => t = end(TRUE)
      /\ KindOf(h) \notin {"metering", "usage", "done"} => t = s
  BY DEF Changed
<1>9. /\ KindOf(h) = "message" => Heard(m, h) = Append(m, json.text)
      /\ KindOf(h) # "message" => Heard(m, h) = m
      /\ e.kind = "message" => Told(m, e) = Append(m, Said(e).text)
      /\ e.kind # "message" => Told(m, e) = m
  BY DEF Heard, Told
<1>10. Means(t, events, i) <=>
         /\ t.directive = LastSaid(events, i, "metering")
         /\ t.final_amount = LastUsed(events, i)
         /\ t.done = (Latest(events, i, "done") # {})
  BY DEF Means
<1> HIDE DEF e, json, t, dir, amt, end
<1>11. CASE e.kind = "metering"
  <2>1. KindOf(h) = "metering" /\ json = Said(e)
    BY <1>1, <1>11 DEF Sense
  <2>2. t.directive = Said(e) /\ t.final_amount = s.final_amount /\ t.done = s.done
    BY <1>7, <1>8, <2>1
  <2>3. Means(t, events, i)
    BY <1>2, <1>3, <1>4, <1>10, <1>11, <2>2
  <2> QED BY <1>9, <1>11, <2>1, <2>3 DEF e, t
<1>12. CASE e.kind = "usage"
  <2>1. KindOf(h) = "usage" /\ json = Said(e)
    BY <1>1, <1>12 DEF Sense
  <2>2. t.directive = s.directive /\ t.final_amount = Said(e).amount /\ t.done = s.done
    BY <1>7, <1>8, <2>1
  <2>3. Means(t, events, i)
    BY <1>2, <1>3, <1>4, <1>10, <1>12, <2>2
  <2> QED BY <1>9, <1>12, <2>1, <2>3 DEF e, t
<1>13. CASE e.kind \in {"message", "garbled"}
  <2>1. KindOf(h) = "message" /\ json = Said(e)
    BY <1>1, <1>13 DEF Sense
  <2>2. e.kind = "message"
    BY <1>5, <1>6, <1>13, <2>1 DEF e
  <2>3. t = s
    BY <1>8, <2>1
  <2>4. Means(t, events, i)
    BY <1>2, <1>3, <1>4, <1>10, <2>2, <2>3
  <2> QED BY <1>9, <2>1, <2>2, <2>4 DEF e, t
<1>14. CASE e.kind = "done"
  <2>1. KindOf(h) = "done"
    BY <1>1, <1>14 DEF Sense
  <2>2. t.directive = s.directive /\ t.final_amount = s.final_amount /\ t.done = TRUE
    BY <1>7, <1>8, <2>1
  <2>3. Means(t, events, i)
    BY <1>2, <1>3, <1>4, <1>10, <1>14, <2>2
  <2> QED BY <1>9, <1>14, <2>1, <2>3 DEF e, t
<1>15. CASE e.kind \notin {"metering", "usage", "message", "garbled", "done"}
  <2>1. KindOf(h) = "other"
    BY <1>1, <1>15 DEF Sense
  <2>2. t = s
    BY <1>8, <2>1
  <2>3. Means(t, events, i)
    BY <1>2, <1>3, <1>4, <1>10, <1>15, <2>2
  <2> QED BY <1>9, <1>15, <2>1, <2>3 DEF e, t
<1> QED BY <1>11, <1>12, <1>13, <1>14, <1>15

\* An event of which nothing is heard says nothing.
LEMMA EventUnheard ==
  ASSUME NEW s, NEW m, NEW events, NEW i \in Nat \ {0}, IsEvent(events[i]),
         IsHeard(events[i], NoEvent), Means(s, events, i - 1)
  PROVE  Means(s, events, i) /\ Told(m, events[i]) = m
<1>1. events[i].kind \notin {"metering", "usage", "message", "done"}
  <2>1. Sense(events[i]) = "other"
    BY UnheardKind
  <2> QED BY <2>1 DEF Sense
<1>2. /\ LastSaid(events, i, "metering") = LastSaid(events, i - 1, "metering")
      /\ LastUsed(events, i) = LastUsed(events, i - 1)
      /\ Latest(events, i, "done") = Latest(events, i - 1, "done")
  BY <1>1, LastStep, LatestStep
<1> QED BY <1>1, <1>2 DEF Means, Told

\* A well-formed event with data is taken.
LEMMA EventAccepted ==
  ASSUME Absent \notin Names, NEW s, NEW e, IsEvent(e), e.wellformed, e.kind # "bare",
         e.kind = "usage" /\ s.directive # Absent => Said(e).delivery_id = s.directive.delivery_id,
         NEW h, IsHeard(e, h), h # NoEvent
  PROVE  Accepts(s, h)
<1>1. SaysItsKind(e)
  BY DEF IsEvent
<1>2. /\ e.kind # "garbled"
      /\ e.kind = "metering" => Said(e).kind = "directive"
      /\ e.kind = "usage" => Said(e).kind = "usage"
      /\ e.kind = "message" => Said(e).kind = "message"
  BY <1>1 DEF SaysItsKind
<1>3. /\ KindOf(h) = Sense(e)
      /\ Sense(e) \in {"metering", "usage", "message"} => Parsed(h.data) = Said(e)
  BY HeardKind
<1>4. CASE e.kind = "metering"
  <2>1. KindOf(h) = "metering" /\ Parsed(h.data) = Said(e)
    BY <1>3, <1>4 DEF Sense
  <2> QED BY <1>2, <1>4, <2>1 DEF Accepts
<1>5. CASE e.kind = "usage"
  <2>1. KindOf(h) = "usage" /\ Parsed(h.data) = Said(e)
    BY <1>3, <1>5 DEF Sense
  <2> QED BY <1>2, <1>5, <2>1 DEF Accepts, UsageMatches
<1>6. CASE e.kind = "message"
  <2>1. KindOf(h) = "message" /\ Parsed(h.data) = Said(e)
    BY <1>3, <1>6 DEF Sense
  <2> QED BY <1>2, <1>6, <2>1 DEF Accepts
<1>7. CASE e.kind \notin {"metering", "usage", "message"}
  <2>1. KindOf(h) \notin {"metering", "usage", "message"}
    BY <1>2, <1>3, <1>7 DEF Sense
  <2> QED BY <2>1 DEF Accepts
<1> QED BY <1>4, <1>5, <1>6, <1>7

\* The last directive said is that of an event before.
LEMMA SaidBefore ==
  ASSUME NEW events, NEW i \in Nat, LastSaid(events, i, "metering") # Absent
  PROVE  \E k \in 1..i : /\ events[k].kind = "metering"
                         /\ LastSaid(events, i, "metering") = Said(events[k])
<1> DEFINE s == Latest(events, i, "metering")
           k == Max(s)
<1>1. s # {} /\ LastSaid(events, i, "metering") = Said(events[k])
  BY DEF LastSaid
<1>2. s \in SUBSET (1..i)
  BY DEF Latest
<1>3. k \in s
  <2> HIDE DEF s
  <2> QED BY <1>1, <1>2, MaxIn, Zenon
<1>4. k \in 1..i /\ events[k].kind = "metering"
  BY <1>3 DEF Latest
<1> HIDE DEF k
<1> QED BY <1>1, <1>4

LEMMA UsedBefore ==
  ASSUME NEW events, NEW i \in Nat, LastUsed(events, i) # Absent
  PROVE  \E u \in 1..i : /\ events[u].kind = "usage"
                         /\ LastUsed(events, i) = Said(events[u]).amount
<1> DEFINE s == Latest(events, i, "usage")
           u == Max(s)
<1>1. s # {} /\ LastUsed(events, i) = Said(events[u]).amount
  BY DEF LastUsed
<1>2. s \in SUBSET (1..i)
  BY DEF Latest
<1>3. u \in s
  <2> HIDE DEF s
  <2> QED BY <1>1, <1>2, MaxIn, Zenon
<1>4. u \in 1..i /\ events[u].kind = "usage"
  BY <1>3 DEF Latest
<1> HIDE DEF u
<1> QED BY <1>1, <1>4

\* The usage kept is of the delivery announced, or came before its announcement.
Paired(s, events, i) ==
  s.directive # Absent /\ s.final_amount # Absent =>
    \E u, k \in 1..i :
      /\ events[u].kind = "usage" /\ Said(events[u]).amount = s.final_amount
      /\ events[k].kind = "metering"
      /\ u < k \/ Said(events[u]).delivery_id = Said(events[k]).delivery_id

LEMMA PairedOn ==
  ASSUME NEW s, NEW t, NEW events, NEW i \in Nat \ {0}, Paired(s, events, i - 1),
         t.directive = s.directive, t.final_amount = s.final_amount
  PROVE  Paired(t, events, i)
<1>1. \A u \in 1..(i - 1) : u \in 1..i
  OBVIOUS
<1> QED BY <1>1 DEF Paired

LEMMA EventPaired ==
  ASSUME Absent \notin Names, NEW E, NEW s, NEW events, NEW i, NEW h,
         Takes(E, s, events, i, h), Paired(s, events, i - 1)
  PROVE  Paired(Changed(s, h), events, i)
<1> DEFINE e == events[i]
           json == Parsed(h.data)
           t == Changed(s, h)
           dir(x) == [s EXCEPT !.directive = x]
           amt(x) == [s EXCEPT !.final_amount = x]
           end(x) == [s EXCEPT !.done = x]
           pair(u, k) ==
             /\ events[u].kind = "usage" /\ Said(events[u]).amount = t.final_amount
             /\ events[k].kind = "metering"
             /\ u < k \/ Said(events[u]).delivery_id = Said(events[k]).delivery_id
<1> USE DEF Takes
<1>1. /\ KindOf(h) = Sense(e)
      /\ Sense(e) \in {"metering", "usage", "message"} => json = Said(e)
  BY HeardKind, BareRefused
<1>2. i \in Nat \ {0} /\ i - 1 \in Nat /\ i \in 1..i /\ \A u \in 1..(i - 1) : u \in 1..i /\ u < i
  OBVIOUS
<1>3. /\ s.directive = LastSaid(events, i - 1, "metering")
      /\ s.final_amount = LastUsed(events, i - 1)
  BY DEF Means
<1>4. ASSUME NEW x
      PROVE  /\ dir(x).directive = x /\ dir(x).final_amount = s.final_amount
             /\ amt(x).final_amount = x /\ amt(x).directive = s.directive
             /\ end(x).directive = s.directive /\ end(x).final_amount = s.final_amount
  BY StateFields DEF States
<1>5. /\ KindOf(h) = "metering" => t = dir(json)
      /\ KindOf(h) = "usage" => t = amt(json.amount)
      /\ KindOf(h) = "done" => t = end(TRUE)
      /\ KindOf(h) \notin {"metering", "usage", "done"} => t = s
  BY DEF Changed
<1>6. KindOf(h) = "usage" => UsageMatches(s, json)
  BY DEF Accepts
<1>7. /\ KindOf(h) = "metering" <=> e.kind = "metering"
      /\ KindOf(h) = "usage" <=> e.kind = "usage"
  BY <1>1 DEF Sense
<1> HIDE DEF json, t, dir, amt, end
<1>8. CASE KindOf(h) = "metering"
  <2> SUFFICES ASSUME t.directive # Absent, t.final_amount # Absent
               PROVE  \E u, k \in 1..i : pair(u, k)
    BY DEF Paired, t
  <2>1. t.final_amount = s.final_amount
    BY <1>4, <1>5, <1>8
  <2>2. PICK u \in 1..(i - 1) : /\ events[u].kind = "usage"
                                /\ LastUsed(events, i - 1) = Said(events[u]).amount
    BY <1>2, <1>3, <2>1, UsedBefore
  <2>3. pair(u, i)
    BY <1>2, <1>3, <1>7, <1>8, <2>1, <2>2
  <2> QED BY <1>2, <2>3
<1>9. CASE KindOf(h) = "usage"
  <2> SUFFICES ASSUME t.directive # Absent, t.final_amount # Absent
               PROVE  \E u, k \in 1..i : pair(u, k)
    BY DEF Paired, t
  <2>1. t.directive = s.directive /\ t.final_amount = json.amount
    BY <1>4, <1>5, <1>9
  <2>2. PICK k \in 1..(i - 1) : /\ events[k].kind = "metering"
                                /\ LastSaid(events, i - 1, "metering") = Said(events[k])
    BY <1>2, <1>3, <2>1, SaidBefore
  <2>3. json = Said(e)
    BY <1>1, <1>9
  <2>4. Said(e).delivery_id = Said(events[k]).delivery_id
    BY <1>3, <1>6, <1>9, <2>1, <2>2, <2>3 DEF UsageMatches
  <2>5. pair(i, k)
    BY <1>2, <1>7, <1>9, <2>1, <2>2, <2>3, <2>4
  <2> QED BY <1>2, <2>5
<1>10. CASE KindOf(h) \notin {"metering", "usage"}
  <2>1. t.directive = s.directive /\ t.final_amount = s.final_amount
    <3>1. CASE KindOf(h) = "done"
      BY <1>4, <1>5, <3>1
    <3>2. CASE KindOf(h) # "done"
      BY <1>5, <1>10, <3>2
    <3> QED BY <3>1, <3>2
  <2>2. i \in Nat \ {0} /\ Paired(s, events, i - 1)
    BY <1>2
  <2>3. Paired(t, events, i)
    BY <2>1, <2>2, PairedOn
  <2> QED BY <2>3 DEF t
<1> QED BY <1>8, <1>9, <1>10 DEF t

WellFormed(events) ==
  \A i \in DOMAIN events : events[i].wellformed /\ events[i].kind # "bare"

UsagesMatch(events) ==
  WellFormed(events) =>
    \A i, j \in DOMAIN events :
      j < i /\ events[j].kind = "metering" /\ events[i].kind = "usage" =>
        Said(events[i]).delivery_id = Said(events[j]).delivery_id

\* What the state is after the first j events, if none failed.
Understands(events, E, M, j, b) ==
  \/ \E s \in States(E), m \in Seq(Texts(E)) : b = Bad(s, m) /\ ~WellFormed(events)
  \/ \E s \in States(E) : /\ b = Good(s, M[j]) /\ M[j] \in Seq(Texts(E))
                         /\ Means(s, events, j) /\ Paired(s, events, j)

Start == Good(FreshState, <<>>)

LEMMA StartTyped ==
  ASSUME NEW E
  PROVE  /\ FreshState \in States(E) /\ <<>> \in Seq(Texts(E)) /\ Start \in Results(E)
         /\ \A events : Means(FreshState, events, 0) /\ Paired(FreshState, events, 0)
<1>1. FreshState \in States(E)
  BY DEF FreshState, States
<1>2. <<>> \in Seq(Texts(E))
  OBVIOUS
<1>3. Start \in Results(E)
  BY <1>1, <1>2, ResultTyped DEF Start
<1>4. ASSUME NEW events
      PROVE  Means(FreshState, events, 0) /\ Paired(FreshState, events, 0)
  <2>1. \A kind : Latest(events, 0, kind) = {}
    BY DEF Latest
  <2> QED BY <2>1 DEF Means, Paired, LastSaid, LastUsed, FreshState
<1> QED BY <1>1, <1>2, <1>3, <1>4

\* One more event of which something is heard.
LEMMA UnderstandsNext ==
  ASSUME Absent \notin Names, NEW events, DOMAIN events = 1..Len(events), Len(events) \in Nat,
         UsagesMatch(events), NEW E, NEW M, NEW i \in 1..Len(events),
         M[i] = Told(M[i - 1], events[i]),
         IsEvent(events[i]), NEW h \in E, IsHeard(events[i], h), h # NoEvent,
         NEW b, Understands(events, E, M, i - 1, b)
  PROVE  Understands(events, E, M, i, ApplyEvent(b, h))
<1> DEFINE c == ApplyEvent(b, h)
<1>1. ASSUME NEW s \in States(E), NEW m \in Seq(Texts(E)), b = Bad(s, m), ~WellFormed(events)
      PROVE  Understands(events, E, M, i, c)
  <2>1. c = Bad(s, m)
    BY <1>1, ApplyStops
  <2> HIDE DEF c
  <2> QED BY <1>1, <2>1 DEF Understands
<1>2. ASSUME NEW s \in States(E), b = Good(s, M[i - 1]), M[i - 1] \in Seq(Texts(E)),
             Means(s, events, i - 1), Paired(s, events, i - 1)
      PROVE  Understands(events, E, M, i, c)
  <2> DEFINE m == M[i - 1]
  <2>1. c = IF Accepts(s, h) THEN Good(Changed(s, h), Heard(m, h)) ELSE Bad(s, m)
    BY <1>2, ApplyIs
  <2>2. i \in Nat \ {0} /\ i - 1 \in Nat /\ i \in DOMAIN events
    OBVIOUS
  <2>3. m \in Seq(Texts(E))
    BY <1>2
  <2> HIDE DEF c, m
  <2>4. CASE Accepts(s, h)
    <3>1. /\ Means(Changed(s, h), events, i) /\ Heard(m, h) = Told(m, events[i])
          /\ Paired(Changed(s, h), events, i)
      <4>1. Takes(E, s, events, i, h)
        BY <1>2, <2>2, <2>4 DEF Takes
      <4>2. Means(Changed(s, h), events, i) /\ Heard(m, h) = Told(m, events[i])
        BY <4>1, EventTaken
      <4>3. Paired(Changed(s, h), events, i)
        BY <1>2, <4>1, EventPaired
      <4> QED BY <4>2, <4>3
    <3>2. Changed(s, h) \in States(E) /\ Heard(m, h) \in Seq(Texts(E))
      BY <2>3, ChangedTyped
    <3>3. M[i] = Heard(m, h)
      BY <3>1 DEF m
    <3> QED BY <2>1, <2>4, <3>1, <3>2, <3>3 DEF Understands
  <2>5. CASE ~Accepts(s, h)
    <3>1. ASSUME WellFormed(events) PROVE FALSE
      <4>1. events[i].wellformed /\ events[i].kind # "bare"
        BY <2>2, <3>1 DEF WellFormed
      <4>2. ASSUME events[i].kind = "usage", s.directive # Absent
            PROVE  Said(events[i]).delivery_id = s.directive.delivery_id
        <5>1. s.directive = LastSaid(events, i - 1, "metering")
          BY <1>2 DEF Means
        <5>2. PICK k \in 1..(i - 1) :
                /\ events[k].kind = "metering"
                /\ LastSaid(events, i - 1, "metering") = Said(events[k])
          BY <2>2, <4>2, <5>1, SaidBefore
        <5>3. k \in DOMAIN events /\ k < i
          BY <2>2
        <5>4. Said(events[i]).delivery_id = Said(events[k]).delivery_id
          BY <2>2, <3>1, <4>2, <5>2, <5>3 DEF UsagesMatch
        <5> QED BY <5>1, <5>2, <5>4
      <4> QED BY <2>5, <4>1, <4>2, EventAccepted
    <3>2. c = Bad(s, m)
      BY <2>1, <2>5
    <3> QED BY <2>3, <3>1, <3>2 DEF Understands
  <2> QED BY <2>4, <2>5 DEF c
<1> QED BY <1>1, <1>2 DEF Understands

LEMMA UnderstandsOn ==
  ASSUME NEW events, NEW E, NEW M, NEW i \in Nat \ {0}, M[i] = Told(M[i - 1], events[i]),
         IsEvent(events[i]), IsHeard(events[i], NoEvent),
         NEW b, Understands(events, E, M, i - 1, b)
  PROVE  Understands(events, E, M, i, b)
<1>1. ASSUME NEW s, Means(s, events, i - 1), Paired(s, events, i - 1)
      PROVE  Means(s, events, i) /\ M[i] = M[i - 1] /\ Paired(s, events, i)
  <2>1. Means(s, events, i) /\ M[i] = M[i - 1]
    BY <1>1, EventUnheard
  <2> QED BY <1>1, <2>1, PairedOn
<1> QED BY <1>1 DEF Understands

LEMMA ScriptMeans ==
  ASSUME Absent \notin Names, NEW events, IsScript(events), UsagesMatch(events), NEW eol,
         NEW H, Hears(events, eol, H),
         NEW Q, Joins(Q, Spokens(H, Len(events)), Len(events)),
         NEW M, Tells(M, events, Len(events)),
         NEW j \in 0..Len(events), NEW b, Applies(Start, Q[j], b)
  PROVE  Understands(events, Pieces(Letters(events)), M, j, b)
<1> DEFINE n == Len(events)
           E == Pieces(Letters(events))
           T == {i \in Nat : i \in 0..n =>
                   \E c \in Results(E) : Applies(Start, Q[i], c) /\ Understands(events, E, M, i, c)}
<1>1. n \in Nat /\ DOMAIN events = 1..n /\ \A i \in 1..n : IsEvent(events[i])
  BY DEF IsScript
<1>2. \A i \in 0..n : Q[i] \in Seq(E)
  BY <1>1, SpokenTyped
<1>3. Q[0] = <<>> /\ \A i \in 1..n : Q[i] = Q[i - 1] \o Spoken(H[i])
  BY DEF Joins, Spokens
<1>4. \A i \in 1..n : H[i] \in E /\ IsHeard(events[i], H[i])
  BY DEF Hears
<1>5. M[0] = <<>> /\ \A i \in 1..n : M[i] = Told(M[i - 1], events[i])
  BY DEF Tells
<1> HIDE DEF n, E
<1>6. 0 \in T
  <2>1. Applies(Start, Q[0], Start)
    BY <1>3, AppliesNothing
  <2>2. FreshState \in States(E) /\ <<>> \in Seq(Texts(E))
        /\ Means(FreshState, events, 0) /\ Paired(FreshState, events, 0)
    BY StartTyped
  <2>3. Start = Good(FreshState, M[0]) /\ M[0] \in Seq(Texts(E))
    BY <1>5, <2>2 DEF Start
  <2>4. Start \in Results(E) /\ Understands(events, E, M, 0, Start)
    BY <2>2, <2>3, StartTyped DEF Understands
  <2> QED BY <2>1, <2>4
<1>7. ASSUME NEW i \in 1..n, i - 1 \in T
      PROVE  i \in T
  <2>1. i - 1 \in 0..n /\ i \in Nat \ {0} /\ i \in Nat /\ i \in 1..Len(events)
    BY <1>1 DEF n
  <2>2. PICK c \in Results(E) :
          Applies(Start, Q[i - 1], c) /\ Understands(events, E, M, i - 1, c)
    BY <1>7, <2>1
  <2> DEFINE h == H[i]
             q == Q[i - 1]
  <2>3. h \in E /\ IsHeard(events[i], h) /\ IsEvent(events[i])
    BY <1>1, <1>4
  <2>4. M[i] = Told(M[i - 1], events[i])
    BY <1>5
  <2>5. Q[i] = q \o Spoken(h) /\ q \in Seq(E)
    BY <1>2, <1>3, <2>1
  <2>6. CASE h = NoEvent
    <3>1. Q[i] = q
      BY <2>5, <2>6 DEF Spoken
    <3>2. IsHeard(events[i], NoEvent)
      BY <2>3, <2>6
    <3>3. Understands(events, E, M, i, c)
      BY <2>1, <2>2, <2>3, <2>4, <3>2, UnderstandsOn
    <3> QED BY <2>1, <2>2, <3>1, <3>3
  <2>7. CASE h # NoEvent
    <3> DEFINE d == ApplyEvent(c, h)
    <3> HIDE DEF h, q
    <3>1. Q[i] = Append(q, h)
      BY <2>5, <2>7 DEF Spoken
    <3>2. Applies(Start, Append(q, h), d)
      BY <2>2, <2>3, <2>5, AppliesOn1 DEF q
    <3>3. d \in Results(E)
      BY <2>2, <2>3, ApplyTyped
    <3>4. Understands(events, E, M, i, d)
      BY <1>1, <2>1, <2>2, <2>3, <2>4, <2>7, UnderstandsNext DEF n
    <3> HIDE DEF d
    <3> QED BY <2>1, <3>1, <3>2, <3>3, <3>4
  <2> QED BY <2>6, <2>7
<1> HIDE DEF T
<1>8. j \in T
  <2>1. \A i \in 0..n : i \in T
    BY <1>1, <1>6, <1>7, PrefixSets
  <2> QED BY <2>1 DEF n
<1>9. PICK c \in Results(E) : Applies(Start, Q[j], c) /\ Understands(events, E, M, j, c)
  BY <1>8 DEF T, n
<1>10. b = c
  <2>1. Q[j] \in Seq(E)
    BY <1>2 DEF n
  <2>2. Len(Q[j]) \in Nat
    BY <2>1
  <2> QED BY <1>9, <2>2, AppliesAlone
<1> QED BY <1>9, <1>10 DEF E

-----------------------------------------------------------------------------
(* What a script says, by its first events. *)

LEMMA FirstEvents ==
  ASSUME NEW S, NEW s \in Seq(S), NEW j \in 0..Len(s)
  PROVE  /\ SubSeq(s, 1, j) \in Seq(S) /\ Len(SubSeq(s, 1, j)) = j
         /\ \A k \in 1..j : SubSeq(s, 1, j)[k] = s[k]
         /\ SubSeq(s, 1, Len(s)) = s
  OBVIOUS

LEMMA MessagesOfFirst ==
  ASSUME NEW S, NEW events \in Seq(S), NEW M, Tells(M, events, Len(events)),
         NEW j \in 0..Len(events)
  PROVE  Messages(SubSeq(events, 1, j)) = M[j]
<1> DEFINE sub == SubSeq(events, 1, j)
<1>1. sub \in Seq(S) /\ Len(sub) = j /\ \A k \in 1..j : sub[k] = events[k]
  BY FirstEvents
<1>2. j \in Nat /\ \A k \in 1..j : k \in 1..Len(events)
  OBVIOUS
<1> HIDE DEF sub
<1>3. PICK P : Tells(P, sub, j) /\ P[j] = Messages(sub)
  BY <1>1, MessagesTell
<1> DEFINE T == {k \in Nat : k \in 0..j => P[k] = M[k]}
<1>4. 0 \in T
  BY <1>3 DEF Tells
<1>5. ASSUME NEW k \in 1..j, k - 1 \in T
      PROVE  k \in T
  <2>1. k - 1 \in 0..j /\ k \in Nat
    BY <1>2
  <2>2. P[k - 1] = M[k - 1]
    BY <1>5, <2>1
  <2>3. P[k] = Told(P[k - 1], sub[k])
    BY <1>3 DEF Tells
  <2>4. M[k] = Told(M[k - 1], events[k])
    BY <1>2 DEF Tells
  <2>5. sub[k] = events[k]
    BY <1>1
  <2> QED BY <2>1, <2>2, <2>3, <2>4, <2>5
<1> HIDE DEF T
<1>6. j \in T
  <2>1. \A k \in 0..j : k \in T
    BY <1>2, <1>4, <1>5, PrefixSets
  <2> QED BY <1>2, <2>1
<1>7. P[j] = M[j]
  BY <1>2, <1>6 DEF T
<1> QED BY <1>3, <1>7 DEF sub

LEMMA TellsTyped ==
  ASSUME NEW S, NEW events \in Seq(S), NEW M, Tells(M, events, Len(events))
  PROVE  \A j \in 0..Len(events) : M[j] \in Seq(Sayings(S))
<1> DEFINE n == Len(events)
           W == Seq(Sayings(S))
           T == {k \in Nat : k \in 0..n => M[k] \in W}
<1>1. n \in Nat /\ \A k \in 1..n : events[k] \in S
  OBVIOUS
<1>2. 0 \in T
  <2>1. <<>> \in W
    OBVIOUS
  <2> HIDE DEF W
  <2> QED BY <2>1 DEF Tells
<1>3. ASSUME NEW k \in 1..n, k - 1 \in T
      PROVE  k \in T
  <2>1. k - 1 \in 0..n /\ k \in Nat
    BY <1>1
  <2> DEFINE m == M[k - 1]
  <2>2. m \in W
    BY <1>3, <2>1
  <2>3. M[k] = Told(m, events[k])
    BY DEF Tells
  <2>4. Said(events[k]).text \in Sayings(S)
    BY <1>1 DEF Sayings
  <2> HIDE DEF m
  <2>5. Append(m, Said(events[k]).text) \in W
    BY <2>2, <2>4
  <2> QED BY <2>1, <2>2, <2>3, <2>5 DEF Told
<1> HIDE DEF T, W
<1>4. \A k \in 0..n : k \in T
  BY <1>1, <1>2, <1>3, PrefixSets
<1> QED BY <1>1, <1>4 DEF T, W

\* What was told before is in front of what is told now.
LEMMA TellsGrow ==
  ASSUME NEW S, NEW events \in Seq(S), NEW M, Tells(M, events, Len(events)),
         NEW j \in 0..Len(events), NEW i \in 0..j
  PROVE  IsPrefix(M[i], M[j])
<1> DEFINE n == Len(events)
           W == Sayings(S)
           T == {k \in Nat : k \in 0..n => \A l \in 0..k : Extends(M[l], M[k])}
<1>1. n \in Nat
  OBVIOUS
<1>2. \A k \in 0..n : M[k] \in Seq(W)
  BY TellsTyped
<1>3. \A s \in Seq(W) : Extends(s, s)
  BY DEF Extends
<1> HIDE DEF W
<1>4. 0 \in T
  BY <1>1, <1>2, <1>3
<1>5. ASSUME NEW k \in 1..n, k - 1 \in T
      PROVE  k \in T
  <2>1. k - 1 \in 0..n /\ k \in Nat /\ k \in 0..n
    BY <1>1
  <2> DEFINE m == M[k - 1]
             r == M[k]
  <2>2. m \in Seq(W) /\ r \in Seq(W)
    BY <1>2, <2>1
  <2>3. \A l \in 0..(k - 1) : Extends(M[l], m)
    BY <1>5, <2>1
  <2>4. r = Told(m, events[k])
    BY DEF Tells
  <2> HIDE DEF m, r
  <2>5. \A x : Len(Append(m, x)) = Len(m) + 1 /\ \A y \in 1..Len(m) : Append(m, x)[y] = m[y]
    BY <2>2
  <2>6. Len(m) \in Nat
    BY <2>2
  <2>7. Extends(m, r)
    <3>1. CASE r = m
      BY <1>3, <2>2, <3>1
    <3>2. CASE r = Append(m, Said(events[k]).text)
      BY <2>5, <2>6, <3>2 DEF Extends
    <3> QED BY <2>4, <3>1, <3>2 DEF Told
  <2>8. ASSUME NEW l \in 0..k
        PROVE  Extends(M[l], r)
    <3>1. CASE l = k
      BY <1>3, <2>2, <3>1 DEF r
    <3>2. CASE l # k
      <4>1. l \in 0..(k - 1) /\ l \in 0..n
        BY <1>1, <3>2
      <4> DEFINE p == M[l]
      <4>2. p \in Seq(W) /\ Extends(p, m)
        BY <1>2, <2>3, <4>1
      <4> HIDE DEF p
      <4>3. Len(p) \in Nat /\ Len(r) \in Nat
        BY <2>2, <4>2
      <4>4. Len(p) <= Len(r) /\ \A y \in 1..Len(p) : y \in 1..Len(m)
        BY <2>6, <2>7, <4>2, <4>3 DEF Extends
      <4>5. Extends(p, r)
        BY <2>7, <4>2, <4>4 DEF Extends
      <4> QED BY <4>5 DEF p
    <3> QED BY <3>1, <3>2
  <2> QED BY <2>1, <2>8 DEF r
<1> HIDE DEF T
<1>6. j \in T
  <2>1. \A k \in 0..n : k \in T
    BY <1>1, <1>4, <1>5, PrefixSets
  <2> QED BY <2>1
<1>7. Extends(M[i], M[j])
  BY <1>6 DEF T
<1> DEFINE s == M[i]
           t == M[j]
<1>8. s \in Seq(W) /\ t \in Seq(W) /\ Extends(s, t)
  BY <1>1, <1>2, <1>7
<1> HIDE DEF s, t
<1>9. SubSeq(s, 1, Len(s)) = s
  BY <1>8
<1>10. SubSeq(t, 1, Len(s)) = s
  <2>1. Len(s) \in 0..Len(t)
    BY <1>8 DEF Extends
  <2> DEFINE u == SubSeq(t, 1, Len(s))
  <2>2. u \in Seq(W) /\ Len(u) = Len(s) /\ \A k \in 1..Len(s) : u[k] = t[k]
    BY <1>8, <2>1, FirstEvents
  <2> HIDE DEF u
  <2>3. \A k \in 1..Len(u) : u[k] = s[k]
    BY <1>8, <2>2 DEF Extends
  <2>4. u = s
    BY <1>8, <2>2, <2>3, SameSequence
  <2> QED BY <2>4 DEF u
<1>11. IsPrefix(s, t)
  BY <1>8, <1>9, <1>10 DEF IsPrefix, Extends
<1> QED BY <1>11 DEF s, t

\* The end marker counted, or all of the script.
LEMMA UpToDoneIs ==
  ASSUME NEW S, NEW events \in Seq(S)
  PROVE  \E k \in 0..Len(events) :
           /\ UpToDone(events) = SubSeq(events, 1, k) /\ Len(UpToDone(events)) = k
           /\ \A j \in 0..Len(events) : Latest(events, j, "done") # {} => k <= j
<1> DEFINE n == Len(events)
           marks == {i \in 1..n : events[i].kind = "done"}
           k == CHOOSE i \in marks : \A j \in marks : i <= j
<1>1. n \in Nat /\ SubSeq(events, 1, n) = events
  OBVIOUS
<1>2. UpToDone(events) = IF marks = {} THEN events ELSE SubSeq(events, 1, k)
  BY Zenon DEF UpToDone
<1>3. \A j \in 0..n : \A i \in Latest(events, j, "done") : i \in marks /\ i <= j
  BY <1>1 DEF Latest
<1>4. marks \in SUBSET Nat /\ marks \subseteq 1..n
  BY <1>1
<1> HIDE DEF marks, n
<1>5. CASE marks = {}
  <2>1. UpToDone(events) = SubSeq(events, 1, n) /\ Len(UpToDone(events)) = n
    BY <1>1, <1>2, <1>5 DEF n
  <2>2. \A j \in 0..n : ~(Latest(events, j, "done") # {})
    BY <1>3, <1>5
  <2>3. n \in 0..n
    BY <1>1
  <2> QED BY <2>1, <2>2, <2>3 DEF n
<1>6. CASE marks # {}
  <2>1. k \in marks /\ \A j \in marks : k <= j
    <3>1. k = Min(marks)
      BY Zenon DEF Min
    <3> HIDE DEF k
    <3> QED BY <1>4, <1>6, <3>1, MinIn
  <2> HIDE DEF k
  <2>2. k \in 1..n /\ k \in 0..n
    BY <1>1, <1>4, <2>1
  <2>3. UpToDone(events) = SubSeq(events, 1, k)
    BY <1>2, <1>6
  <2>4. Len(UpToDone(events)) = k
    BY <2>2, <2>3, FirstEvents DEF n
  <2>5. ASSUME NEW j \in 0..n, Latest(events, j, "done") # {}
        PROVE  k <= j
    <3>1. PICK i \in Latest(events, j, "done") : TRUE
      BY <2>5
    <3>2. i \in marks /\ i <= j
      BY <1>3, <3>1
    <3>3. k <= i /\ i \in Nat /\ k \in Nat
      BY <1>4, <2>1, <3>2
    <3> QED BY <3>2, <3>3
  <2> QED BY <2>2, <2>3, <2>4, <2>5 DEF n
<1> QED BY <1>5, <1>6

\* The amounts of the first events.
LEMMA AmountsOfFirst ==
  ASSUME NEW S, NEW events \in Seq(S), NEW j \in 0..Len(events)
  PROVE  /\ LastAmount(SubSeq(events, 1, j), "usage") = LastUsed(events, j)
         /\ LastSaid(events, j, "metering") # Absent =>
              LastAmount(SubSeq(events, 1, j), "metering") = LastSaid(events, j, "metering").amount
<1> DEFINE sub == SubSeq(events, 1, j)
<1>1. Len(sub) = j /\ \A k \in 1..j : sub[k] = events[k]
  BY FirstEvents
<1> HIDE DEF sub
<1>2. j \in Nat
  OBVIOUS
<1>3. ASSUME NEW kind
      PROVE  LastAmount(sub, kind) = IF Latest(events, j, kind) = {} THEN Absent
                                     ELSE Said(events[Max(Latest(events, j, kind))]).amount
  <2> DEFINE own == {i \in 1..Len(sub) : sub[i].kind = kind}
             last == Latest(events, j, kind)
  <2>1. own = last
    BY <1>1 DEF Latest
  <2>2. LastAmount(sub, kind) = IF own = {} THEN Absent ELSE Said(sub[Max(own)]).amount
    BY Zenon DEF LastAmount
  <2>3. last \in SUBSET (1..j)
    BY DEF Latest
  <2> HIDE DEF own, last
  <2>4. last # {} => Max(last) \in 1..j
    <3>1. last # {} => Max(last) \in last
      BY <1>2, <2>3, MaxIn, Zenon
    <3> QED BY <2>3, <3>1
  <2> QED BY <1>1, <2>1, <2>2, <2>4 DEF last
<1>4. LastAmount(sub, "usage") = LastUsed(events, j)
  BY <1>3 DEF LastUsed
<1>5. LastSaid(events, j, "metering") # Absent =>
        LastAmount(sub, "metering") = LastSaid(events, j, "metering").amount
  BY <1>3 DEF LastSaid
<1> QED BY <1>4, <1>5 DEF sub

-----------------------------------------------------------------------------
(* The client part of the way through a stream. *)

\* The decoder after the atoms before.
Reaches(events, eol, before, after, d) ==
  /\ IsLineEnd(eol) /\ before \in Seq(Letters(events)) /\ after \in Seq(Letters(events))
  /\ Render(events, eol) = before \o after /\ Runs(At(NoEvent, <<>>), before, d)

IsStream(events) ==
  /\ Absent \notin Names /\ IsScript(events) /\ UsagesMatch(events)
  /\ events \in Seq(Range(events))

LEMMA ReachedMeans ==
  ASSUME NEW events, IsStream(events), NEW eol, NEW before, NEW after, NEW d,
         Reaches(events, eol, before, after, d)
  PROVE  \E M : /\ Tells(M, events, Len(events))
                /\ \A b : Applies(Start, d.events, b) =>
                     \E j \in 0..Len(events) :
                       Understands(events, Pieces(Letters(events)), M, j, b)
                /\ after = <<>> =>
                     /\ d.buffer = <<>>
                     /\ \A b : Applies(Start, d.events \o Spoken(d.current), b) =>
                          Understands(events, Pieces(Letters(events)), M, Len(events), b)
<1> DEFINE n == Len(events)
           A == Letters(events)
           E == Pieces(A)
<1>1. n \in Nat /\ DOMAIN events = 1..n /\ \A i \in DOMAIN events : IsEvent(events[i])
  BY DEF IsStream, IsScript
<1>2. PICK H : Hears(events, eol, H)
  BY <1>1, ScriptHeard DEF Reaches
<1>3. PICK Q : Joins(Q, Spokens(H, n), n)
  BY <1>1, JoinsSomewhere
<1>4. PICK M : Tells(M, events, n)
  BY MessagesTell DEF IsStream
<1>5. /\ d \in Decoders(A) /\ \E j \in 0..n : Q[j] = d.events
      /\ after = <<>> => d.buffer = <<>> /\ Dispatch(d) = At(NoEvent, Q[n])
  BY <1>2, <1>3, MidwayRuns DEF IsStream, Reaches
<1>6. ASSUME NEW j \in 0..n, NEW b, Applies(Start, Q[j], b)
      PROVE  Understands(events, E, M, j, b)
  BY <1>2, <1>3, <1>4, <1>6, ScriptMeans DEF IsStream
<1> HIDE DEF n, A, E
<1>7. ASSUME NEW b, Applies(Start, d.events, b)
      PROVE  \E j \in 0..n : Understands(events, E, M, j, b)
  <2>1. PICK j \in 0..n : Q[j] = d.events
    BY <1>5
  <2>2. Applies(Start, Q[j], b)
    BY <1>7, <2>1
  <2> QED BY <1>6, <2>2
<1>8. ASSUME after = <<>>
      PROVE  /\ d.buffer = <<>>
             /\ \A b : Applies(Start, d.events \o Spoken(d.current), b) =>
                  Understands(events, E, M, n, b)
  <2>1. d.buffer = <<>> /\ Dispatch(d) = At(NoEvent, Q[n])
    BY <1>5, <1>8
  <2>2. d = At(d.current, d.events)
    BY <1>5, <2>1, FieldsAre DEF At
  <2>3. d.current \in Pieces(A) /\ d.events \in Seq(Pieces(A))
    BY <1>5, FieldsOf
  <2>4. Dispatch(d) = At(NoEvent, d.events \o Spoken(d.current))
    BY <2>2, <2>3, DispatchAt
  <2>5. \A x : At(NoEvent, x).events = x
    BY DEF At
  <2>6. d.events \o Spoken(d.current) = Q[n]
    BY <2>1, <2>4, <2>5
  <2>7. n \in 0..n
    BY <1>1
  <2> QED BY <1>6, <2>1, <2>6, <2>7
<1> QED BY <1>4, <1>7, <1>8 DEF n, A, E

\* The client's decoder and state after the atoms before, on the way to after.
Follows(eol, before, after, d) ==
  LET E == Pieces(Letters(script)) IN
    /\ Reaches(script, eol, before, after, d)
    /\ d.buffer = buffer /\ d.current = current
    /\ state \in States(E) /\ seen \in Seq(Texts(E)) /\ pending \in Seq(Texts(E))
    /\ Applies(Start, d.events, Good(state, seen \o pending))

\* The outcome of some events on the result a of those before.
Outcome(E, a, events, applied) ==
  \/ \E s \in States(E), p \in Seq(Texts(E)) :
       applied = Good(s, p) /\ Applies(a, events, Good(s, seen \o p))
  \/ \E s \in States(E), p \in Seq(Texts(E)) :
       applied = Bad(s, p) /\ Applies(a, events, Bad(s, seen \o p))

\* More events on what was understood before.
LEMMA MoreEvents ==
  ASSUME NEW E, state \in States(E), seen \in Seq(Texts(E)),
         NEW old \in Seq(E), Applies(Start, old, Good(state, seen)), NEW new \in Seq(E)
  PROVE  Outcome(E, Start, old \o new, Apply(new))
<1> DEFINE fresh == Good(state, <<>>)
           applied == Apply(new)
<1>1. fresh \in Results(E)
  <2>1. <<>> \in Seq(Texts(E))
    OBVIOUS
  <2> QED BY <2>1, ResultTyped
<1>2. applied = FoldLeft(ApplyEvent, fresh, new)
  BY Zenon DEF Apply, Good
<1>3. Applies(fresh, new, applied)
  BY <1>1, <1>2, EventsApply
<1> HIDE DEF applied
<1>4. applied \in Results(E)
  BY <1>1, <1>3, AppliesTyped
<1>5. Applies(After(seen, fresh), new, After(seen, applied))
  BY <1>1, <1>3, AppliesAfter
<1>6. After(seen, fresh) = Good(state, seen)
  <2>1. seen \o <<>> = seen
    OBVIOUS
  <2>2. After(seen, Good(state, <<>>)) = Good(state, seen \o <<>>)
    BY AfterIs
  <2> QED BY <2>1, <2>2
<1>7. Applies(Start, old \o new, After(seen, applied))
  BY <1>5, <1>6, AppliesOn
<1>8. PICK s \in States(E), p \in Seq(Texts(E)) : applied = Good(s, p) \/ applied = Bad(s, p)
  BY <1>4, ResultsAre
<1>9. After(seen, Good(s, p)) = Good(s, seen \o p) /\ After(seen, Bad(s, p)) = Bad(s, seen \o p)
  BY AfterIs
<1>10. CASE applied = Good(s, p)
  BY <1>7, <1>8, <1>9, <1>10 DEF Outcome, applied
<1>11. CASE applied = Bad(s, p)
  BY <1>7, <1>8, <1>9, <1>11 DEF Outcome, applied
<1> QED BY <1>8, <1>10, <1>11

LEMMA FollowsTyped ==
  ASSUME NEW eol, NEW before, NEW after, NEW d, Follows(eol, before, after, d)
  PROVE  /\ d \in Decoders(Letters(script)) /\ d.events \in Seq(Pieces(Letters(script)))
         /\ current \in Pieces(Letters(script)) /\ buffer \in Seq(Letters(script))
<1> DEFINE A == Letters(script)
           start == At(NoEvent, <<>>)
<1>1. start \in Decoders(A)
  <2>1. NoEvent \in Pieces(A) /\ <<>> \in Seq(Pieces(A))
    BY NoEventIsPiece
  <2> HIDE DEF A
  <2> QED BY <2>1, AtTyped
<1>2. "LF" \in A
  BY DEF Letters
<1>3. before \in Seq(A) /\ Runs(start, before, d) /\ d.buffer = buffer /\ d.current = current
  BY DEF Follows, Reaches
<1> HIDE DEF A, start
<1>4. d \in Decoders(A)
  BY <1>1, <1>2, <1>3, RunsTyped
<1>5. d.events \in Seq(Pieces(A)) /\ d.current \in Pieces(A) /\ d.buffer \in Seq(A)
  BY <1>4, FieldsOf
<1> QED BY <1>3, <1>4, <1>5 DEF A

\* A chunk is read: the decoder goes on where it was.
LEMMA ChunkRead ==
  ASSUME NEW eol, NEW before, NEW after, NEW d, Follows(eol, before, after, d), pending = <<>>,
         NEW chunk \in Seq(Letters(script)), NEW left \in Seq(Letters(script)),
         after = chunk \o left
  PROVE  \E e : /\ Reaches(script, eol, before \o chunk, left, e)
                /\ e.buffer = PushChunk(chunk).buffer /\ e.current = PushChunk(chunk).current
                /\ Outcome(Pieces(Letters(script)), Start, e.events,
                           Apply(PushChunk(chunk).events))
<1> DEFINE A == Letters(script)
           E == Pieces(A)
           f == [buffer |-> buffer, current |-> current, events |-> <<>>]
           g == PushChunk(chunk)
           e == Having(d.events, g)
<1>1. /\ Reaches(script, eol, before, after, d) /\ d.buffer = buffer /\ d.current = current
      /\ state \in States(E) /\ seen \in Seq(Texts(E))
      /\ Applies(Start, d.events, Good(state, seen \o <<>>))
  BY DEF Follows
<1>2. /\ d \in Decoders(A) /\ d.events \in Seq(E) /\ current \in E /\ buffer \in Seq(A)
      /\ "LF" \in A
  BY FollowsTyped DEF Letters
<1>3. g = FoldLeft(PushAtom, f, chunk)
  BY Zenon DEF PushChunk
<1>4. f \in Decoders(A) /\ f.events = <<>>
  <2> DEFINE B == Seq(A)
             W == Seq(E)
  <2>1. buffer \in B /\ current \in E /\ <<>> \in W
    BY <1>2
  <2> HIDE DEF B, W, E
  <2>2. f \in [buffer : B, current : E, events : W]
    BY <2>1
  <2> QED BY <2>2, Zenon DEF Decoders, B, W, E
<1>5. Having(d.events, f) = d
  <2>1. d = [buffer |-> d.buffer, current |-> d.current, events |-> d.events]
    BY <1>2, FieldsAre
  <2>2. d.events \o <<>> = d.events
    BY <1>2
  <2>3. Having(d.events, f) = [buffer |-> buffer, current |-> current, events |-> d.events]
    BY <2>2 DEF Having
  <2> QED BY <1>1, <2>1, <2>3
<1>6. chunk \in Seq(A) /\ left \in Seq(A)
  OBVIOUS
<1> HIDE DEF A, E, f, g
<1>7. Runs(f, chunk, g)
  BY <1>2, <1>3, <1>4, <1>6, ChunkRuns
<1>8. Runs(d, chunk, e)
  <2>1. Runs(Having(d.events, f), chunk, Having(d.events, g))
    BY <1>2, <1>4, <1>6, <1>7, RunsHaving DEF E
  <2> QED BY <1>5, <2>1
<1>9. g \in Decoders(A)
  BY <1>2, <1>4, <1>6, <1>7, RunsTyped
<1>10. g.events \in Seq(E)
  BY <1>9, FieldsOf DEF E
<1>11. e.buffer = g.buffer /\ e.current = g.current /\ e.events = d.events \o g.events
  BY DEF Having
<1>12. Reaches(script, eol, before \o chunk, left, e)
  <2>1. before \in Seq(A) /\ Runs(At(NoEvent, <<>>), before, d)
    BY <1>1 DEF Reaches, A
  <2>2. Runs(At(NoEvent, <<>>), before \o chunk, e)
    BY <1>6, <1>8, <2>1, RunsOn
  <2>3. before \o chunk \in Seq(A) /\ before \o (chunk \o left) = (before \o chunk) \o left
    BY <1>6, <2>1
  <2>4. Render(script, eol) = before \o (chunk \o left) /\ IsLineEnd(eol)
    BY <1>1 DEF Reaches
  <2> HIDE DEF e
  <2> QED BY <1>6, <2>2, <2>3, <2>4 DEF Reaches, A
<1>13. Outcome(E, Start, d.events \o g.events, Apply(g.events))
  <2>1. seen \o <<>> = seen
    BY <1>1
  <2>2. Applies(Start, d.events, Good(state, seen))
    BY <1>1, <2>1
  <2> QED BY <1>1, <1>2, <1>10, <2>2, MoreEvents
<1>14. Outcome(E, Start, e.events, Apply(g.events))
  BY <1>11, <1>13
<1> HIDE DEF e
<1> QED BY <1>11, <1>12, <1>14 DEF g, E, A

\* The end of the body is read.
LEMMA EndRead ==
  ASSUME NEW eol, NEW before, NEW d, Follows(eol, before, <<>>, d), pending = <<>>,
         d.buffer = <<>>
  PROVE  /\ Finish.current = NoEvent /\ Finish.events = Spoken(current)
         /\ Outcome(Pieces(Letters(script)), Start, d.events \o Spoken(d.current),
                    Apply(Finish.events))
<1> DEFINE A == Letters(script)
           E == Pieces(A)
<1>1. /\ d.buffer = buffer /\ d.current = current
      /\ state \in States(E) /\ seen \in Seq(Texts(E))
      /\ Applies(Start, d.events, Good(state, seen \o <<>>))
  BY DEF Follows
<1>2. d.events \in Seq(E) /\ current \in E
  BY FollowsTyped
<1>3. <<>> \in Seq(E)
  OBVIOUS
<1> HIDE DEF A, E
<1>4. Finish = Dispatch(At(current, <<>>))
  <2>1. buffer = <<>>
    BY <1>1
  <2> QED BY <2>1, Zenon DEF Finish, At
<1>5. Finish = At(NoEvent, <<>> \o Spoken(current))
  BY <1>2, <1>3, <1>4, DispatchAt DEF E
<1>6. Spoken(current) \in Seq(E)
  BY <1>2 DEF Spoken
<1>7. <<>> \o Spoken(current) = Spoken(current)
  BY <1>6
<1>8. Finish.current = NoEvent /\ Finish.events = Spoken(current)
  BY <1>5, <1>7 DEF At
<1>9. Outcome(E, Start, d.events \o Spoken(current), Apply(Spoken(current)))
  <2>1. seen \o <<>> = seen
    BY <1>1
  <2>2. Applies(Start, d.events, Good(state, seen))
    BY <1>1, <2>1
  <2> QED BY <1>1, <1>2, <1>6, <2>2, MoreEvents
<1> QED BY <1>1, <1>8, <1>9 DEF E, A

-----------------------------------------------------------------------------
(* The invariant. *)

Midway == \E eol, before, d : Follows(eol, before, rest, d)

\* The stream was read to its end.
Ended ==
  /\ state.done
  /\ state.directive = LastSaid(script, Len(script), "metering")
  /\ state.final_amount = LastUsed(script, Len(script))
  /\ Paired(state, script, Len(script))
  /\ \E T : seen \in Seq(T) /\ pending \in Seq(T)
  /\ seen \o pending = Messages(script)

PaidIsOwed ==
  outcome \notin {Absent, Refused} =>
    state.done /\ state.directive # Absent /\ outcome = AmountForCommit(state)

StreamInv ==
  /\ script \in Scripts
  /\ ~failed => (Midway \/ Ended) /\ PaidIsOwed

LEMMA ScriptsAre ==
  ASSUME NEW events \in Scripts
  PROVE  IsStream(events) /\ \A eol \in LineEnds : IsLineEnd(eol)
<1>1. Absent \notin Names /\ LineEnds \subseteq {<<"LF">>, <<"CR", "LF">>}
  BY StreamAssumption DEF ScriptsAreStreams
<1>2. events \in Seq(Range(events))
  BY StreamAssumption DEF ScriptsAreStreams
<1>3. \A i \in DOMAIN events : IsEvent(events[i]) /\ (events[i].closed \/ i = Len(events))
  BY StreamAssumption DEF ScriptsAreStreams
<1>4. UsagesMatch(events)
  BY StreamAssumption DEF ScriptsAreStreams, UsagesMatch, WellFormed
<1>5. IsScript(events)
  BY <1>2, <1>3 DEF IsScript
<1> QED BY <1>1, <1>2, <1>4, <1>5 DEF IsStream, IsLineEnd

\* Whatever was read so far, the state is what some first events of the script
\* mean, the end marker among them when the stream is done.
Understood(j) ==
  /\ state.directive = LastSaid(script, j, "metering")
  /\ state.final_amount = LastUsed(script, j)
  /\ Paired(state, script, j)
  /\ seen \o pending = Messages(SubSeq(script, 1, j))
  /\ state.done => Len(UpToDone(script)) <= j

LEMMA GoodIsNotBad ==
  ASSUME NEW s, NEW m, NEW t, NEW n
  PROVE  /\ Good(s, m) # Bad(t, n)
         /\ Good(s, m) = Good(t, n) => s = t /\ m = n
         /\ Good(s, m).ok /\ Good(s, m).state = s /\ Good(s, m).messages = m
         /\ ~Bad(s, m).ok /\ Bad(s, m).state = s /\ Bad(s, m).messages = m
  BY DEF Good, Bad

LEMMA UnderstandsIs ==
  ASSUME NEW events, NEW E, NEW M, NEW j, NEW s, NEW m
  PROVE  /\ Understands(events, E, M, j, Good(s, m)) =>
              m = M[j] /\ Means(s, events, j) /\ Paired(s, events, j)
         /\ Understands(events, E, M, j, Bad(s, m)) => ~WellFormed(events)
<1>1. ASSUME NEW t, NEW n
      PROVE  /\ Good(s, m) # Bad(t, n) /\ Bad(s, m) # Good(t, n)
             /\ Good(s, m) = Good(t, n) => s = t /\ m = n
  BY GoodIsNotBad
<1>2. ASSUME Understands(events, E, M, j, Good(s, m))
      PROVE  m = M[j] /\ Means(s, events, j) /\ Paired(s, events, j)
  <2>1. PICK t \in States(E) :
          Good(s, m) = Good(t, M[j]) /\ Means(t, events, j) /\ Paired(t, events, j)
    BY <1>1, <1>2 DEF Understands
  <2> QED BY <1>1, <2>1
<1>3. ASSUME Understands(events, E, M, j, Bad(s, m))
      PROVE  ~WellFormed(events)
  BY <1>1, <1>3 DEF Understands
<1> QED BY <1>2, <1>3

LEMMA Understanding ==
  ASSUME script \in Scripts, Midway \/ Ended
  PROVE  \E j \in 0..Len(script) : Understood(j)
<1> DEFINE n == Len(script)
           E == Pieces(Letters(script))
<1>1. IsStream(script)
  BY ScriptsAre
<1>2. script \in Seq(Range(script)) /\ n \in Nat
  BY <1>1 DEF IsStream
<1>3. PICK k \in 0..n : /\ UpToDone(script) = SubSeq(script, 1, k) /\ Len(UpToDone(script)) = k
                        /\ \A j \in 0..n : Latest(script, j, "done") # {} => k <= j
  BY <1>2, UpToDoneIs
<1>4. CASE Ended
  <2>1. SubSeq(script, 1, n) = script /\ n \in 0..n /\ Len(UpToDone(script)) <= n
    BY <1>2, <1>3
  <2>2. Understood(n)
    BY <1>4, <2>1 DEF Ended, Understood
  <2> QED BY <2>1, <2>2
<1>5. CASE Midway
  <2>1. PICK eol, before, d : Follows(eol, before, rest, d)
    BY <1>5 DEF Midway
  <2>2. Reaches(script, eol, before, rest, d) /\ Applies(Start, d.events, Good(state, seen \o pending))
    BY <2>1 DEF Follows
  <2>3. PICK M : /\ Tells(M, script, n)
                 /\ \A b : Applies(Start, d.events, b) =>
                      \E j \in 0..n : Understands(script, E, M, j, b)
    BY <1>1, <2>2, ReachedMeans
  <2>4. PICK j \in 0..n : Understands(script, E, M, j, Good(state, seen \o pending))
    BY <2>2, <2>3
  <2>5. seen \o pending = M[j] /\ Means(state, script, j) /\ Paired(state, script, j)
    BY <2>4, UnderstandsIs
  <2>6. M[j] = Messages(SubSeq(script, 1, j))
    BY <1>2, <2>3, MessagesOfFirst
  <2>7. state.done => Len(UpToDone(script)) <= j
    <3>1. state.done = (Latest(script, j, "done") # {})
      BY <2>5 DEF Means
    <3> HAVE state.done
    <3>2. Latest(script, j, "done") # {}
      BY <3>1
    <3> QED BY <1>3, <3>2
  <2>8. Understood(j)
    BY <2>5, <2>6, <2>7 DEF Understood, Means
  <2> QED BY <2>8
<1> QED BY <1>4, <1>5

LEMMA StreamStarts ==
  StreamInit => StreamInv
<1> SUFFICES ASSUME StreamInit PROVE StreamInv
  OBVIOUS
<1> DEFINE A == Letters(script)
           E == Pieces(A)
           start == At(NoEvent, <<>>)
<1>1. PICK eol \in LineEnds : rest = Render(script, eol)
  BY DEF StreamInit
<1>2. /\ script \in Scripts /\ buffer = <<>> /\ current = NoEvent /\ state = FreshState
      /\ pending = <<>> /\ seen = <<>> /\ outcome = Absent
  BY DEF StreamInit
<1>3. IsStream(script) /\ IsLineEnd(eol)
  BY <1>2, ScriptsAre
<1>4. rest \in Seq(A)
  <2>1. IsScript(script)
    BY <1>3 DEF IsStream
  <2>2. Len(script) \in Nat /\ DOMAIN script = 1..Len(script)
        /\ \A i \in DOMAIN script : IsEvent(script[i])
    BY <2>1 DEF IsScript
  <2>3. PICK H : Hears(script, eol, H)
    BY <1>3, <2>2, ScriptHeard
  <2>4. PICK Q : Joins(Q, Spokens(H, Len(script)), Len(script))
    BY <2>2, JoinsSomewhere
  <2> QED BY <1>1, <1>3, <2>1, <2>3, <2>4, ScriptRuns
<1> HIDE DEF A
<1>5. <<>> \in Seq(A) /\ <<>> \o rest = rest /\ Runs(start, <<>>, start)
  BY <1>4, RunsNowhere
<1>6. Reaches(script, eol, <<>>, rest, start)
  BY <1>1, <1>3, <1>4, <1>5 DEF Reaches, A
<1>7. FreshState \in States(E) /\ <<>> \in Seq(Texts(E))
  BY StartTyped
<1>8. Applies(Start, <<>>, Good(FreshState, <<>> \o <<>>))
  <2>1. <<>> \o <<>> = <<>>
    OBVIOUS
  <2> QED BY <2>1, AppliesNothing DEF Start
<1>9. start.buffer = <<>> /\ start.current = NoEvent /\ start.events = <<>>
  BY DEF At
<1> HIDE DEF start
<1>10. Follows(eol, <<>>, rest, start)
  BY <1>2, <1>6, <1>7, <1>8, <1>9 DEF Follows, E, A
<1> QED BY <1>2, <1>10 DEF StreamInv, Midway, PaidIsOwed

LEMMA Cut ==
  ASSUME NEW S, NEW s \in Seq(S), NEW n \in 1..Len(s)
  PROVE  /\ SubSeq(s, 1, n) \in Seq(S) /\ SubSeq(s, n + 1, Len(s)) \in Seq(S)
         /\ s = SubSeq(s, 1, n) \o SubSeq(s, n + 1, Len(s))
  OBVIOUS

\* A chunk that decodes well leaves the client part of the way further, one that
\* does not betrays an event that is not well formed.
LEMMA ChunkTaken ==
  ASSUME StreamInv, ~failed, NEW n \in 1..Len(rest), ReadChunk(n)
  PROVE  /\ ~failed' => Midway'
         /\ failed' => split' \/ ~WellFormed(script)
<1> DEFINE chunk == SubSeq(rest, 1, n)
           decoded == PushChunk(chunk)
           applied == Apply(decoded.events)
           A == Letters(script)
           E == Pieces(A)
<1>1. IsStream(script)
  BY ScriptsAre DEF StreamInv
<1>2. ~state.done /\ pending = <<>>
  BY DEF ReadChunk, Reading
<1>3. PICK eol, before, d : Follows(eol, before, rest, d)
  BY <1>2 DEF StreamInv, Midway, Ended
<1>4. /\ rest' = SubSeq(rest, n + 1, Len(rest)) /\ script' = script /\ seen' = seen
      /\ ValidUtf8(chunk) =>
           /\ buffer' = decoded.buffer /\ current' = decoded.current
           /\ state' = applied.state /\ pending' = applied.messages
           /\ failed' = (failed \/ ~applied.ok)
      /\ ~ValidUtf8(chunk) => failed' /\ split'
  BY DEF ReadChunk
<1>5. rest \in Seq(A)
  BY <1>3 DEF Follows, Reaches
<1>6. chunk \in Seq(A) /\ rest' \in Seq(A) /\ rest = chunk \o rest'
  <2> HIDE DEF A
  <2> QED BY <1>4, <1>5, Cut
<1> HIDE DEF chunk
<1>7. CASE ~ValidUtf8(chunk)
  BY <1>4, <1>7
<1>8. CASE ValidUtf8(chunk)
  <2> DEFINE left == rest'
  <2>1. left \in Seq(A) /\ rest = chunk \o left
    BY <1>6
  <2> HIDE DEF left
  <2>2. PICK e : /\ Reaches(script, eol, before \o chunk, left, e)
                 /\ e.buffer = decoded.buffer /\ e.current = decoded.current
                 /\ Outcome(E, Start, e.events, applied)
    BY <1>2, <1>3, <1>6, <2>1, ChunkRead
  <2> HIDE DEF decoded, applied, A, E
  <2>3. ASSUME NEW s \in States(E), NEW p \in Seq(Texts(E)), applied = Good(s, p),
               Applies(Start, e.events, Good(s, seen \o p))
        PROVE  ~failed' /\ Midway'
    <3>1. state' = s /\ pending' = p /\ ~failed'
      <4>1. applied.ok /\ applied.state = s /\ applied.messages = p
        BY <2>3, GoodIsNotBad
      <4> QED BY <1>4, <1>8, <4>1
    <3>2. seen \in Seq(Texts(E))
      BY <1>3 DEF Follows, E, A
    <3> PICK read : read = before \o chunk
      OBVIOUS
    <3>3. Follows(eol, read, rest, e)'
      <4>1. Reaches(script', eol, read, rest', e)
        BY <1>4, <2>2 DEF left
      <4>2. e.buffer = buffer' /\ e.current = current'
        BY <1>4, <1>8, <2>2
      <4> DEFINE F == Pieces(Letters(script'))
      <4>3. F = E
        BY <1>4 DEF E, A
      <4>4. state' \in States(F) /\ seen' \in Seq(Texts(F)) /\ pending' \in Seq(Texts(F))
        BY <1>4, <3>1, <3>2, <4>3
      <4>5. Applies(Start, e.events, Good(state', seen' \o pending'))
        BY <1>4, <2>3, <3>1
      <4> QED BY <4>1, <4>2, <4>4, <4>5 DEF Follows
    <3> QED BY <3>1, <3>3 DEF Midway
  <2>4. ASSUME NEW s \in States(E), NEW p \in Seq(Texts(E)), applied = Bad(s, p),
               Applies(Start, e.events, Bad(s, seen \o p))
        PROVE  failed' /\ ~WellFormed(script)
    <3>1. failed'
      BY <1>4, <1>8, <2>4, GoodIsNotBad
    <3>2. PICK M : \A b : Applies(Start, e.events, b) =>
                     \E j \in 0..Len(script) : Understands(script, E, M, j, b)
      BY <1>1, <2>2, ReachedMeans DEF E, A
    <3>3. PICK j \in 0..Len(script) : Understands(script, E, M, j, Bad(s, seen \o p))
      BY <2>4, <3>2
    <3>4. ~WellFormed(script)
      BY <3>3, UnderstandsIs
    <3> QED BY <3>1, <3>4
  <2> QED BY <2>2, <2>3, <2>4 DEF Outcome
<1> QED BY <1>7, <1>8

LEMMA EndTaken ==
  ASSUME StreamInv, ~failed, ReadEof, ~failed'
  PROVE  Ended'
<1> DEFINE decoded == Finish
           applied == Apply(decoded.events)
           A == Letters(script)
           E == Pieces(A)
           n == Len(script)
<1>1. IsStream(script)
  BY ScriptsAre DEF StreamInv
<1>2. ~state.done /\ pending = <<>> /\ rest = <<>>
  BY DEF ReadEof, Reading
<1>3. PICK eol, before, d : Follows(eol, before, <<>>, d)
  BY <1>2 DEF StreamInv, Midway, Ended
<1>4. /\ script' = script /\ seen' = seen
      /\ state' = AtEof(applied) /\ pending' = applied.messages
      /\ failed' = (failed \/ ~applied.ok)
  BY DEF ReadEof
<1>5. Reaches(script, eol, before, <<>>, d) /\ seen \in Seq(Texts(E))
  BY <1>3 DEF Follows
<1>6. PICK M : /\ Tells(M, script, n) /\ d.buffer = <<>>
               /\ \A b : Applies(Start, d.events \o Spoken(d.current), b) =>
                    Understands(script, E, M, n, b)
  BY <1>1, <1>5, ReachedMeans
<1>7. Outcome(E, Start, d.events \o Spoken(d.current), applied)
  BY <1>2, <1>3, <1>6, EndRead
<1> HIDE DEF applied, E, n
<1>8. applied.ok
  BY <1>4
<1>9. PICK s \in States(E), p \in Seq(Texts(E)) :
        /\ applied = Good(s, p)
        /\ Applies(Start, d.events \o Spoken(d.current), Good(s, seen \o p))
  BY <1>7, <1>8, GoodIsNotBad DEF Outcome
<1>10. Understands(script, E, M, n, Good(s, seen \o p))
  BY <1>6, <1>9
<1>11. seen \o p = M[n] /\ Means(s, script, n) /\ Paired(s, script, n)
  BY <1>10, UnderstandsIs
<1>12. M[n] = Messages(script)
  <2>1. script \in Seq(Range(script))
    BY <1>1 DEF IsStream
  <2>2. n \in 0..Len(script) /\ SubSeq(script, 1, n) = script
    BY <2>1 DEF n
  <2>3. Tells(M, script, Len(script))
    BY <1>6 DEF n
  <2> QED BY <2>1, <2>2, <2>3, MessagesOfFirst
<1>13. applied.state = s /\ applied.messages = p
  BY <1>9, GoodIsNotBad
<1>14. state'.done /\ state'.directive = s.directive /\ state'.final_amount = s.final_amount
  <2> DEFINE w == applied.ok \/ s.done
  <2>1. w = TRUE
    BY <1>8
  <2>2. state' = [s EXCEPT !.done = w]
    BY <1>4, <1>13 DEF AtEof
  <2> HIDE DEF w
  <2>3. /\ [s EXCEPT !.done = w].done = w /\ [s EXCEPT !.done = w].directive = s.directive
        /\ [s EXCEPT !.done = w].final_amount = s.final_amount
    BY StateFields DEF States
  <2> QED BY <2>1, <2>2, <2>3
<1>15. Paired(state', script', Len(script'))
  BY <1>4, <1>11, <1>14 DEF Paired, n
<1> QED BY <1>4, <1>5, <1>9, <1>11, <1>12, <1>13, <1>14, <1>15 DEF Ended, Means, n

\* A message returned moves from what is pending to what was seen.
LEMMA PopMoves ==
  ASSUME NEW T, NEW s \in Seq(T), NEW p \in Seq(T), p # <<>>
  PROVE  /\ Append(s, Head(p)) \in Seq(T) /\ Tail(p) \in Seq(T)
         /\ Append(s, Head(p)) \o Tail(p) = s \o p
  OBVIOUS

LEMMA MessagePopped ==
  ASSUME Midway \/ Ended, PopMessage
  PROVE  Midway' \/ Ended'
<1>1. /\ pending # <<>> /\ seen' = Append(seen, Head(pending)) /\ pending' = Tail(pending)
      /\ script' = script /\ rest' = rest /\ buffer' = buffer /\ current' = current
      /\ state' = state
  BY DEF PopMessage
<1>2. ASSUME NEW T, seen \in Seq(T), pending \in Seq(T)
      PROVE  seen' \in Seq(T) /\ pending' \in Seq(T) /\ seen' \o pending' = seen \o pending
  BY <1>1, <1>2, PopMoves
<1>3. CASE Midway
  <2> DEFINE T == Texts(Pieces(Letters(script)))
  <2>1. PICK eol, before, d : Follows(eol, before, rest, d)
    BY <1>3 DEF Midway
  <2>2. seen \in Seq(T) /\ pending \in Seq(T)
    BY <2>1 DEF Follows
  <2>3. seen' \in Seq(T) /\ pending' \in Seq(T) /\ seen' \o pending' = seen \o pending
    BY <1>2, <2>2
  <2>4. Follows(eol, before, rest, d)'
    BY <1>1, <2>1, <2>3 DEF Follows
  <2> QED BY <2>4 DEF Midway
<1>4. CASE Ended
  BY <1>1, <1>2, <1>4 DEF Ended
<1> QED BY <1>3, <1>4

LEMMA StreamSteps ==
  StreamInv /\ [StreamNext]_streamVars => StreamInv'
<1> SUFFICES ASSUME StreamInv, [StreamNext]_streamVars PROVE StreamInv'
  OBVIOUS
<1> USE DEF StreamInv
<1>1. ASSUME NEW n \in 1..Len(rest), ReadChunk(n)
      PROVE  StreamInv'
  <2>1. script' = script /\ (failed => failed') /\ (~failed' => outcome' = Absent)
    BY <1>1 DEF ReadChunk
  <2>2. ~failed' => Midway'
    BY <1>1, <2>1, ChunkTaken
  <2> QED BY <2>1, <2>2 DEF PaidIsOwed
<1>2. CASE ReadEof
  <2>1. script' = script /\ (failed => failed') /\ (~failed' => outcome' = Absent)
    BY <1>2 DEF ReadEof
  <2>2. ~failed' => Ended'
    BY <1>2, <2>1, EndTaken
  <2> QED BY <2>1, <2>2 DEF PaidIsOwed
<1>3. CASE ReadFails
  BY <1>3 DEF ReadFails
<1>4. CASE PopMessage
  <2>1. /\ script' = script /\ failed' = failed /\ outcome' = Absent /\ outcome' = outcome
    BY <1>4 DEF PopMessage
  <2>2. ~failed => Midway' \/ Ended'
    BY <1>4, MessagePopped
  <2> QED BY <2>1, <2>2 DEF PaidIsOwed
<1>5. ASSUME script' = script, UNCHANGED stream, seen' = seen
      PROVE  (Midway => Midway') /\ (Ended => Ended')
  <2>1. /\ rest' = rest /\ buffer' = buffer /\ current' = current /\ state' = state
        /\ pending' = pending
    BY <1>5 DEF stream
  <2> QED BY <1>5, <2>1 DEF Midway, Follows, Ended
<1>6. CASE Ack
  <2>1. script' = script /\ UNCHANGED stream /\ seen' = seen /\ outcome' = outcome
    BY <1>6 DEF Ack
  <2>2. failed' = failed /\ state' = state
    BY <2>1 DEF stream
  <2> QED BY <1>5, <2>1, <2>2 DEF PaidIsOwed, AmountForCommit
<1>7. CASE Commit
  <2>1. script' = script /\ UNCHANGED stream /\ seen' = seen
    BY <1>7 DEF Commit
  <2>2. failed' = failed /\ state' = state
    BY <2>1 DEF stream
  <2>3. PaidIsOwed'
    <3>1. state.done /\ (state.directive = Absent => outcome' = Refused)
      BY <1>7 DEF Commit
    <3>2. outcome' \in {Refused, AmountForCommit(state)}
      BY <1>7 DEF Commit, CommitAnswers
    <3> QED BY <2>2, <3>1, <3>2 DEF PaidIsOwed, AmountForCommit
  <2> QED BY <1>5, <2>1, <2>2, <2>3
<1>8. CASE UNCHANGED streamVars
  <2>1. /\ script' = script /\ UNCHANGED stream /\ seen' = seen /\ outcome' = outcome
        /\ failed' = failed /\ state' = state
    BY <1>8 DEF streamVars, stream
  <2> QED BY <1>5, <2>1 DEF PaidIsOwed, AmountForCommit
<1> QED BY <1>1, <1>2, <1>3, <1>4, <1>6, <1>7, <1>8 DEF StreamNext, Read

\* However the bytes are cut into chunks, the client is part of the way through the
\* script with what its first events mean, or at its end, unless something failed;
\* and an amount committed is that of the state at the end (push_chunk, finish,
\* apply_event, ack).
THEOREM StreamInvariance == StreamSpec => []StreamInv
<1>1. StreamInit => StreamInv
  BY StreamStarts
<1>2. StreamInv /\ [StreamNext]_streamVars => StreamInv'
  BY StreamSteps
<1> QED BY <1>1, <1>2, PTL DEF StreamSpec

\* For every script, every way to spell its events and every chunking of the
\* bytes, push_chunk and finish yield the server's messages in order: none
\* invented, repeated or reordered, and none before the end marker missing once
\* the stream is done.
THEOREM MessagesAsSentTheorem == StreamSpec => []MessagesAsSent
<1>1. StreamInv => MessagesAsSent
  <2> SUFFICES ASSUME StreamInv, ~failed
               PROVE  /\ IsPrefix(seen \o pending, Messages(script))
                      /\ state.done => IsPrefix(Messages(UpToDone(script)), seen \o pending)
    BY DEF MessagesAsSent
  <2> DEFINE n == Len(script)
  <2>1. PICK j \in 0..n : Understood(j)
    BY Understanding DEF StreamInv
  <2>2. script \in Seq(Range(script))
    BY ScriptsAre DEF StreamInv, IsStream
  <2>3. PICK M : Tells(M, script, n)
    BY <2>2, MessagesTell
  <2>4. \A i \in 0..n : Messages(SubSeq(script, 1, i)) = M[i]
    BY <2>2, <2>3, MessagesOfFirst
  <2>5. n \in 0..n /\ SubSeq(script, 1, n) = script
    BY <2>2
  <2>6. seen \o pending = M[j] /\ Messages(script) = M[n]
    BY <2>1, <2>4, <2>5 DEF Understood
  <2>7. PICK k \in 0..n : UpToDone(script) = SubSeq(script, 1, k) /\ Len(UpToDone(script)) = k
    BY <2>2, UpToDoneIs
  <2>8. Messages(UpToDone(script)) = M[k] /\ (state.done => k \in 0..j)
    BY <2>1, <2>4, <2>7 DEF Understood
  <2>9. IsPrefix(M[j], M[n])
    BY <2>2, <2>3, <2>5, TellsGrow
  <2>10. state.done => IsPrefix(M[k], M[j])
    BY <2>2, <2>3, <2>8, TellsGrow
  <2> QED BY <2>6, <2>8, <2>9, <2>10
<1> QED BY <1>1, StreamInvariance, PTL

\* For every script and every chunking, an ack that returns a receipt committed the
\* last usage of the stream, or the reservation when there was none.
THEOREM CommitsWhatWasUsedTheorem == StreamSpec => []CommitsWhatWasUsed
<1>1. StreamInv => CommitsWhatWasUsed
  <2> SUFFICES ASSUME StreamInv, ~failed, outcome \notin {Absent, Refused}
               PROVE  \E n \in Len(UpToDone(script))..Len(script) :
                        outcome = Owed(SubSeq(script, 1, n))
    BY DEF CommitsWhatWasUsed
  <2>1. PICK j \in 0..Len(script) : Understood(j)
    BY Understanding DEF StreamInv
  <2>2. script \in Seq(Range(script))
    BY ScriptsAre DEF StreamInv, IsStream
  <2>3. /\ state.done /\ state.directive # Absent
        /\ outcome = IF state.final_amount # Absent THEN state.final_amount
                     ELSE state.directive.amount
    BY DEF StreamInv, PaidIsOwed, AmountForCommit
  <2>4. /\ state.directive = LastSaid(script, j, "metering")
        /\ state.final_amount = LastUsed(script, j) /\ Len(UpToDone(script)) <= j
    BY <2>1, <2>3 DEF Understood
  <2>5. /\ LastAmount(SubSeq(script, 1, j), "usage") = LastUsed(script, j)
        /\ LastAmount(SubSeq(script, 1, j), "metering") = LastSaid(script, j, "metering").amount
    BY <2>2, <2>3, <2>4, AmountsOfFirst
  <2>6. outcome = Owed(SubSeq(script, 1, j))
    BY <2>3, <2>4, <2>5 DEF Owed
  <2>7. Len(UpToDone(script)) \in Nat
    BY <2>2, UpToDoneIs
  <2>8. j \in Len(UpToDone(script))..Len(script)
    BY <2>4, <2>7
  <2> QED BY <2>6, <2>8
<1> QED BY <1>1, StreamInvariance, PTL

\* A well-formed stream fails to decode only where a chunk ends inside a character,
\* or if it has a frame without data that is dispatched and parsed as JSON.
THEOREM OnlySplitsAndBareFramesFailTheorem == StreamSpec => OnlySplitsAndBareFramesFail
<1> DEFINE D == failed' /\ ~failed /\ Len(rest') < Len(rest) =>
                  split' \/ \E i \in 1..Len(script) :
                               script[i].kind = "bare" \/ ~script[i].wellformed
<1>1. StreamInv /\ [StreamNext]_streamVars => [D]_streamVars
  <2> SUFFICES ASSUME StreamInv, StreamNext, failed', ~failed, Len(rest') < Len(rest)
               PROVE  split' \/ \E i \in 1..Len(script) :
                                    script[i].kind = "bare" \/ ~script[i].wellformed
    OBVIOUS
  <2>1. ASSUME NEW n \in 1..Len(rest), ReadChunk(n)
        PROVE  split' \/ \E i \in 1..Len(script) :
                                    script[i].kind = "bare" \/ ~script[i].wellformed
    <3>1. split' \/ ~WellFormed(script)
      BY <2>1, ChunkTaken
    <3>2. DOMAIN script = 1..Len(script)
      BY ScriptsAre DEF StreamInv, IsStream, IsScript
    <3> QED BY <3>1, <3>2 DEF WellFormed
  <2>2. CASE ReadEof \/ ReadFails
    <3>1. rest' = rest /\ ~state.done
      BY <2>2 DEF ReadEof, ReadFails, Reading
    <3>2. PICK eol, before, d : Follows(eol, before, rest, d)
      BY <3>1 DEF StreamInv, Midway, Ended
    <3>3. rest \in Seq(Letters(script))
      BY <3>2 DEF Follows, Reaches
    <3>4. Len(rest) \in Nat
      BY <3>3
    <3> QED BY <3>1, <3>4
  <2>3. ~(PopMessage \/ Ack \/ Commit)
    BY DEF PopMessage, Ack, Commit, stream
  <2> QED BY <2>1, <2>2, <2>3 DEF StreamNext, Read
<1> QED BY <1>1, StreamInvariance, PTL DEF StreamSpec, OnlySplitsAndBareFramesFail

\* As long as nothing failed, a usage report that the state keeps is of the delivery
\* the stream announced, or came before the announcement.
THEOREM UsageOfThisDeliveryTheorem == StreamSpec => [](~failed => UsageOfThisDelivery)
<1>1. StreamInv => (~failed => UsageOfThisDelivery)
  <2> SUFFICES ASSUME StreamInv, ~failed PROVE UsageOfThisDelivery
    OBVIOUS
  <2>1. PICK j \in 0..Len(script) : Understood(j)
    BY Understanding DEF StreamInv
  <2>2. \A u \in 1..j : u \in 1..Len(script)
    <3>1. Len(script) \in Nat
      BY ScriptsAre DEF StreamInv, IsStream, IsScript
    <3> QED BY <3>1
  <2>3. Paired(state, script, j)
    BY <2>1 DEF Understood
  <2> QED BY <2>2, <2>3 DEF Paired, UsageOfThisDelivery
<1> QED BY <1>1, StreamInvariance, PTL

=============================================================================
