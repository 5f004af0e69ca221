------------------------- MODULE ScalarScannerProofs -------------------------
(***************************************************************************)
(* Proofs about the scanner, for integers of every width and buffers of    *)
(* every size.                                                             *)
(***************************************************************************)
EXTENDS ScalarScanner, SequenceTheorems, Foundations, TLAPS

\* The buffer holds digits behind an optional minus.
Shape == \A i \in 2..Len(number) : number[i] \in Digit

Early == phase \in {"scalar", "sign", "digits"}

(***************************************************************************)
(* NoWrap alone is not inductive: it needs to know that the conversion     *)
(* starts behind the sign, and so only ever meets digits.                  *)
(***************************************************************************)
IInv ==
    /\ TypeOK
    /\ Shape
    /\ Early => result = 0
    /\ phase \in {"scalar", "sign"} => number = <<>>
    /\ phase = "convert" /\ Negative => index >= 2
    /\ result <= Limit
    /\ Representable(value)
    /\ phase # "payload" => copied = 0 \/ phase \in {"string", "cut"}
    /\ PayloadFits

(* The remainder of a number below the modulus is the number.              *)
LEMMA SmallRemainder ==
  ASSUME NEW x \in Nat, NEW m \in Nat, x < m
  PROVE  x % m = x
OBVIOUS

(* The test that divides is as strict as the one that multiplies.          *)
LEMMA DividingTest ==
  ASSUME NEW r \in Nat, NEW l \in Nat, NEW d \in 0..9, l >= 9,
         ~(r > (l - d) \div 10)
  PROVE  r * 10 + d <= l
OBVIOUS

LEMMA LimitRange ==
  Limit \in Nat /\ Limit > 9 /\ Limit <= MaxValue + 1
BY MaxValueAssumption DEF Limit

(* Where the conversion stands there is a digit.                           *)
LEMMA ConvertedDigit ==
  ASSUME IInv, Converting
  PROVE  number[index] \in Digit
<1>1. index \in 1..Len(number) /\ number \in Seq(Digit \cup {Minus})
  BY LenProperties DEF IInv, TypeOK, Converting
<1>2. CASE index >= 2
  BY <1>1, <1>2 DEF IInv, Shape
<1>3. CASE index = 1
  <2>1. number[1] \in Digit \cup {Minus}
    BY <1>1, <1>3, ElementOfSeq
  <2>2. number # <<>>
    BY <1>1, <1>3, EmptySeq
  <2>3. ~Negative
    BY <1>3 DEF IInv, Converting
  <2> QED BY <1>3, <2>1, <2>2, <2>3 DEF Negative
<1> QED BY <1>1, <1>2, <1>3

(* A digit that passes the test fits.                                      *)
LEMMA AcceptedDigitFits ==
  ASSUME IInv, Converting, ~Overflows
  PROVE  result * 10 + number[index] \in 0..Limit
<1> DEFINE d == number[index]
<1>1. d \in 0..9 /\ result \in Nat
  BY ConvertedDigit DEF Digit, IInv, TypeOK
<1>2. ~(result > (Limit - d) \div 10)
  BY DEF Overflows
<1> HIDE DEF d
<1>3. result * 10 + d <= Limit
  BY <1>1, <1>2, LimitRange, DividingTest
<1> QED BY <1>1, <1>3, LimitRange DEF d

LEMMA InitInv == Init => IInv
<1> SUFFICES ASSUME Init PROVE IInv
  OBVIOUS
<1>1. number \in Seq(Digit \cup {Minus}) /\ Len(number) = 0
  BY EmptySeq DEF Init
<1>2. TypeOK
  BY <1>1, BufferAssumption DEF Init, TypeOK, Phase
<1>3. Shape
  BY <1>1 DEF Shape
<1>4. Representable(value) /\ result <= Limit
  BY MaxValueAssumption, LimitRange DEF Init, Representable
<1> QED BY <1>2, <1>3, <1>4 DEF Init, IInv, PayloadFits

(* The steps that leave the buffer, the magnitude and the value alone.     *)
LEMMA PlainStepsKeepInv ==
  ASSUME IInv,
         \/ ParseScalar \/ ParseStringKey \/ CheckNumber \/ OverflowFound
         \/ ConfirmBoundary \/ ReadColon \/ CopyPayload \/ PayloadCopied
  PROVE  IInv'
<1>1. UNCHANGED <<number, result, value>>
  BY DEF ParseScalar, ParseStringKey, CheckNumber, OverflowFound, ConfirmBoundary,
         ReadColon, CopyPayload, PayloadCopied
<1>2. Shape' /\ Representable(value)' /\ (result <= Limit)'
  BY <1>1 DEF Shape, Representable, IInv, Limit, Negative
<1>3. /\ look \in Char /\ role \in {"integer", "string", "key"}
      /\ number \in Seq(Digit \cup {Minus}) /\ Len(number) <= BufferSize
      /\ index \in Nat \ {0} /\ result \in Nat /\ value \in Int /\ copied \in Nat
  BY DEF IInv, TypeOK
<1>4. CASE ParseScalar
  <2>1. TypeOK'
    BY <1>1, <1>3, <1>4 DEF ParseScalar, TypeOK, NextChar, Phase, Verdict
  <2> QED BY <1>1, <1>2, <1>4, <2>1 DEF ParseScalar, IInv, Early, PayloadFits
<1>5. CASE ParseStringKey
  <2>1. TypeOK'
    BY <1>1, <1>3, <1>5 DEF ParseStringKey, TypeOK, Phase
  <2> QED BY <1>1, <1>2, <1>5, <2>1 DEF ParseStringKey, IInv, Early, PayloadFits
<1>6. CASE CheckNumber
  <2>1. TypeOK'
    BY <1>1, <1>3, <1>6 DEF CheckNumber, TypeOK, Phase, Verdict
  <2> QED BY <1>1, <1>2, <1>6, <2>1 DEF CheckNumber, IInv, Early, Negative, PayloadFits
<1>7. CASE OverflowFound
  <2>1. TypeOK'
    BY <1>1, <1>3, <1>7 DEF OverflowFound, TypeOK, Verdict
  <2> QED BY <1>1, <1>2, <1>7, <2>1
          DEF OverflowFound, Converting, IInv, Early, PayloadFits
<1>8. CASE ConfirmBoundary
  <2>1. TypeOK'
    BY <1>1, <1>3, <1>8 DEF ConfirmBoundary, TypeOK, NextChar, Verdict
  <2> QED BY <1>1, <1>2, <1>8, <2>1 DEF ConfirmBoundary, IInv, Early, PayloadFits
<1>9. CASE ReadColon
  <2>1. TypeOK'
    BY <1>1, <1>3, <1>9 DEF ReadColon, TypeOK, NextChar, Phase, Verdict
  <2>2. copied = 0 /\ copied' = 0 /\ phase' \in {"malformed", "payload"}
    BY <1>9 DEF ReadColon, IInv
  <2>3. phase' = "payload" => value \in 0..maxStringLength
    BY <1>3, <1>9, LengthAssumption DEF ReadColon
  <2> QED BY <1>1, <1>2, <2>1, <2>2, <2>3 DEF IInv, Early, PayloadFits
<1>10. CASE CopyPayload
  <2>1. phase = "payload" /\ phase' \in {"cut", "payload"} /\ UNCHANGED <<role, index>>
        /\ look' \in Char /\ copied < value
        /\ (phase' = "payload" => copied' = copied + 1)
        /\ (copied' = copied \/ copied' = copied + 1)
    <3>1. CASE look = Ended
      BY <1>3, <1>10, <3>1 DEF CopyPayload
    <3>2. CASE look # Ended
      BY <1>3, <1>10, <3>2 DEF CopyPayload, NextChar
    <3> QED BY <3>1, <3>2
  <2>2. TypeOK'
    <3>1. copied \in Nat /\ (copied' = copied \/ copied' = copied + 1)
      BY <1>3, <2>1
    <3>2. copied' \in Nat
      BY <3>1
    <3>3. phase' \in Phase \cup Verdict
      BY <2>1 DEF Phase, Verdict
    <3>4. role' = role /\ index' = index /\ look' \in Char
      BY <2>1
    <3> QED BY <1>1, <1>3, <3>2, <3>3, <3>4 DEF TypeOK
  <2>3. PayloadFits'
    BY <1>1, <1>3, <2>1 DEF IInv, PayloadFits
  <2> QED BY <1>1, <1>2, <2>1, <2>2, <2>3 DEF IInv, Early
<1>11. CASE PayloadCopied
  <2>1. TypeOK'
    BY <1>1, <1>3, <1>11 DEF PayloadCopied, TypeOK, Verdict
  <2> QED BY <1>1, <1>2, <1>11, <2>1 DEF PayloadCopied, IInv, Early, PayloadFits
<1> QED BY <1>4, <1>5, <1>6, <1>7, <1>8, <1>9, <1>10, <1>11

(* Filling the buffer.                                                     *)
LEMMA BufferStepsKeepInv ==
  ASSUME IInv, ReadSign \/ ReadDigit
  PROVE  IInv'
<1> DEFINE C == Digit \cup {Minus}
<1>0. /\ number \in Seq(C) /\ result = 0 /\ copied = 0 /\ value' = value
      /\ UNCHANGED <<role, index, result, copied>>
  BY DEF IInv, TypeOK, Early, ReadSign, ReadDigit
<1>1. ASSUME NEW c \in C
      PROVE  /\ Append(number, c) \in Seq(C)
             /\ Len(Append(number, c)) = Len(number) + 1
             /\ Append(number, c)[Len(number) + 1] = c
             /\ \A i \in 1..Len(number) : Append(number, c)[i] = number[i]
  BY <1>0, <1>1, AppendProperties
<1>2. (result <= Limit)' /\ Representable(value)'
  <2>1. Limit' \in Nat
    BY MaxValueAssumption DEF Limit
  <2> QED BY <1>0, <2>1 DEF IInv, Representable
<1>3. CASE ReadSign
  <2>1. number = <<>> /\ phase' = "digits" /\ look' \in Char
    BY <1>3 DEF ReadSign, IInv, TypeOK, NextChar
  <2>2. number' \in Seq(C) /\ Len(number') \in 0..1
    <3>1. CASE look = Minus
      BY <1>3, <3>1, SMTT(40) DEF ReadSign
    <3>2. CASE look # Minus
      BY <1>0, <1>3, <2>1, <3>2, EmptySeq DEF ReadSign
    <3> QED BY <3>1, <3>2
  <2>3. Shape'
    BY <2>2 DEF Shape
  <2>4. TypeOK'
    <3>1. Len(number') <= BufferSize
      BY <2>2, BufferAssumption
    <3> QED BY <1>0, <2>1, <2>2, <3>1 DEF IInv, TypeOK, Phase
  <2> QED BY <1>0, <1>2, <2>1, <2>3, <2>4 DEF IInv, Early, PayloadFits
<1>4. CASE ReadDigit
  <2>1. CASE Len(number) = BufferSize
    BY <1>0, <1>2, <1>4, <2>1 DEF ReadDigit, IInv, TypeOK, Shape, Early, PayloadFits, Verdict
  <2>2. CASE Len(number) # BufferSize
    <3>1. number' = Append(number, look) /\ phase' = "digits" /\ look' \in Char /\ look \in Digit
      BY <1>4, <2>2 DEF ReadDigit, NextChar
    <3>2. /\ number' \in Seq(C) /\ Len(number') = Len(number) + 1
          /\ number'[Len(number) + 1] = look
          /\ \A i \in 1..Len(number) : number'[i] = number[i]
      BY <1>1, <3>1
    <3>3. Len(number) \in Nat /\ Len(number) < BufferSize
      BY <1>0, <2>2, LenProperties, BufferAssumption DEF IInv, TypeOK
    <3>4. Shape'
      BY <3>1, <3>2, <3>3 DEF IInv, Shape
    <3>5. TypeOK'
      BY <1>0, <3>1, <3>2, <3>3, BufferAssumption DEF IInv, TypeOK, Phase
    <3> QED BY <1>0, <1>2, <3>1, <3>4, <3>5 DEF IInv, Early, PayloadFits
  <2> QED BY <2>1, <2>2
<1> QED BY <1>3, <1>4

(* One round of the conversion.                                            *)
LEMMA AccumulateKeepsInv ==
  ASSUME IInv, Accumulate
  PROVE  IInv'
<1> DEFINE sum == result * 10 + number[index]
<1>1. Converting /\ sum \in 0..Limit
  BY AcceptedDigitFits DEF Accumulate
<1>2. sum \in Nat /\ sum < 2 * (MaxValue + 1) /\ 2 * (MaxValue + 1) \in Nat
  BY <1>1, LimitRange, MaxValueAssumption
<1>3. result' = Unsigned(sum)
  BY DEF Accumulate
<1> HIDE DEF sum
<1>4. result' = sum
  BY <1>2, <1>3, SmallRemainder DEF Unsigned
<1>5. /\ UNCHANGED <<look, role, phase, number, value, copied>>
      /\ index' = index + 1 /\ phase = "convert"
  BY DEF Accumulate, Converting
<1>6. (result <= Limit)' /\ Shape' /\ Representable(value)'
  BY <1>1, <1>4, <1>5, LimitRange DEF Limit, Negative, Shape, Representable, IInv
<1>7. TypeOK'
  BY <1>2, <1>4, <1>5 DEF IInv, TypeOK
<1> QED BY <1>5, <1>6, <1>7 DEF IInv, TypeOK, Early, Negative, PayloadFits

(* The conversion's end: the magnitude becomes a number with a sign.       *)
LEMMA ConvertedKeepsInv ==
  ASSUME IInv, Converted
  PROVE  IInv'
<1>1. /\ UNCHANGED <<look, role, number, index, result, copied>>
      /\ phase = "convert" /\ phase' \in {"boundary", "colon"}
      /\ value' = IF Negative THEN Negated(Signed(result)) ELSE Signed(result)
  BY DEF Converted
<1>2. result \in Nat /\ result <= Limit
  BY DEF IInv, TypeOK
<1>3. value' \in -(MaxValue + 1)..MaxValue
  BY <1>1, <1>2, MaxValueAssumption DEF Limit, Signed, Negated
<1>4. TypeOK'
  BY <1>1, <1>3, MaxValueAssumption DEF IInv, TypeOK, Phase
<1>5. (result <= Limit)' /\ Shape'
  BY <1>1, <1>2 DEF Limit, Negative, Shape, IInv
<1> QED BY <1>1, <1>3, <1>4, <1>5 DEF IInv, Early, PayloadFits, Representable

LEMMA StepKeepsInv == IInv /\ [Next]_vars => IInv'
<1> SUFFICES ASSUME IInv, [Next]_vars PROVE IInv'
  OBVIOUS
<1>1. CASE UNCHANGED vars
  BY <1>1 DEF vars, IInv, TypeOK, Shape, Early, Negative, Limit, Representable, PayloadFits
<1>2. CASE \/ ParseScalar \/ ParseStringKey \/ CheckNumber \/ OverflowFound
           \/ ConfirmBoundary \/ ReadColon \/ CopyPayload \/ PayloadCopied
  BY <1>2, PlainStepsKeepInv
<1>3. CASE ReadSign \/ ReadDigit
  BY <1>3, BufferStepsKeepInv
<1>4. CASE Accumulate
  BY <1>4, AccumulateKeepsInv
<1>5. CASE Converted
  BY <1>5, ConvertedKeepsInv
<1> QED BY <1>1, <1>2, <1>3, <1>4, <1>5 DEF Next

(* The inductive invariant of the scanner.                                 *)
THEOREM ScannerInvariance == Spec => []IInv
BY InitInv, StepKeepsInv, PTL DEF Spec

(* Type correctness; in particular the buffer is never overrun.            *)
THEOREM ScannerTypeCorrect == Spec => []TypeOK
<1>1. IInv => TypeOK
  BY DEF IInv
<1> QED BY <1>1, ScannerInvariance, PTL

(* convertToInteger never wraps around, whatever the width of IntegerType. *)
THEOREM ConversionNeverWraps == Spec => []NoWrap
<1>1. IInv => NoWrap
  BY AcceptedDigitFits, LimitRange DEF IInv, NoWrap
<1> QED BY <1>1, ScannerInvariance, PTL

(* No more bytes are copied than the string was made for, and no string is *)
(* made for a negative or unlimited length.                                *)
THEOREM PayloadAlwaysFits == Spec => []PayloadFits
<1>1. IInv => PayloadFits
  BY DEF IInv
<1> QED BY <1>1, ScannerInvariance, PTL

(* appendInteger's magnitude is exact for every number, the least one too. *)
THEOREM MagnitudeExact ==
  ASSUME NEW v \in Int, Representable(v)
  PROVE  IntegerToUnsigned(v) = IF v < 0 THEN -v ELSE v
<1>1. CASE v < 0
  <2> DEFINE x == -(v + 1)
             m == 2 * (MaxValue + 1)
  <2>1. x \in Nat /\ m \in Nat /\ x < m /\ x + 1 = -v
    BY <1>1, MaxValueAssumption DEF Representable
  <2>2. IntegerToUnsigned(v) = (x % m) + 1
    BY <1>1 DEF IntegerToUnsigned, Unsigned
  <2> HIDE DEF x, m
  <2>3. x % m = x
    BY <2>1, SmallRemainder
  <2> QED BY <1>1, <2>1, <2>2, <2>3
<1>2. CASE ~(v < 0)
  BY <1>2 DEF IntegerToUnsigned
<1> QED BY <1>1, <1>2

------------------------------------------------------------------------------
(***************************************************************************)
(* Numerals.  The recursive functions they are defined by are the only     *)
(* ones that satisfy their equations; each is shown to exist by extending  *)
(* it value by value.                                                      *)
(***************************************************************************)

\* s has digits from position i on.
Numeral(s, i) == /\ s \in Seq(Int) /\ i \in 1..2
                 /\ \A j \in i..Len(s) : s[j] \in Digit

LEMMA DenotedRecursion ==
  ASSUME NEW s \in Seq(Int), NEW i \in 1..2
  PROVE  DenotedUpTo(s, i) =
            [j \in 0..Len(s) |-> IF j < i THEN 0 ELSE DenotedUpTo(s, i)[j - 1] * 10 + s[j]]
<1> DEFINE Solves(g, k) == g = [j \in 0..k |-> IF j < i THEN 0 ELSE g[j - 1] * 10 + s[j]]
           Solved == {k \in Nat : \E g : Solves(g, k)}
<1>1. 0 \in Solved
  <2>1. Solves([j \in 0..0 |-> 0], 0)
    OBVIOUS
  <2> QED BY <2>1
<1>2. ASSUME NEW k \in Nat, k \in Solved PROVE k + 1 \in Solved
  <2>1. PICK g : Solves(g, k)
    BY <1>2
  <2> DEFINE h == [j \in 0..(k + 1) |->
                      IF j <= k THEN g[j] ELSE IF j < i THEN 0 ELSE g[k] * 10 + s[j]]
  <2>2. ASSUME NEW j \in 0..(k + 1)
        PROVE  h[j] = IF j < i THEN 0 ELSE h[j - 1] * 10 + s[j]
    <3>1. CASE j <= k
      <4>1. h[j] = g[j] /\ (j >= i => h[j - 1] = g[j - 1])
        BY <3>1
      <4>2. g[j] = IF j < i THEN 0 ELSE g[j - 1] * 10 + s[j]
        BY <2>1, <3>1
      <4> QED BY <4>1, <4>2
    <3>2. CASE j = k + 1
      BY <3>2
    <3> QED BY <3>1, <3>2
  <2> HIDE DEF h
  <2>3. h = [j \in 0..(k + 1) |-> IF j <= k THEN g[j] ELSE IF j < i THEN 0 ELSE g[k] * 10 + s[j]]
    BY DEF h
  <2>4. Solves(h, k + 1)
    BY <2>2, <2>3
  <2>5. k + 1 \in Nat
    OBVIOUS
  <2> HIDE DEF Solves
  <2> QED BY <2>4, <2>5
<1>3. Len(s) \in Solved
  <2> HIDE DEF Solved
  <2>1. Len(s) \in Nat
    OBVIOUS
  <2> QED BY <1>1, <1>2, <2>1, InductionFrom, SMTT(40)
<1>4. \E g : Solves(g, Len(s))
  BY <1>3
<1> QED BY <1>4 DEF DenotedUpTo

(* One more digit.                                                         *)
LEMMA NextMagnitude ==
  ASSUME NEW a \in Nat, NEW d \in 0..9
  PROVE  /\ a * 10 + d \in Nat /\ a * 10 + d >= a
         /\ \A b \in Nat, c \in 0..9 : b <= a /\ c <= d => a * 10 + d >= b * 10 + c
OBVIOUS

(* The values a numeral denotes up to each position.                       *)
LEMMA DenotedStep ==
  ASSUME NEW s, NEW i, Numeral(s, i)
  PROVE  /\ Len(s) \in Nat
         /\ \A j \in 0..Len(s) : j < i => DenotedUpTo(s, i)[j] = 0
         /\ \A j \in i..Len(s) :
               DenotedUpTo(s, i)[j] = DenotedUpTo(s, i)[j - 1] * 10 + s[j]
<1> DEFINE f == DenotedUpTo(s, i)
<1>1. s \in Seq(Int) /\ i \in 1..2 /\ Len(s) \in Nat
  BY DEF Numeral
<1>2. f = [j \in 0..Len(s) |-> IF j < i THEN 0 ELSE f[j - 1] * 10 + s[j]]
  BY <1>1, DenotedRecursion
<1> HIDE DEF f
<1>3. \A j \in 0..Len(s) : f[j] = IF j < i THEN 0 ELSE f[j - 1] * 10 + s[j]
  BY <1>2
<1>4. \A j \in i..Len(s) : f[j] = f[j - 1] * 10 + s[j]
  BY <1>1, <1>3
<1>5. \A j \in 0..Len(s) : j < i => f[j] = 0
  BY <1>3
<1> QED BY <1>1, <1>4, <1>5 DEF f

LEMMA DenotedType ==
  ASSUME NEW s, NEW i, Numeral(s, i)
  PROVE  \A j \in 0..Len(s) : DenotedUpTo(s, i)[j] \in Nat
<1> DEFINE f == DenotedUpTo(s, i)
           Typed == {j \in 0..Len(s) : f[j] \in Nat}
<1>1. /\ i \in 1..2 /\ Len(s) \in Nat
      /\ \A j \in 0..Len(s) : j < i => f[j] = 0
      /\ \A j \in i..Len(s) : f[j] = f[j - 1] * 10 + s[j] /\ s[j] \in 0..9
  BY DenotedStep DEF Numeral, Digit
<1> HIDE DEF f
<1>2. 0 \in Typed
  BY <1>1
<1>3. ASSUME NEW j \in 0..Len(s), j < Len(s), j \in Typed PROVE j + 1 \in Typed
  <2>1. j + 1 \in 0..Len(s) /\ (j + 1) - 1 = j
    BY <1>1, <1>3
  <2>2. CASE j + 1 < i
    BY <1>1, <2>1, <2>2
  <2>3. CASE j + 1 >= i
    <3>1. j + 1 \in i..Len(s)
      BY <1>1, <2>1, <2>3
    <3>2. f[j + 1] = f[j] * 10 + s[j + 1] /\ s[j + 1] \in 0..9
      BY <1>1, <2>1, <3>1
    <3>3. f[j] \in Nat
      BY <1>3
    <3>4. f[j + 1] \in Nat
      BY <3>2, <3>3, NextMagnitude
    <3> QED BY <2>1, <3>4
  <2> QED BY <1>1, <2>1, <2>2, <2>3
<1> HIDE DEF Typed
<1>4. \A j \in 0..Len(s) : j \in Typed
  <2>1. 0 \in Int /\ Len(s) \in Int
    BY <1>1
  <2> QED BY <1>2, <1>3, <2>1, InductionUpTo
<1> QED BY <1>4 DEF Typed, f

(* More digits denote no less.                                             *)
LEMMA DenotedGrows ==
  ASSUME NEW s, NEW i, Numeral(s, i), NEW k \in 0..Len(s)
  PROVE  \A j \in k..Len(s) : DenotedUpTo(s, i)[j] >= DenotedUpTo(s, i)[k]
<1> DEFINE f == DenotedUpTo(s, i)
           Above == {j \in k..Len(s) : f[j] >= f[k]}
<1>1. /\ i \in 1..2 /\ Len(s) \in Nat /\ k \in Nat
      /\ \A j \in 0..Len(s) : f[j] \in Nat /\ (j < i => f[j] = 0)
      /\ \A j \in i..Len(s) : f[j] = f[j - 1] * 10 + s[j] /\ s[j] \in 0..9
  <2>1. \A j \in 0..Len(s) : f[j] \in Nat
    BY DenotedType
  <2>2. /\ i \in 1..2 /\ Len(s) \in Nat /\ \A j \in i..Len(s) : s[j] \in 0..9
    BY DEF Numeral, Digit
  <2>3. /\ \A j \in 0..Len(s) : j < i => f[j] = 0
        /\ \A j \in i..Len(s) : f[j] = f[j - 1] * 10 + s[j]
    BY DenotedStep
  <2> QED BY <2>1, <2>2, <2>3
<1> HIDE DEF f
<1>2. k \in Above
  BY <1>1
<1>3. ASSUME NEW j \in k..Len(s), j < Len(s), j \in Above PROVE j + 1 \in Above
  <2>1. j \in 0..Len(s) /\ j + 1 \in k..Len(s) /\ j + 1 \in 0..Len(s) /\ (j + 1) - 1 = j
    BY <1>1, <1>3
  <2>2. f[j] \in Nat /\ f[j + 1] \in Nat /\ f[k] \in Nat /\ f[j] >= f[k]
    BY <1>1, <1>3, <2>1
  <2>3. CASE j + 1 < i
    <3>1. f[j] = 0
      BY <1>1, <2>1, <2>3
    <3> QED BY <2>1, <2>2, <3>1
  <2>4. CASE j + 1 >= i
    <3>1. j + 1 \in i..Len(s)
      BY <1>1, <2>1, <2>4
    <3>2. f[j + 1] = f[j] * 10 + s[j + 1] /\ s[j + 1] \in 0..9
      BY <1>1, <2>1, <3>1
    <3>3. f[j + 1] >= f[j]
      BY <2>2, <3>2, NextMagnitude
    <3> QED BY <2>1, <2>2, <3>3
  <2> QED BY <1>1, <2>1, <2>3, <2>4
<1> HIDE DEF Above
<1>4. \A j \in k..Len(s) : j \in Above
  <2>1. k \in Int /\ Len(s) \in Int
    BY <1>1
  <2> QED BY <1>2, <1>3, <2>1, InductionUpTo
<1> QED BY <1>4 DEF Above, f

(* A number of BufferSize digits, of which the first is not zero, does not *)
(* fit: it is no less than the least of that many digits, digit by digit.  *)
LEMMA TooManyDigits ==
  ASSUME NEW s, NEW i, Numeral(s, i), s[i] # 0, Len(s) + 1 >= BufferSize + i
  PROVE  Denoted(s, i) > MaxValue + 1
<1> DEFINE f == DenotedUpTo(s, i)
           t == LeastOf(BufferSize)
           g == DenotedUpTo(t, 1)
           Above == {j \in 0..BufferSize : f[i - 1 + j] >= g[j]}
<1>1. Numeral(t, 1) /\ Len(t) = BufferSize
      /\ \A j \in 1..BufferSize : t[j] = IF j = 1 THEN 1 ELSE 0
  BY BufferAssumption DEF LeastOf, Numeral, Digit
<1>2. /\ i \in 1..2 /\ Len(s) \in Nat /\ BufferSize \in Nat /\ BufferSize >= 2
      /\ \A j \in 0..Len(s) : f[j] \in Nat /\ (j < i => f[j] = 0)
      /\ \A j \in i..Len(s) : f[j] = f[j - 1] * 10 + s[j] /\ s[j] \in 0..9
  BY DenotedStep, DenotedType, BufferAssumption DEF Numeral, Digit
<1> HIDE DEF t
<1>3. /\ \A j \in 0..BufferSize : g[j] \in Nat
      /\ g[0] = 0
      /\ \A j \in 1..BufferSize : g[j] = g[j - 1] * 10 + t[j]
  <2>1. \A j \in 0..Len(t) : g[j] \in Nat
    BY <1>1, DenotedType
  <2>2. /\ \A j \in 0..Len(t) : j < 1 => g[j] = 0
        /\ \A j \in 1..Len(t) : g[j] = g[j - 1] * 10 + t[j]
    BY <1>1, DenotedStep
  <2>3. 0 \in 0..Len(t)
    BY <1>1, <1>2
  <2> QED BY <1>1, <2>1, <2>2, <2>3
<1>4. g[BufferSize] > MaxValue + 1
  BY <1>1, DigitsAssumption DEF Denoted, t
<1> HIDE DEF f, g
<1>5. 0 \in Above
  BY <1>2, <1>3
<1>6. ASSUME NEW j \in 0..BufferSize, j < BufferSize, j \in Above PROVE j + 1 \in Above
  <2>1. /\ i + j \in i..Len(s) /\ (i + j) - 1 = i - 1 + j /\ i - 1 + (j + 1) = i + j
        /\ j + 1 \in 1..BufferSize /\ (j + 1) - 1 = j /\ i - 1 + j \in 0..Len(s)
    BY <1>2, <1>6
  <2>2. /\ f[i + j] = f[i - 1 + j] * 10 + s[i + j] /\ s[i + j] \in 0..9
        /\ g[j + 1] = g[j] * 10 + t[j + 1]
        /\ f[i - 1 + j] \in Nat /\ g[j] \in Nat /\ f[i - 1 + j] >= g[j]
    BY <1>2, <1>3, <1>6, <2>1
  <2>3. PICK d \in 0..9 : d = s[i + j] /\ (j = 0 => d # 0)
    <3>1. j = 0 => i + j = i
      BY <1>2
    <3> QED BY <2>2, <3>1
  <2>4. PICK e \in 0..9 : e = t[j + 1] /\ (j # 0 => e = 0) /\ (j = 0 => e = 1)
    BY <1>1, <2>1
  <2>5. f[i + j] >= g[j + 1]
    <3>1. e <= d
      BY <2>3, <2>4
    <3> QED BY <2>2, <2>3, <2>4, <3>1, NextMagnitude, SMTT(40)
  <2> QED BY <2>1, <2>5
<1> HIDE DEF Above
<1>7. \A j \in 0..BufferSize : j \in Above
  <2>1. 0 \in Int /\ BufferSize \in Int
    BY <1>2
  <2> QED BY <1>5, <1>6, <2>1, InductionUpTo
<1>8. f[i - 1 + BufferSize] >= g[BufferSize]
  BY <1>2, <1>7 DEF Above
<1>9. i - 1 + BufferSize \in 0..Len(s) /\ Len(s) \in (i - 1 + BufferSize)..Len(s)
  BY <1>2
<1>10. f[Len(s)] >= f[i - 1 + BufferSize]
  BY <1>9, DenotedGrows DEF f
<1>11. f[Len(s)] > MaxValue + 1
  <2>1. /\ f[Len(s)] \in Nat /\ f[i - 1 + BufferSize] \in Nat /\ g[BufferSize] \in Nat
        /\ MaxValue \in Nat
    BY <1>2, <1>3, <1>9, MaxValueAssumption
  <2> QED BY <1>4, <1>8, <1>10, <2>1
<1> QED BY <1>11 DEF Denoted, f

(***************************************************************************)
(* Writing.                                                                *)
(***************************************************************************)

Writes(g, n) ==
  g = [m \in 0..n |-> IF m < 10 THEN <<m>> ELSE Append(g[m \div 10], m % 10)]

LEMMA DividingBack ==
  ASSUME NEW a \in Nat, NEW d \in 0..9
  PROVE  (a * 10 + d) \div 10 = a /\ (a * 10 + d) % 10 = d
OBVIOUS

LEMMA WritesAt ==
  ASSUME NEW g, NEW n, Writes(g, n), NEW m \in 0..n
  PROVE  g[m] = IF m < 10 THEN <<m>> ELSE Append(g[m \div 10], m % 10)
<1>1. g = [j \in 0..n |-> IF j < 10 THEN <<j>> ELSE Append(g[j \div 10], j % 10)]
  BY DEF Writes
<1> QED BY <1>1

LEMMA Dividing ==
  ASSUME NEW n \in Nat, n >= 10
  PROVE  n \div 10 \in Nat /\ n \div 10 < n /\ n \div 10 >= 1
OBVIOUS

LEMMA WritesExists == \A n \in Nat : \E g : Writes(g, n)
<1> DEFINE Written == {n \in Nat : \E g : Writes(g, n)}
<1>1. 0 \in Written
  <2>1. Writes([m \in 0..0 |-> <<m>>], 0)
    BY DEF Writes
  <2> QED BY <2>1
<1>2. ASSUME NEW n \in Nat, n \in Written PROVE n + 1 \in Written
  <2>1. PICK g : Writes(g, n)
    BY <1>2
  <2> DEFINE h == [m \in 0..(n + 1) |-> IF m <= n THEN g[m] ELSE
                      IF m < 10 THEN <<m>> ELSE Append(g[m \div 10], m % 10)]
  <2>2. ASSUME NEW m \in 0..(n + 1)
        PROVE  h[m] = IF m < 10 THEN <<m>> ELSE Append(h[m \div 10], m % 10)
    <3>1. m >= 10 => h[m \div 10] = g[m \div 10]
      <4> SUFFICES ASSUME m >= 10 PROVE h[m \div 10] = g[m \div 10]
        OBVIOUS
      <4>1. m \div 10 \in 0..n
        BY Dividing
      <4> QED BY <4>1
    <3>2. CASE m <= n
      <4>1. g[m] = IF m < 10 THEN <<m>> ELSE Append(g[m \div 10], m % 10)
        <5>1. m \in 0..n
          BY <3>2
        <5> QED BY <2>1, <5>1, WritesAt
      <4>2. h[m] = g[m]
        BY <3>2
      <4> HIDE DEF h
      <4> QED BY <3>1, <4>1, <4>2
    <3>3. CASE m = n + 1
      <4>1. h[m] = IF m < 10 THEN <<m>> ELSE Append(g[m \div 10], m % 10)
        BY <3>3
      <4> HIDE DEF h
      <4> QED BY <3>1, <4>1
    <3> QED BY <3>2, <3>3
  <2>3. h = [m \in 0..(n + 1) |-> h[m]]
    OBVIOUS
  <2> HIDE DEF h
  <2>4. Writes(h, n + 1)
    BY <2>2, <2>3 DEF Writes
  <2> QED BY <2>4
<1> HIDE DEF Written
<1>3. \A n \in Nat : n >= 0 => n \in Written
  BY <1>1, <1>2, InductionFrom
<1> QED BY <1>3 DEF Written

LEMMA WritesUnique ==
  ASSUME NEW k \in Nat, NEW l \in Nat, NEW g, NEW h, Writes(g, k), Writes(h, l)
  PROVE  \A n \in 0..k : n <= l => g[n] = h[n]
<1> DEFINE Same == {n \in Nat : n <= k /\ n <= l => g[n] = h[n]}
<1>1. ASSUME NEW n \in Nat, \A m \in 0..(n - 1) : m \in Same PROVE n \in Same
  <2> SUFFICES ASSUME n <= k, n <= l PROVE g[n] = h[n]
    OBVIOUS
  <2>1. /\ g[n] = IF n < 10 THEN <<n>> ELSE Append(g[n \div 10], n % 10)
        /\ h[n] = IF n < 10 THEN <<n>> ELSE Append(h[n \div 10], n % 10)
    <3>1. n \in 0..k /\ n \in 0..l
      OBVIOUS
    <3> QED BY <3>1, WritesAt
  <2>2. n >= 10 => g[n \div 10] = h[n \div 10]
    <3> SUFFICES ASSUME n >= 10 PROVE g[n \div 10] = h[n \div 10]
      OBVIOUS
    <3>1. n \div 10 \in 0..(n - 1) /\ n \div 10 <= k /\ n \div 10 <= l
      BY Dividing
    <3>2. n \div 10 \in Same
      BY <1>1, <3>1
    <3> QED BY <3>1, <3>2
  <2> QED BY <2>1, <2>2
<1> HIDE DEF Same
<1>2. Nat \subseteq Same
  BY <1>1, StrongInduction
<1> QED BY <1>2 DEF Same

(* appendUnsigned writes the digits before the last one as it writes the   *)
(* number without it.                                                      *)
LEMMA DigitsOfStep ==
  ASSUME NEW n \in Nat
  PROVE  DigitsOf[n] = IF n < 10 THEN <<n>> ELSE Append(DigitsOf[n \div 10], n % 10)
<1> DEFINE Some(m) == CHOOSE g : Writes(g, m)
           f == [m \in Nat |-> Some(m)[m]]
<1>1. \A m \in Nat : Writes(Some(m), m)
  BY WritesExists
<1> HIDE DEF Some
<1>2. ASSUME NEW m \in Nat
      PROVE  f[m] = IF m < 10 THEN <<m>> ELSE Append(f[m \div 10], m % 10)
  <2>1. f[m] = IF m < 10 THEN <<m>> ELSE Append(Some(m)[m \div 10], m % 10)
    <3>1. Writes(Some(m), m) /\ m \in 0..m
      BY <1>1
    <3>2. Some(m)[m] = IF m < 10 THEN <<m>> ELSE Append(Some(m)[m \div 10], m % 10)
      BY <3>1, WritesAt
    <3> QED BY <3>2
  <2>2. CASE m < 10
    BY <2>1, <2>2
  <2>3. CASE m >= 10
    <3>1. m \div 10 \in Nat /\ m \div 10 \in 0..m
      BY <2>3, Dividing
    <3>2. Some(m)[m \div 10] = Some(m \div 10)[m \div 10]
      BY <1>1, <3>1, WritesUnique
    <3>3. f[m \div 10] = Some(m \div 10)[m \div 10]
      BY <3>1
    <3> HIDE DEF f
    <3> QED BY <2>1, <2>3, <3>2, <3>3
  <2> QED BY <2>2, <2>3
<1>3. f = [m \in Nat |-> f[m]]
  OBVIOUS
<1> HIDE DEF f
<1>4. f = [m \in Nat |-> IF m < 10 THEN <<m>> ELSE Append(f[m \div 10], m % 10)]
  BY <1>2, <1>3
<1>5. DigitsOf = [m \in Nat |-> IF m < 10 THEN <<m>> ELSE Append(DigitsOf[m \div 10], m % 10)]
  BY <1>4 DEF DigitsOf
<1> QED BY <1>5

(* What appendUnsigned writes for a number without a leading zero are its  *)
(* digits.                                                                 *)
LEMMA WritesDigits ==
  ASSUME NEW s, NEW i, Numeral(s, i), i <= Len(s), s[i] # 0
  PROVE  DigitsOf[Denoted(s, i)] = SubSeq(s, i, Len(s))
<1> DEFINE f == DenotedUpTo(s, i)
           Written == {j \in i..Len(s) : DigitsOf[f[j]] = SubSeq(s, i, j)}
<1>1. s \in Seq(Int) /\ i \in 1..2 /\ Len(s) \in Nat
  BY DEF Numeral
<1>2. \A j \in i..Len(s) : f[j] = f[j - 1] * 10 + s[j] /\ s[j] \in 0..9
  BY DenotedStep DEF Numeral, Digit
<1>3. \A j \in 0..Len(s) : f[j] \in Nat
  BY DenotedType
<1>4. f[i] = s[i] /\ s[i] \in 1..9
  <2>1. i \in i..Len(s) /\ i - 1 \in 0..Len(s) /\ i - 1 < i
    BY <1>1
  <2>2. f[i - 1] = 0
    BY <2>1, DenotedStep
  <2>3. f[i] = f[i - 1] * 10 + s[i] /\ s[i] \in 0..9
    BY <1>2, <2>1
  <2> QED BY <2>2, <2>3
<1>5. \A j \in i..Len(s) : f[j] >= f[i]
  BY <1>1, DenotedGrows
<1> HIDE DEF f
<1>6. i \in Written
  <2>1. DigitsOf[s[i]] = <<s[i]>>
    <3>1. PICK n \in Nat : n = s[i] /\ n < 10
      BY <1>4
    <3> QED BY <3>1, DigitsOfStep
  <2>2. SubSeq(s, i, i) = <<s[i]>>
    <3>1. SubSeq(s, i, i) = [k \in 1..1 |-> s[i]]
      BY <1>1
    <3> QED BY <3>1
  <2> QED BY <1>1, <1>4, <2>1, <2>2
<1>7. ASSUME NEW j \in i..Len(s), j < Len(s), j \in Written PROVE j + 1 \in Written
  <2>1. j + 1 \in i..Len(s) /\ (j + 1) - 1 = j /\ j \in 0..Len(s) /\ j + 1 \in 0..Len(s)
    BY <1>1, <1>7
  <2>2. PICK d \in 0..9 : d = s[j + 1]
    BY <1>2, <2>1
  <2>3. PICK a \in Nat : a = f[j] /\ a >= 1
    BY <1>3, <1>4, <1>5, <2>1
  <2>4. f[j + 1] = a * 10 + d
    BY <1>2, <2>1, <2>2, <2>3
  <2>5. PICK n \in Nat : n = a * 10 + d /\ n >= 10
    BY <2>3
  <2>6. DigitsOf[n] = Append(DigitsOf[a], d)
    <3>1. n \div 10 = a /\ n % 10 = d
      BY <2>5, DividingBack
    <3>2. ~(n < 10)
      BY <2>5
    <3>3. DigitsOf[n] = Append(DigitsOf[n \div 10], n % 10)
      BY <3>2, DigitsOfStep
    <3> QED BY <3>1, <3>3
  <2>7. Append(SubSeq(s, i, j), s[j + 1]) = SubSeq(s, i, j + 1)
    BY <1>1, <2>1
  <2> QED BY <1>7, <2>1, <2>2, <2>3, <2>4, <2>5, <2>6, <2>7
<1> HIDE DEF Written
<1>8. \A j \in i..Len(s) : j \in Written
  <2>1. i \in Int /\ Len(s) \in Int
    BY <1>1
  <2> QED BY <1>6, <1>7, <2>1, InductionUpTo
<1> QED BY <1>1, <1>8 DEF Written, Denoted, f

(***************************************************************************)
(* What the conversion means.                                              *)
(***************************************************************************)

\* Where the digits of the buffer start.
First == IF Negative THEN 2 ELSE 1

(***************************************************************************)
(* The magnitude is the number that the digits converted so far denote; a  *)
(* number once converted is the one its text denotes; and a character that *)
(* ended the digits is none.  RefusalsJustified is inductive with these.   *)
(***************************************************************************)
MeaningInv ==
    /\ phase = "convert" => /\ index \in First..(Len(number) + 1)
                            /\ result = DenotedUpTo(number, First)[index - 1]
    /\ phase \in {"boundary", "colon", "payload", "integer", "string"} =>
          value = Meaning(number)
    /\ phase \in {"convert", "boundary", "colon"} => look \notin Digit
    /\ phase = "colon" => role # "integer"
    /\ RefusalsJustified

LEMMA NumberIsNumeral ==
  ASSUME IInv
  PROVE  /\ Numeral(number, First) /\ First \in 1..(Len(number) + 1)
         /\ Meaning(number) = IF Negative THEN -Denoted(number, First)
                              ELSE Denoted(number, First)
<1>1. number \in Seq(Digit \cup {Minus}) /\ Len(number) \in Nat
  BY DEF IInv, TypeOK
<1>2. number \in Seq(Int)
  BY <1>1 DEF Digit, Minus
<1>3. Negative => Len(number) >= 1
  BY <1>1 DEF Negative
<1>4. \A j \in First..Len(number) : number[j] \in Digit
  <2> SUFFICES ASSUME NEW j \in First..Len(number) PROVE number[j] \in Digit
    OBVIOUS
  <2>1. CASE j >= 2
    BY <1>1, <2>1 DEF IInv, Shape, First
  <2>2. CASE j = 1
    <3>1. ~Negative /\ number # <<>>
      BY <1>1, <2>2 DEF First
    <3>2. number[1] \in Digit \cup {Minus}
      BY <1>1, <2>2, ElementOfSeq DEF First
    <3> QED BY <2>2, <3>1, <3>2 DEF Negative
  <2> QED BY <1>1, <2>1, <2>2 DEF First
<1>5. First \in 1..2 /\ First \in 1..(Len(number) + 1)
  BY <1>1, <1>3 DEF First
<1> QED BY <1>2, <1>4, <1>5 DEF Numeral, Meaning, First, Negative

(* The test that divides refuses no digit that fits.                       *)
LEMMA RefusedDigit ==
  ASSUME NEW r \in Nat, NEW l \in Nat, NEW d \in 0..9, l >= 9, r > (l - d) \div 10
  PROVE  r * 10 + d > l
OBVIOUS

(* A magnitude above the limit is out of the range of IntegerType.         *)
LEMMA AboveLimit ==
  ASSUME IInv, Denoted(number, First) \in Nat, Denoted(number, First) > Limit
  PROVE  ~Representable(Meaning(number))
BY NumberIsNumeral, MaxValueAssumption DEF Limit, Representable

LEMMA InitMeans == Init => MeaningInv
BY DEF Init, MeaningInv, RefusalsJustified

(* One round of the conversion.                                            *)
LEMMA AccumulateMeans ==
  ASSUME IInv, MeaningInv, Accumulate
  PROVE  MeaningInv'
<1> DEFINE f == DenotedUpTo(number, First)
<1>1. /\ UNCHANGED <<look, role, phase, number, value>>
      /\ index' = index + 1 /\ phase = "convert" /\ Converting /\ ~Overflows
      /\ result' = Unsigned(result * 10 + number[index])
  BY DEF Accumulate, Converting
<1>2. result * 10 + number[index] \in 0..Limit
  BY <1>1, AcceptedDigitFits
<1>3. result' = result * 10 + number[index]
  <2> DEFINE sum == result * 10 + number[index]
  <2>1. sum \in Nat /\ sum < 2 * (MaxValue + 1) /\ 2 * (MaxValue + 1) \in Nat
    BY <1>2, LimitRange, MaxValueAssumption
  <2> HIDE DEF sum
  <2>2. sum % (2 * (MaxValue + 1)) = sum
    BY <2>1, SmallRemainder
  <2>3. result' = Unsigned(sum)
    BY <1>1 DEF sum
  <2> QED BY <2>2, <2>3 DEF Unsigned, sum
<1>4. index \in First..Len(number) /\ Len(number) \in Nat /\ First \in 1..2
  BY <1>1, NumberIsNumeral DEF MeaningInv, Converting, Numeral, IInv, TypeOK
<1>5. f[index] = f[index - 1] * 10 + number[index] /\ result = f[index - 1]
  BY <1>1, <1>4, NumberIsNumeral, DenotedStep DEF MeaningInv
<1>6. First' = First /\ index' - 1 = index /\ index' \in First..(Len(number) + 1)
  BY <1>1, <1>4 DEF First, Negative
<1> HIDE DEF f
<1>7. result' = f[index' - 1]
  BY <1>3, <1>5, <1>6
<1>8. RefusalsJustified'
  BY <1>1 DEF RefusalsJustified
<1>9. look \notin Digit
  BY <1>1 DEF MeaningInv
<1> QED BY <1>1, <1>6, <1>7, <1>8, <1>9 DEF MeaningInv, f

(* A number that is refused for its size is out of range.                  *)
LEMMA OverflowMeans ==
  ASSUME IInv, MeaningInv, OverflowFound
  PROVE  MeaningInv'
<1> DEFINE f == DenotedUpTo(number, First)
<1>1. /\ UNCHANGED <<look, role, number, value>>
      /\ phase = "convert" /\ Converting /\ Overflows
      /\ phase' \in {"huge integer", "huge length"}
  BY DEF OverflowFound, Converting
<1>2. index \in First..Len(number) /\ Len(number) \in Nat /\ First \in 1..2
  <2>1. Len(number) \in Nat /\ First \in 1..2
    BY NumberIsNumeral DEF Numeral
  <2>2. index \in First..(Len(number) + 1) /\ index <= Len(number)
    BY <1>1 DEF MeaningInv, Converting
  <2> QED BY <2>1, <2>2
<1>3. f[index] = f[index - 1] * 10 + number[index] /\ result = f[index - 1]
  BY <1>1, <1>2, NumberIsNumeral, DenotedStep DEF MeaningInv
<1>4. PICK d \in 0..9 : d = number[index]
  BY <1>1, ConvertedDigit DEF Digit
<1>5. PICK r \in Nat : r = result
  BY DEF IInv, TypeOK
<1>6. r > (Limit - d) \div 10
  BY <1>1, <1>4, <1>5 DEF Overflows
<1>7. r * 10 + d > Limit
  BY <1>6, LimitRange, RefusedDigit
<1>8. /\ index \in 0..Len(number) /\ Len(number) \in index..Len(number)
      /\ Len(number) \in 0..Len(number)
  BY <1>2
<1>9. f[Len(number)] >= f[index] /\ f[Len(number)] \in Nat /\ f[index] \in Nat
  BY <1>8, NumberIsNumeral, DenotedGrows, DenotedType
<1> HIDE DEF f
<1>10. f[index] > Limit
  BY <1>3, <1>4, <1>5, <1>7
<1>11. f[Len(number)] > Limit
  BY <1>9, <1>10, LimitRange
<1>12. ~Representable(Meaning(number))
  BY <1>9, <1>11, AboveLimit DEF Denoted, f
<1>13. Looked' = number
  BY <1>1 DEF Looked
<1> QED BY <1>1, <1>12, <1>13 DEF MeaningInv, RefusalsJustified, Representable

(* The number with its sign is the one the text denotes.                   *)
LEMMA ConvertedMeans ==
  ASSUME IInv, MeaningInv, Converted
  PROVE  MeaningInv'
<1>1. /\ UNCHANGED <<look, role, number>> /\ phase = "convert" /\ index > Len(number)
      /\ phase' = IF role = "integer" THEN "boundary" ELSE "colon"
      /\ value' = IF Negative THEN Negated(Signed(result)) ELSE Signed(result)
  BY DEF Converted
<1>2. result = Denoted(number, First)
  <2>1. Len(number) \in Nat /\ First \in 1..2 /\ index \in First..(Len(number) + 1)
    BY <1>1, NumberIsNumeral DEF Numeral, IInv, TypeOK, MeaningInv
  <2>2. index - 1 = Len(number)
    BY <1>1, <2>1
  <2> QED BY <1>1, <2>2 DEF MeaningInv, Denoted
<1>3. value' = IF Negative THEN -result ELSE result
  <2>1. result \in Nat /\ result <= Limit
    BY DEF IInv, TypeOK
  <2> QED BY <1>1, <2>1, MaxValueAssumption DEF Limit, Signed, Negated
<1>4. value' = Meaning(number)
  BY <1>2, <1>3, NumberIsNumeral
<1>5. RefusalsJustified'
  BY <1>1 DEF RefusalsJustified
<1> QED BY <1>1, <1>4, <1>5 DEF MeaningInv

(* A number that does not fit the buffer, or has no digits the format      *)
(* allows, is refused; any other is converted from its first digit.        *)
LEMMA BufferMeans ==
  ASSUME IInv, MeaningInv, ReadDigit \/ CheckNumber
  PROVE  MeaningInv'
<1>1. CASE ReadDigit
  <2>1. CASE Len(number) # BufferSize
    <3>1. phase' = "digits"
      BY <1>1, <2>1 DEF ReadDigit
    <3> QED BY <3>1 DEF MeaningInv, RefusalsJustified
  <2>2. CASE Len(number) = BufferSize
    <3>1. UNCHANGED <<look, role, number, value>> /\ phase' = "malformed" /\ look \in Digit
      BY <1>1, <2>2 DEF ReadDigit
    <3> DEFINE text == Append(number, look)
    <3>2. /\ number \in Seq(Int) /\ Len(number) \in Nat /\ Len(number) >= 2 /\ First \in 1..2
          /\ \A j \in First..Len(number) : number[j] \in Digit
      BY <2>2, NumberIsNumeral, BufferAssumption DEF Numeral
    <3>3. /\ text \in Seq(Int) /\ Len(text) = Len(number) + 1 /\ text[Len(text)] = look
          /\ \A j \in 1..Len(number) : text[j] = number[j]
      BY <3>1, <3>2, AppendProperties DEF Digit
    <3>4. Looked' = text
      BY <3>1 DEF Looked
    <3> HIDE DEF text
    <3>5. Numeral(text, First)
      <4> SUFFICES ASSUME NEW j \in First..Len(text) PROVE text[j] \in Digit
        BY <3>2, <3>3 DEF Numeral
      <4>1. CASE j = Len(text)
        BY <3>1, <3>3, <4>1
      <4>2. CASE j # Len(text)
        <5>1. j \in First..Len(number) /\ j \in 1..Len(number)
          BY <3>2, <3>3, <4>2
        <5> QED BY <3>2, <3>3, <5>1
      <4> QED BY <4>1, <4>2
    <3>6. text # <<>> /\ text # <<0>> /\ number # <<>> /\ text[1] = number[1]
      <4>1. 1 \in 1..Len(number) /\ Len(text) >= 3
        BY <3>2, <3>3
      <4> QED BY <3>2, <3>3, <4>1
    <3>7. CASE text[First] = 0
      <4>1. ~Canonical(text)
        <5>1. CASE Negative
          <6>1. text[1] = Minus /\ Tail(text)[1] = 0
            BY <3>2, <3>3, <3>6, <3>7, <5>1 DEF Negative, First
          <6> QED BY <3>6, <6>1 DEF Canonical
        <5>2. CASE ~Negative
          <6>1. text[1] # Minus /\ text[1] = 0
            BY <3>6, <3>7, <5>2 DEF Negative, First
          <6> QED BY <3>6, <6>1 DEF Canonical
        <5> QED BY <5>1, <5>2
      <4> QED BY <3>1, <3>4, <4>1 DEF MeaningInv, RefusalsJustified
    <3>8. CASE text[First] # 0
      <4>1. Len(text) + 1 >= BufferSize + First
        BY <2>2, <3>2, <3>3
      <4>2. Denoted(text, First) > MaxValue + 1
        BY <3>5, <3>8, <4>1, TooManyDigits
      <4>3. Denoted(text, First) \in Nat
        <5>1. Len(text) \in 0..Len(text)
          BY <3>2, <3>3
        <5> QED BY <3>5, <5>1, DenotedType DEF Denoted
      <4>4. Meaning(text) = IF Negative THEN -Denoted(text, First) ELSE Denoted(text, First)
        BY <3>6 DEF Meaning, Negative, First
      <4>5. ~Representable(Meaning(text))
        BY <4>2, <4>3, <4>4, MaxValueAssumption DEF Representable
      <4> QED BY <3>1, <3>4, <4>5 DEF MeaningInv, RefusalsJustified, Representable
    <3> QED BY <3>7, <3>8
  <2> QED BY <2>1, <2>2
<1>2. CASE CheckNumber
  <2>1. UNCHANGED <<look, role, number, result, value>> /\ look \notin Digit
        /\ index' = First /\ phase = "digits"
    BY <1>2 DEF CheckNumber, First
  <2>2. number \in Seq(Int) /\ Len(number) \in Nat
    BY NumberIsNumeral DEF Numeral
  <2>3. CASE BadNumber
    <3>1. phase' = "malformed" /\ Looked' = number
      BY <1>2, <2>1, <2>3 DEF CheckNumber, Looked
    <3>2. ~Canonical(number)
      <4>1. CASE number = <<>>
        BY <4>1 DEF Canonical
      <4>2. CASE number[1] = 0 /\ Len(number) > 1
        <5>1. number # <<>> /\ number # <<0>>
          <6>1. Len(number) # 0 /\ Len(number) # 1
            <7>1. Len(number) > 1
              BY <4>2
            <7>2. Len(number) \in Nat
              BY <2>2
            <7>3. \A n \in Nat : n > 1 => n # 0 /\ n # 1
              OBVIOUS
            <7> QED BY <7>1, <7>2, <7>3, Zenon
          <6>2. number # <<>>
            BY <6>1
          <6>3. number # <<0>>
            BY <6>1
          <6> QED BY <6>2, <6>3
        <5>2. number[1] # Minus
          BY <4>2 DEF Minus
        <5> QED BY <4>2, <5>1, <5>2 DEF Canonical
      <4>3. CASE number = <<Minus, 0>>
        <5>1. number[1] = Minus /\ Tail(number)[1] = 0 /\ number # <<0>> /\ number # <<>>
          BY <4>3
        <5> QED BY <5>1 DEF Canonical
      <4> QED BY <2>3, <4>1, <4>2, <4>3 DEF BadNumber
    <3> QED BY <3>1, <3>2 DEF MeaningInv, RefusalsJustified, Canonical
  <2>4. CASE ~BadNumber
    <3>1. phase' = "convert"
      BY <1>2, <2>4 DEF CheckNumber
    <3>2. First \in 1..2 /\ First \in First..(Len(number) + 1) /\ First - 1 \in 0..Len(number)
          /\ First - 1 < First
      BY <2>2, NumberIsNumeral DEF Numeral
    <3>3. DenotedUpTo(number, First)[First - 1] = 0
      BY <3>2, NumberIsNumeral, DenotedStep
    <3>4. result = 0 /\ First' = First
      BY <2>1 DEF IInv, Early, First, Negative
    <3>5. RefusalsJustified'
      BY <3>1 DEF RefusalsJustified
    <3> QED BY <2>1, <3>1, <3>2, <3>3, <3>4, <3>5 DEF MeaningInv
  <2> QED BY <2>3, <2>4
<1> QED BY <1>1, <1>2

(* The steps before and behind the number.                                 *)
LEMMA OtherStepsMean ==
  ASSUME IInv, MeaningInv,
         \/ ParseScalar \/ ParseStringKey \/ ReadSign \/ ConfirmBoundary
         \/ ReadColon \/ CopyPayload \/ PayloadCopied
  PROVE  MeaningInv'
<1>1. CASE ParseScalar
  <2>1. number = <<>> /\ number' = number /\ phase' \in {"sign", "malformed"}
    BY <1>1 DEF ParseScalar, IInv
  <2>2. phase' = "malformed" => Looked' = <<>>
    BY <1>1, <2>1 DEF ParseScalar, Looked
  <2>3. ~Canonical(<<>>)
    BY DEF Canonical
  <2> QED BY <2>1, <2>2, <2>3 DEF MeaningInv, RefusalsJustified
<1>2. CASE ParseStringKey
  BY <1>2 DEF ParseStringKey, MeaningInv, RefusalsJustified
<1>3. CASE ReadSign
  BY <1>3 DEF ReadSign, MeaningInv, RefusalsJustified
<1>4. CASE ConfirmBoundary
  BY <1>4 DEF ConfirmBoundary, MeaningInv, RefusalsJustified
<1>5. CASE ReadColon
  <2>1. UNCHANGED <<number, value, role>> /\ phase = "colon"
        /\ phase' \in {"malformed", "payload"}
    BY <1>5 DEF ReadColon
  <2>2. role # "integer" /\ value = Meaning(number) /\ value \in Int
    BY <2>1 DEF MeaningInv, IInv, TypeOK
  <2>3. phase' = "malformed" => value \notin 0..maxStringLength \/ look' # Colon
    <3>1. CASE value < 0 \/ look # Colon
      BY <1>5, <2>2, <3>1 DEF ReadColon
    <3>2. CASE ~(value < 0 \/ look # Colon)
      BY <1>5, <2>2, <3>2, LengthAssumption DEF ReadColon
    <3> QED BY <3>1, <3>2
  <2> QED BY <2>1, <2>2, <2>3 DEF MeaningInv, RefusalsJustified
<1>6. CASE CopyPayload
  <2>1. UNCHANGED <<number, value>> /\ phase = "payload" /\ phase' \in {"payload", "cut"}
    BY <1>6 DEF CopyPayload
  <2> QED BY <2>1 DEF MeaningInv, RefusalsJustified
<1>7. CASE PayloadCopied
  BY <1>7 DEF PayloadCopied, MeaningInv, RefusalsJustified
<1> QED BY <1>1, <1>2, <1>3, <1>4, <1>5, <1>6, <1>7

LEMMA StepMeans == IInv /\ MeaningInv /\ [Next]_vars => MeaningInv'
<1> SUFFICES ASSUME IInv, MeaningInv, [Next]_vars PROVE MeaningInv'
  OBVIOUS
<1>1. CASE UNCHANGED vars
  BY <1>1 DEF vars, MeaningInv, RefusalsJustified, First, Negative, Looked
<1>2. CASE Accumulate
  BY <1>2, AccumulateMeans
<1>3. CASE OverflowFound
  BY <1>3, OverflowMeans
<1>4. CASE Converted
  BY <1>4, ConvertedMeans
<1>5. CASE ReadDigit \/ CheckNumber
  BY <1>5, BufferMeans
<1>6. CASE \/ ParseScalar \/ ParseStringKey \/ ReadSign \/ ConfirmBoundary
           \/ ReadColon \/ CopyPayload \/ PayloadCopied
  BY <1>6, OtherStepsMean
<1> QED BY <1>1, <1>2, <1>3, <1>4, <1>5, <1>6 DEF Next

LEMMA MeaningInvariance == Spec => []MeaningInv
BY InitMeans, StepMeans, ScannerInvariance, PTL DEF Spec

(* A number that is accepted has the value its text denotes, whatever the  *)
(* width of IntegerType and the size of the buffer.                        *)
THEOREM ValueIsTheTexts == Spec => []ValueIsMeaning
<1>1. IInv /\ MeaningInv => ValueIsMeaning
  BY DEF IInv, MeaningInv, ValueIsMeaning
<1> QED BY <1>1, MeaningInvariance, ScannerInvariance, PTL

(* No number that the format allows and that fits is refused: neither the  *)
(* overflow test nor the size of the buffer is too strict.                 *)
THEOREM NothingRefusedInVain == Spec => []RefusalsJustified
<1>1. MeaningInv => RefusalsJustified
  BY DEF MeaningInv
<1> QED BY <1>1, MeaningInvariance, PTL


(* Writing an accepted number gives back its text: what was read is        *)
(* written as it was read, the least number included.                      *)
THEOREM WritesBackWhatWasRead == Spec => []WritesBack
<1>1. IInv /\ MeaningInv => WritesBack
  <2> SUFFICES ASSUME IInv, MeaningInv, phase \in {"integer", "string"}, Canonical(number)
               PROVE  AppendInteger(value) = number
    BY DEF WritesBack
  <2> DEFINE magnitude == Denoted(number, First)
  <2>1. /\ value = Meaning(number) /\ Representable(value)
        /\ value = IF Negative THEN -magnitude ELSE magnitude
    BY NumberIsNumeral DEF IInv, MeaningInv
  <2>2. /\ number \in Seq(Int) /\ Len(number) \in Nat /\ First \in 1..(Len(number) + 1)
        /\ number # <<>>
    BY NumberIsNumeral DEF Numeral, Canonical
  <2>3. magnitude \in Nat
    <3>1. Len(number) \in 0..Len(number)
      BY <2>2
    <3> QED BY <3>1, NumberIsNumeral, DenotedType DEF Denoted
  <2>4. CASE Negative
    <3>1. First = 2 /\ number[1] = Minus /\ Tail(number) # <<>>
      BY <2>4 DEF First, Negative, Canonical
    <3>2. /\ Len(number) >= 2 /\ Tail(number)[1] = number[2]
          /\ Tail(number) = SubSeq(number, 2, Len(number))
      BY <2>2, <3>1, TailIsSubSeq, HeadTailProperties, EmptySeq
    <3>3. number[2] # 0
      BY <2>2, <3>1, <3>2 DEF Canonical, Minus
    <3>4. DigitsOf[magnitude] = Tail(number)
      BY <2>2, <3>1, <3>2, <3>3, NumberIsNumeral, WritesDigits
    <3>5. magnitude >= 1
      <4>1. 2 \in 2..Len(number) /\ 1 \in 0..Len(number) /\ 2 \in 0..Len(number)
            /\ Len(number) \in 2..Len(number)
        BY <2>2, <3>2
      <4>2. DenotedUpTo(number, 2)[1] = 0
            /\ DenotedUpTo(number, 2)[2] = DenotedUpTo(number, 2)[2 - 1] * 10 + number[2]
        BY <3>1, <4>1, NumberIsNumeral, DenotedStep
      <4>3. number[2] \in 1..9
        BY <3>1, <3>3, <4>1, NumberIsNumeral DEF Numeral, Digit
      <4>4. DenotedUpTo(number, 2)[2] >= 1
        BY <4>2, <4>3
      <4>5. magnitude >= DenotedUpTo(number, 2)[2]
        BY <3>1, <4>1, NumberIsNumeral, DenotedGrows DEF Denoted
      <4> QED BY <2>3, <4>2, <4>3, <4>4, <4>5
    <3>6. value \in Int /\ value < 0 /\ IntegerToUnsigned(value) = magnitude
      BY <2>1, <2>3, <2>4, <3>5, MagnitudeExact
    <3>7. AppendInteger(value) = <<Minus>> \o Tail(number)
      BY <3>4, <3>6 DEF AppendInteger
    <3>8. number = <<Minus>> \o Tail(number)
      BY <2>2, <3>1
    <3> QED BY <3>7, <3>8
  <2>5. CASE ~Negative
    <3>1. First = 1 /\ number[1] # Minus
      BY <2>2, <2>5 DEF First, Negative
    <3>2. Len(number) >= 1
      BY <2>2
    <3>3. AppendInteger(value) = DigitsOf[magnitude]
      BY <2>1, <2>3, <2>5 DEF AppendInteger
    <3>4. CASE number[1] # 0
      <4>1. DigitsOf[magnitude] = SubSeq(number, 1, Len(number))
        BY <3>1, <3>2, <3>4, NumberIsNumeral, WritesDigits
      <4> QED BY <2>2, <3>3, <4>1, SubSeqFull
    <3>5. CASE number[1] = 0
      <4>1. number = <<0>>
        BY <3>1, <3>5 DEF Canonical
      <4>2. Len(number) = 1 /\ 1 \in 1..Len(number) /\ 0 \in 0..Len(number)
        BY <4>1
      <4>3. magnitude = DenotedUpTo(number, 1)[1 - 1] * 10 + number[1]
            /\ DenotedUpTo(number, 1)[0] = 0
        BY <3>1, <4>2, NumberIsNumeral, DenotedStep DEF Denoted
      <4>4. magnitude = 0
        BY <3>5, <4>3
      <4>5. DigitsOf[0] = <<0>>
        <5>1. \A n \in Nat : n < 10 => DigitsOf[n] = <<n>>
          BY DigitsOfStep
        <5> QED BY <5>1
      <4> QED BY <3>3, <4>1, <4>4, <4>5
    <3> QED BY <3>4, <3>5
  <2> QED BY <2>4, <2>5
<1> QED BY <1>1, MeaningInvariance, ScannerInvariance, PTL

==============================================================================
