---------------------------- MODULE ScalarScanner ----------------------------
(***************************************************************************)
(* How Default_Parser reads one scalar, character by character: an integer *)
(* i...e, a string length:bytes, or the string that is a dictionary key.   *)
(* How a scan ends is the kind of lexeme that DefaultParser starts from.   *)
(*                                                                         *)
(* Numbers are collected in a buffer of fixed size and converted in        *)
(* unsigned arithmetic.  MaxValue stands for the largest IntegerType: the  *)
(* library has 2^63 - 1, and nothing here depends on it but the limits.    *)
(***************************************************************************)
EXTENDS Integers, Sequences

CONSTANTS
    MaxValue,         \* numeric_limits<IntegerType>::max()
    BufferSize,       \* digits10 + 2
    maxStringLength   \* String::maxStringLength

ASSUME MaxValueAssumption == MaxValue \in Nat /\ MaxValue > 9
ASSUME BufferAssumption == BufferSize \in Nat /\ BufferSize >= 2
ASSUME LengthAssumption == maxStringLength \in Nat

\* Characters: a digit stands for itself, Letter is the i of an integer, Other
\* is every byte with no role, Ended the end of the source.
Digit  == 0..9
Minus  == 10
Plus   == 11
Colon  == 12
End    == 13
Letter == 14
Other  == 15
Ended  == 16
Char   == Digit \cup {Minus, Plus, Colon, End, Letter, Other, Ended}

VARIABLES
    look,     \* ISource::current()
    role,     \* what is scanned: "integer", "string" or "key"
    phase,    \* where in the code the scan is
    number,   \* the buffer of extractInteger, up to digits
    index,    \* convertToInteger: the next character of number
    result,   \* convertToInteger: the magnitude so far
    value,    \* the converted number
    copied    \* copySourceToBuffer: bytes copied

vars == <<look, role, phase, number, index, result, value, copied>>

\* How a scan ends: with a lexeme of one of these kinds.
Verdict == {"integer", "string", "cut", "huge integer", "huge length",
            "unterminated", "malformed"}
Phase == {"scalar", "sign", "digits", "convert", "boundary", "colon", "payload"}

Negative == number # <<>> /\ number[1] = Minus

\* Mutant: the limit of positive numbers for all.
LimitSymmetric == MaxValue

\* The largest magnitude: one more below zero than above.
Limit == IF Negative THEN MaxValue + 1 ELSE MaxValue

\* Unsigned arithmetic has one bit more than IntegerType.
Unsigned(n) == n % (2 * (MaxValue + 1))

------------------------------------------------------------------------------
\* next(): any character may follow.  It is never called at the end.
NextChar == look # Ended /\ look' \in Char

ParseScalar ==
    /\ phase = "scalar" /\ role # "key"
    /\ IF look = Letter
       THEN role' = "integer" /\ phase' = "sign" /\ NextChar
       ELSE /\ role' = "string"
            /\ phase' = IF look \in Digit \cup {Minus, Plus} THEN "sign" ELSE "malformed"
            /\ UNCHANGED look
    /\ UNCHANGED <<number, index, result, value, copied>>

ParseStringKey ==
    /\ phase = "scalar" /\ role = "key"
    /\ phase' = "sign"
    /\ UNCHANGED <<look, role, number, index, result, value, copied>>

ReadSign ==
    /\ phase = "sign"
    /\ phase' = "digits"
    /\ IF look = Minus
       THEN number' = <<Minus>> /\ NextChar
       ELSE UNCHANGED <<number, look>>
    /\ UNCHANGED <<role, index, result, value, copied>>

\* Mutant: off by one.
ReadDigitPastBuffer ==
    /\ phase = "digits"
    /\ look \in Digit
    /\ IF Len(number) > BufferSize
       THEN phase' = "malformed" /\ UNCHANGED <<number, look>>
       ELSE number' = Append(number, look) /\ NextChar /\ UNCHANGED phase
    /\ UNCHANGED <<role, index, result, value, copied>>

ReadDigit ==
    /\ phase = "digits"
    /\ look \in Digit
    /\ IF Len(number) = BufferSize
       THEN phase' = "malformed" /\ UNCHANGED <<number, look>>
       ELSE number' = Append(number, look) /\ NextChar /\ UNCHANGED phase
    /\ UNCHANGED <<role, index, result, value, copied>>

\* number[0] of an empty buffer is 0 bytes, not the digit 0.
BadNumber ==
    \/ number = <<>>
    \/ number[1] = 0 /\ Len(number) > 1
    \/ number = <<Minus, 0>>

CheckNumber ==
    /\ phase = "digits"
    /\ look \notin Digit
    /\ phase' = IF BadNumber THEN "malformed" ELSE "convert"
    /\ index' = IF Negative THEN 2 ELSE 1
    /\ UNCHANGED <<look, role, number, result, value, copied>>

Converting == phase = "convert" /\ index <= Len(number)

\* Mutant: the digit to come is left out of the test.
OverflowsWithoutDigit == result > Limit \div 10

\* Mutant: the test is made on the product, which may have wrapped.
OverflowsLate == Unsigned(result * 10 + number[index]) > Limit

\* The test divides so that the product below need not be computed.
Overflows == result > (Limit - number[index]) \div 10

Accumulate ==
    /\ Converting /\ ~Overflows
    /\ result' = Unsigned(result * 10 + number[index])
    /\ index' = index + 1
    /\ UNCHANGED <<look, role, phase, number, value, copied>>

OverflowFound ==
    /\ Converting /\ Overflows
    /\ phase' = IF role = "integer" THEN "huge integer" ELSE "huge length"
    /\ UNCHANGED <<look, role, number, index, result, value, copied>>

\* The cast of MaxValue + 1 to IntegerType wraps to the least value, and so
\* does its negation (undefined for the language, a neg instruction here).
Signed(n) == IF n > MaxValue THEN n - 2 * (MaxValue + 1) ELSE n
Negated(v) == IF v = -(MaxValue + 1) THEN v ELSE -v

Converted ==
    /\ phase = "convert" /\ index > Len(number)
    /\ value' = IF Negative THEN Negated(Signed(result)) ELSE Signed(result)
    /\ phase' = IF role = "integer" THEN "boundary" ELSE "colon"
    /\ UNCHANGED <<look, role, number, index, result, copied>>

ConfirmBoundary ==
    /\ phase = "boundary"
    /\ IF look = End
       THEN phase' = "integer" /\ NextChar
       ELSE phase' = "unterminated" /\ UNCHANGED look
    /\ UNCHANGED <<role, number, index, result, value, copied>>

\* Mutant: a negative length is taken for an unsigned one.
ReadColonUnsigned ==
    /\ phase = "colon"
    /\ IF look # Colon
       THEN phase' = "malformed" /\ UNCHANGED look
       ELSE NextChar /\ phase' = IF value > maxStringLength THEN "malformed" ELSE "payload"
    /\ UNCHANGED <<role, number, index, result, value, copied>>

ReadColon ==
    /\ phase = "colon"
    /\ IF value < 0 \/ look # Colon
       THEN phase' = "malformed" /\ UNCHANGED look
       ELSE NextChar /\ phase' = IF value > maxStringLength THEN "malformed" ELSE "payload"
    /\ UNCHANGED <<role, number, index, result, value, copied>>

\* Mutant: the loop does not notice the end of the source.
CopyPayloadSpins ==
    /\ phase = "payload" /\ copied < value
    /\ IF look = Ended
       THEN UNCHANGED <<look, copied, phase>>
       ELSE copied' = copied + 1 /\ NextChar /\ UNCHANGED phase
    /\ UNCHANGED <<role, number, index, result, value>>

\* At the end of the source next() throws; the byte copied before it did is
\* lost with the string.
CopyPayload ==
    /\ phase = "payload" /\ copied < value
    /\ IF look = Ended
       THEN phase' = "cut" /\ UNCHANGED <<look, copied>>
       ELSE copied' = copied + 1 /\ NextChar /\ UNCHANGED phase
    /\ UNCHANGED <<role, number, index, result, value>>

PayloadCopied ==
    /\ phase = "payload" /\ copied >= value
    /\ phase' = "string"
    /\ UNCHANGED <<look, role, number, index, result, value, copied>>

Init ==
    /\ look \in Char \ {Ended} /\ role \in {"string", "key"}
    /\ role = "key" => look # End
    /\ phase = "scalar"
    /\ number = <<>> /\ index = 1 /\ result = 0 /\ value = 0 /\ copied = 0

Next ==
    \/ ParseScalar \/ ParseStringKey \/ ReadSign \/ ReadDigit \/ CheckNumber
    \/ Accumulate \/ OverflowFound \/ Converted \/ ConfirmBoundary
    \/ ReadColon \/ CopyPayload \/ PayloadCopied

\* The scan runs in the thread that called parse, with nothing to wait for.
Spec == Init /\ [][Next]_vars /\ WF_vars(Next)

------------------------------------------------------------------------------
(* How Default_Stringify writes a number. *)

\* appendUnsigned's two loops: the digits of n, the last one first, reversed.
DigitsOf[n \in Nat] == IF n < 10 THEN <<n>> ELSE Append(DigitsOf[n \div 10], n % 10)

\* Mutant: the magnitude of a negative number is one short.
IntegerToUnsignedShort(v) == IF v < 0 THEN Unsigned(-(v + 1)) ELSE v

IntegerToUnsigned(v) == IF v < 0 THEN Unsigned(-(v + 1)) + 1 ELSE v

AppendInteger(v) ==
    IF v < 0 THEN <<Minus>> \o DigitsOf[IntegerToUnsigned(v)] ELSE DigitsOf[v]

------------------------------------------------------------------------------
(* What a text says, independently of how it is read. *)

\* The number that the digits of s from position i to each position denote.
DenotedUpTo(s, i) ==
    LET upTo[j \in 0..Len(s)] == IF j < i THEN 0 ELSE upTo[j - 1] * 10 + s[j]
    IN upTo

Denoted(s, i) == DenotedUpTo(s, i)[Len(s)]

\* digits10 is the number of digits every IntegerType has room for: the least
\* number with two digits more is out of its range.
LeastOf(n) == [j \in 1..n |-> IF j = 1 THEN 1 ELSE 0]
ASSUME DigitsAssumption == Denoted(LeastOf(BufferSize), 1) > MaxValue + 1

Meaning(s) ==
    IF s # <<>> /\ s[1] = Minus THEN -Denoted(s, 2) ELSE Denoted(s, 1)

\* The texts of numbers the format allows.
Canonical(s) ==
    LET digits == IF s # <<>> /\ s[1] = Minus THEN Tail(s) ELSE s
    IN /\ digits # <<>>
       /\ digits[1] = 0 => s = <<0>>

Representable(v) == v \in -(MaxValue + 1)..MaxValue

\* The text of the number as far as the scan has looked at it.
Looked == IF phase = "malformed" /\ look \in Digit THEN Append(number, look) ELSE number

------------------------------------------------------------------------------
(* Properties. *)

(* Every variable stays within its type and the buffer within its size.    *)
TypeOK ==
    /\ look \in Char
    /\ role \in {"integer", "string", "key"}
    /\ phase \in Phase \cup Verdict
    /\ number \in Seq(Digit \cup {Minus})
    /\ Len(number) <= BufferSize
    /\ index \in Nat \ {0}
    /\ result \in Nat
    /\ value \in Int
    /\ copied \in Nat

(* A digit that passes the test keeps the magnitude within the limit, so   *)
(* that neither the product nor the sum wraps around, not even on the way  *)
(* to the least integer.                                                   *)
NoWrap ==
    /\ result <= Limit
    /\ Converting /\ ~Overflows => result * 10 + number[index] <= Limit

(* A number that is accepted has the value its text denotes.               *)
ValueIsMeaning ==
    phase \in {"integer", "string"} => value = Meaning(number) /\ Representable(value)

(* A text is refused only for a reason: a number that the format allows    *)
(* and that fits is never taken for malformed or too large.  A length may  *)
(* be refused for being negative or above the limit, or for want of a      *)
(* colon.                                                                  *)
RefusalsJustified ==
    /\ phase \in {"huge integer", "huge length"} => ~Representable(Meaning(Looked))
    /\ phase = "malformed" =>
          \/ ~Canonical(Looked)
          \/ ~Representable(Meaning(Looked))
          \/ role # "integer" /\ (Meaning(number) \notin 0..maxStringLength \/ look # Colon)

(* Writing an accepted number gives back the text it was read from, for    *)
(* every number, the least one included.                                   *)
WritesBack ==
    phase \in {"integer", "string"} /\ Canonical(number) => AppendInteger(value) = number

(* The bytes copied fit the string they are copied to, whose size was      *)
(* bounded before the first one: a length is never negative by then.       *)
PayloadFits ==
    phase = "payload" => value \in 0..maxStringLength /\ copied <= value

(* Every scan comes to a verdict.                                          *)
ScanEnds == <>(phase \in Verdict)

(* Default_Parser_Body.hpp:40 "Check integer has no leading zero and is    *)
(* not empty ('i.e.')".                                                    *)
AcceptsCanonicalOnly == phase = "integer" => Canonical(number)

==============================================================================
