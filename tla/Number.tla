--------------------------------- MODULE Number ---------------------------------
(***************************************************************************)
(* The check of an order number (internal/entity/order.go).  A number is a  *)
(* text; IsValid parses it as a machine integer and computes the Luhn       *)
(* checksum on the integer's digits.  A text is a sequence of characters,   *)
(* of which the parser tells the digits and the two signs from the rest.    *)
(***************************************************************************)
EXTENDS Integers, Sequences, SequencesExt

CONSTANTS
    IntMax,      \* the largest int; 2^63 - 1 in the program, small here
    MaxLength    \* bound: characters of a text

ASSUME NumberAssumption == IntMax \in Nat /\ MaxLength \in Nat

Digits == 0 .. 9
Plus == 10
Minus == 11
OtherCharacter == 12

Texts == BoundedSeq(Digits \cup {Plus, Minus, OtherCharacter}, MaxLength)

-----------------------------------------------------------------------------
(* strconv.Atoi: an optional sign, at least one digit, nothing else, in range. *)
Signed(t) == t # <<>> /\ t[1] \in {Plus, Minus}

Unsigned(t) == IF Signed(t) THEN Tail(t) ELSE t

\* What the parser has read after each digit.
PrefixValues(s) ==
    LET value[n \in 0 .. Len(s)] == IF n = 0 THEN 0 ELSE 10 * value[n - 1] + s[n]
    IN  value

Magnitude(t) == PrefixValues(Unsigned(t))[Len(Unsigned(t))]

IsMinus(t) == Signed(t) /\ t[1] = Minus

Parses(t) ==
    /\ Unsigned(t) # <<>>
    /\ ToSet(Unsigned(t)) \subseteq Digits
    /\ Magnitude(t) <= IF IsMinus(t) THEN IntMax + 1 ELSE IntMax

Atoi(t) == IF IsMinus(t) THEN 0 - Magnitude(t) ELSE Magnitude(t)

(* Go's division truncates: the remainder has the sign of the dividend.       *)
Quo(n) == IF n >= 0 THEN n \div 10 ELSE 0 - ((0 - n) \div 10)

Rem(n) == n - 10 * Quo(n)

Doubled(d) == IF 2 * d > 9 THEN ((2 * d) % 10) + ((2 * d) \div 10) ELSE 2 * d

\* The digits from the last to the first, every other one doubled, even says which.
LuhnSum[n \in Nat] ==
    [even \in BOOLEAN |->
        IF n = 0 THEN 0
        ELSE (IF even THEN Doubled(n % 10) ELSE n % 10) + LuhnSum[n \div 10][~even]]

\* The loop is not entered for a negative number.
checksum(n) == IF n > 0 THEN LuhnSum[n][TRUE] % 10 ELSE 0

IsValid(t) ==
    /\ Parses(t)
    /\ Rem(Rem(Atoi(t)) + checksum(Quo(Atoi(t)))) = 0

-----------------------------------------------------------------------------
(* The Luhn check as it is defined, on a sequence of digits of any length.    *)
LuhnDigits(s) ==
    [i \in DOMAIN s |-> IF (Len(s) - i) % 2 = 0 THEN s[i]
                        ELSE ((2 * s[i]) % 10) + ((2 * s[i]) \div 10)]

LuhnHolds(s) == SumFunction(LuhnDigits(s)) % 10 = 0

DigitTexts == {t \in Texts : t # <<>> /\ ToSet(t) \subseteq Digits}

(* Every number of digits only that fits into an int is accepted exactly when   *)
(* the Luhn check holds of it, leading zeros included: parsing it as an       *)
(* integer loses nothing that matters.                                       *)
DigitsFollowLuhn ==
    \A t \in DigitTexts : Magnitude(t) <= IntMax => (IsValid(t) <=> LuhnHolds(t))

(* What the check is for: a mistyped digit, or two neighbours swapped, makes a  *)
(* valid number invalid; only 09 and 90 cannot be told apart.                *)
TyposAreCaught ==
    \A t \in DigitTexts : IsValid(t) =>
        /\ \A i \in DOMAIN t : \A d \in Digits \ {t[i]} :
               ~IsValid([t EXCEPT ![i] = d])
        /\ \A i \in 1 .. Len(t) - 1 :
               t[i] # t[i + 1] /\ {t[i], t[i + 1]} # {0, 9} =>
                   ~IsValid([t EXCEPT ![i] = t[i + 1], ![i + 1] = t[i]])
=============================================================================
