-------------------------------- MODULE Money --------------------------------
(***************************************************************************)
(* Amounts of money on their way from a caller into a record, through the  *)
(* validated copies repositories make, into a row and back                 *)
(* (lumbago/models/money.py).  A decimal is what Decimal.as_tuple gives: a *)
(* sign, digits and an exponent.  Infinities, NaN and floats are refused   *)
(* before any of this, and currencies left out.                            *)
(***************************************************************************)
EXTENDS Integers, Sequences, SequencesExt

CONSTANTS
    Given,           \* the decimals callers may give
    MaxMinorUnits,   \* MAX_MINOR_UNITS
    Places           \* no given decimal has more decimal places

ASSUME MaxMinorUnitsAssumption == MaxMinorUnits \in Nat
ASSUME PlacesAssumption == Places \in Nat /\ Places >= 2

Decimal == [negative : BOOLEAN, digits : Seq(0..9), exponent : Int]

ASSUME GivenAssumption ==
    \A d \in Given : d \in Decimal /\ d.digits # <<>> /\ d.exponent >= -Places

VARIABLES
    given,    \* the decimal the caller gave
    place,    \* where its amount is now
    amount,   \* Money.amount, when in a record
    units     \* amount_minor, when in a row

vars == <<given, place, amount, units>>

PowerOfTen[n \in Nat] == IF n = 0 THEN 1 ELSE 10 * PowerOfTen[n - 1]

Number(digits) == FoldLeft(LAMBDA n, digit : 10 * n + digit, 0, digits)

\* The digits of n as Decimal keeps them, without leading zeros.
DigitsOf(n) ==
    LET length == CHOOSE k \in 1..(n + 1) : n < PowerOfTen[k] /\ (k = 1 \/ n >= PowerOfTen[k - 1]) IN
    [i \in 1..length |-> (n \div PowerOfTen[length - i]) % 10]

IsZero(d) == \A i \in DOMAIN d.digits : d.digits[i] = 0

\* The value of d in units of 10^-Places: how Decimal compares.
Scaled(d) == Number(d.digits) * PowerOfTen[d.exponent + Places]

-----------------------------------------------------------------------------
(* The conversions.                                                        *)

\* Slip: the size of the amount is not looked at.
NegativeOnly(d) == d.negative /\ ~IsZero(d)

OutOfRange(d) ==
    \/ d.negative /\ ~IsZero(d)
    \/ Scaled(d) > MaxMinorUnits * PowerOfTen[Places - 2]

Shift(d) == d.exponent + 2

\* digits[shift:] for a negative shift.
CutOff(d) == {i \in DOMAIN d.digits : i > Len(d.digits) + Shift(d)}

\* Slip: the digits behind the second place are cut off unseen.
NeverFractional(d) == FALSE

\* Slip: every decimal written with more than two places is refused.
LongFraction(d) == Shift(d) < 0

\* A decimal with fractions of a hundredth.
Fractional(d) == Shift(d) < 0 /\ \E i \in CutOff(d) : d.digits[i] # 0

Accepted(d) == ~OutOfRange(d) /\ (IsZero(d) \/ ~Fractional(d))

to_minor_units(d) ==
    IF IsZero(d) THEN 0
    ELSE IF Shift(d) < 0 THEN Number(SubSeq(d.digits, 1, Len(d.digits) + Shift(d)))
    ELSE Number(d.digits) * PowerOfTen[Shift(d)]

from_minor_units(n) == [negative |-> FALSE, digits |-> DigitsOf(n), exponent |-> -2]

normalize_amount(d) == from_minor_units(to_minor_units(d))

-----------------------------------------------------------------------------
Nothing == from_minor_units(0)

(* A record never shows a negative amount, nor more or less than two       *)
(* places, and a row holds at least one hundredth and no more than fit.    *)
TypeOK ==
    /\ given \in Given
    /\ place \in {"caller", "refused", "record", "row"}
    /\ amount \in Decimal /\ ~amount.negative /\ amount.exponent = -2
    /\ units \in 0..MaxMinorUnits
    /\ place = "row" => units > 0

Init ==
    /\ given \in Given
    /\ place = "caller"
    /\ amount = Nothing
    /\ units = 0

Refuse ==
    /\ place = "caller" /\ ~Accepted(given)
    /\ place' = "refused"
    /\ UNCHANGED <<given, amount, units>>

Construct ==
    /\ place = "caller" /\ Accepted(given)
    /\ place' = "record"
    /\ amount' = normalize_amount(given)
    /\ UNCHANGED <<given, units>>

\* Repositories validate what they take and what they return.
Copy ==
    /\ place = "record" /\ Accepted(amount)
    /\ amount' = normalize_amount(amount)
    /\ UNCHANGED <<given, place, units>>

\* A journal line carries no zero; entry_to_row.
Store ==
    /\ place = "record" /\ ~IsZero(amount)
    /\ place' = "row"
    /\ units' = to_minor_units(amount)
    /\ UNCHANGED <<given, amount>>

\* entry_from_row, which validates the amount again.
Fetch ==
    /\ place = "row"
    /\ place' = "record"
    /\ amount' = normalize_amount(from_minor_units(units))
    /\ UNCHANGED <<given, units>>

Next == Refuse \/ Construct \/ Copy \/ Store \/ Fetch

Spec == Init /\ [][Next]_vars

-----------------------------------------------------------------------------
(* However often it is copied, stored and fetched, the amount is the one   *)
(* the caller gave, to the last hundredth, and shows two places.           *)
AmountExact ==
    /\ place = "record" => Scaled(amount) = Scaled(given) /\ amount.exponent = -2
    /\ place = "row" => units * PowerOfTen[Places - 2] = Scaled(given)

(* Money holds every whole number of hundredths from zero to its maximum,  *)
(* however it is written: trailing zeros, exponents, minus zero.           *)
RefusedRightly ==
    place = "refused" =>
        ~\E n \in 0..MaxMinorUnits :
            n * PowerOfTen[Places - 2] = (IF given.negative THEN -1 ELSE 1) * Scaled(given)
=============================================================================
