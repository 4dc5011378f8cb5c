------------------------------- MODULE MCMoney -------------------------------
(* Every decimal of up to four digits 0, 1 and 9, with four places at most. *)
EXTENDS Money

MCDigits ==
    {<<0>>} \cup {digits \in UNION {[1..n -> {0, 1, 9}] : n \in 1..4} : digits[1] # 0}

MCGiven == [negative : BOOLEAN, digits : MCDigits, exponent : -4..1]
=============================================================================
