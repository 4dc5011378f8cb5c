----------------------------- MODULE MCPostings -----------------------------
(* A small instance of Postings for TLC: the entry with the last identifier *)
(* has the earliest date, the other two have the same.                      *)
EXTENDS Postings

CONSTANTS a1, j1

MCCaseFold == [code \in Codes |-> code]

MCDateOf == [e \in EntryIds |-> IF e = 3 THEN 1 ELSE 2]

Line(l, e, a, side) ==
    [id |-> l, journal_entry_id |-> e, account_id |-> a, side |-> side,
     minor_units |-> 1, currency |-> "EUR"]

Transfer(e, to, from, l) ==
    [journal_id |-> j1,
     lines |-> <<Line(l, e, to, "debit"), Line(l + 1, e, from, "credit")>>]

ThreeEntries == {Transfer(1, a1, a1, 1), Transfer(2, a1, a1, 3), Transfer(3, a1, a1, 5)}
=============================================================================
