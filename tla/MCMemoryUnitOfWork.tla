------------------------- MODULE MCMemoryUnitOfWork -------------------------
(* Small instances of MemoryUnitOfWork for TLC. *)
EXTENDS MemoryUnitOfWork

CONSTANTS s1, s2, a1, a2, j1, e1, e2, l1, l2

MCCaseFold == [code \in Codes |-> IF code = "CASH" THEN "cash" ELSE code]

Line(l, e, a, side, units, currency) ==
    [id |-> l, journal_entry_id |-> e, account_id |-> a, side |-> side,
     minor_units |-> units, currency |-> currency]

Transfer(e, to, from, l, m) ==
    [journal_id |-> j1,
     lines |-> <<Line(l, e, to, "debit", 1, "EUR"),
                 Line(m, e, from, "credit", 1, "EUR")>>]

Unbalanced(e, a) ==
    [journal_id |-> j1,
     lines |-> <<Line(l1, e, a, "debit", 2, "EUR"),
                 Line(l2, e, a, "credit", 1, "EUR")>>]

MixedCurrencies(e, a) ==
    [journal_id |-> j1,
     lines |-> <<Line(l1, e, a, "debit", 1, "EUR"),
                 Line(l2, e, a, "credit", 1, "USD")>>]

OneAccountDrafts ==
    {Transfer(e1, a1, a1, l1, l2), Transfer(e1, a1, a1, l1, l1),
     Unbalanced(e1, a1), MixedCurrencies(e1, a1)}

\* Two entries that share line ids, and one that needs a second account.
TwoEntryDrafts ==
    {Transfer(e1, a1, a1, l1, l2), Transfer(e2, a1, a1, l1, l2), Transfer(e2, a1, a2, l1, l2),
     Transfer(e2, a1, a1, l1, l1), Unbalanced(e2, a1), MixedCurrencies(e1, a1)}
=============================================================================
