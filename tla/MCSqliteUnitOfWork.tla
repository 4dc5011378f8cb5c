------------------------- MODULE MCSqliteUnitOfWork -------------------------
(* A small instance of SqliteUnitOfWork for TLC. *)
EXTENDS SqliteUnitOfWork

CONSTANTS u1, u2, a1, j1, e1, l1, l2

MCCaseFold == [code \in Codes |-> IF code = "CASH" THEN "cash" ELSE code]

Transfer ==
    [journal_id |-> j1,
     lines |-> <<[id |-> l1, journal_entry_id |-> e1, account_id |-> a1, side |-> "debit",
                  minor_units |-> 1, currency |-> "EUR"],
                 [id |-> l2, journal_entry_id |-> e1, account_id |-> a1, side |-> "credit",
                  minor_units |-> 1, currency |-> "EUR"]>>]

OneTransfer == {Transfer}
=============================================================================
