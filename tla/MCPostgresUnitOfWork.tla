------------------------ MODULE MCPostgresUnitOfWork ------------------------
(* Small instances of PostgresUnitOfWork for TLC. *)
EXTENDS PostgresUnitOfWork, TLC

CONSTANTS u1, u2, u3, j1, j2, e1, e2, l1, l2, l3, l4

MCCaseFold == [code \in Codes |-> IF code = "CASH" THEN "cash" ELSE code]

UnitSymmetry == Permutations(Units)

Open(code) == [code |-> code, active |-> TRUE]

\* The cash and the bank account and the journals.
TwoAccounts ==
    [EmptyLedger EXCEPT
        !.accounts = [a \in AccountIds |-> IF a = 1 THEN Open("CASH") ELSE Open("BANK")],
        !.journals = [j \in JournalIds |-> [code |-> IF j = j1 THEN "GJ" ELSE "BJ"]]]

Posting(e, j, to, from, l, m) ==
    [journal_id |-> j,
     lines |-> <<[id |-> l, journal_entry_id |-> e, account_id |-> to, side |-> "debit",
                  minor_units |-> 1, currency |-> "EUR"],
                 [id |-> m, journal_entry_id |-> e, account_id |-> from, side |-> "credit",
                  minor_units |-> 1, currency |-> "EUR"]>>]

Asks(op, table, id, service) == [op |-> op, table |-> table, id |-> id, service |-> service]
Brings(op, table, id, record, service) ==
    [op |-> op, table |-> table, id |-> id, record |-> record, service |-> service]

FullLedgers == {TwoAccounts}

\* Postings of two entries in both directions, in journals of their own (one
\* journal's lock would keep them apart), and what competes with them.  A unit
\* that retrieves an account first and then posts locks in any order.
ServiceRequests ==
    {Brings("create", "entries", e1, Posting(e1, j1, 2, 1, l1, l2), TRUE),
     Brings("create", "entries", e2, Posting(e2, j2, 1, 2, l3, l4), TRUE),
     Brings("update", "accounts", 1, [active |-> FALSE], TRUE),
     Brings("update", "accounts", 2, [code |-> "SAFE"], TRUE),
     Asks("delete", "accounts", 1, TRUE),
     Asks("delete", "journals", j1, TRUE),
     Asks("retrieve", "accounts", 2, FALSE)}

\* One account to begin with, the other identifier free.
OneAccount ==
    [EmptyLedger EXCEPT !.accounts = [a \in AccountIds |-> IF a = 1 THEN Open("BANK") ELSE Absent]]

HalfLedgers == {OneAccount}

SomeEvent(id) == [record_type |-> "Account", record_id |-> id, snapshot |-> Open("CASH")]

\* Codes that differ in case only, and the calls of the repositories.
RepositoryRequests ==
    {Brings("create", "accounts", 2, Open("CASH"), TRUE),
     Brings("create", "accounts", 2, Open("cash"), FALSE),
     Brings("update", "accounts", 1, [code |-> "cash"], FALSE),
     Brings("update", "accounts", 1, [code |-> "CASH"], TRUE),
     Brings("create", "audit", 1, SomeEvent(1), FALSE),
     Brings("create", "audit", 1, SomeEvent(2), FALSE),
     Asks("delete", "accounts", 1, FALSE),
     Asks("retrieve", "accounts", 1, FALSE),
     [op |-> "list", table |-> "entries", service |-> FALSE]}
=============================================================================
