----------------------------- MODULE UnitOfWork -----------------------------
(***************************************************************************)
(* The transaction contract of a Lumbago data store, as a caller sees it:  *)
(* at most one unit of work is open on a store, it works on its own ledger *)
(* txn that starts as the committed one, an atomic block that fails puts   *)
(* back the ledger the block began with, and only commit, in one step,     *)
(* makes the work of the unit visible to the next one.                     *)
(*                                                                         *)
(* Nothing here says how an operation is carried out.  Work is any change  *)
(* that leaves the ledger whole, keeps posted entries and audit events,    *)
(* and, when callers keep to AccountingService, records each deletion in   *)
(* the step that makes it.                                                 *)
(***************************************************************************)
EXTENDS Ledger

CONSTANT ServicesOnly   \* callers change ledgers through AccountingService only

VARIABLES
    committed,   \* the ledger the next unit of work will start from
    open,        \* whether a unit of work is open and uncommitted
    txn,         \* its ledger; the committed one when none is open
    savepoints   \* the ledgers its open atomic blocks began with, outermost first

contractVars == <<committed, open, txn, savepoints>>

ContractInit ==
    /\ committed = EmptyLedger
    /\ open = FALSE
    /\ txn = EmptyLedger
    /\ savepoints = <<>>

Begin ==
    /\ ~open
    /\ open' = TRUE
    /\ UNCHANGED <<committed, txn, savepoints>>

Work ==
    /\ open
    /\ txn' \in Ledgers
    /\ Integrity(txn')
    /\ KeepsHistory(txn, txn')
    /\ ServicesOnly => AuditedStep(txn, txn')
    /\ UNCHANGED <<committed, open, savepoints>>

AtomicBegin ==
    /\ open
    /\ savepoints' = Append(savepoints, txn)
    /\ UNCHANGED <<committed, open, txn>>

AtomicEnd ==
    /\ open
    /\ savepoints # <<>>
    /\ savepoints' = SubSeq(savepoints, 1, Len(savepoints) - 1)
    /\ UNCHANGED <<committed, open, txn>>

AtomicFail ==
    /\ open
    /\ savepoints # <<>>
    /\ txn' = savepoints[Len(savepoints)]
    /\ savepoints' = SubSeq(savepoints, 1, Len(savepoints) - 1)
    /\ UNCHANGED <<committed, open>>

Commit ==
    /\ open
    /\ open' = FALSE
    /\ committed' = txn
    /\ savepoints' = <<>>
    /\ UNCHANGED txn

\* Rollback, or leaving the scope without a commit.
Abandon ==
    /\ open
    /\ open' = FALSE
    /\ txn' = committed
    /\ savepoints' = <<>>
    /\ UNCHANGED committed

ContractNext ==
    Begin \/ Work \/ AtomicBegin \/ AtomicEnd \/ AtomicFail \/ Commit \/ Abandon

Contract == ContractInit /\ [][ContractNext]_contractVars
=============================================================================
