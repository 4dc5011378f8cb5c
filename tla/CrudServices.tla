----------------------------- MODULE CrudServices -----------------------------
(***************************************************************************)
(* AccountService and JournalService on their own (lumbago/services): more *)
(* than one over one InMemoryRepository, with no transaction around their  *)
(* calls, a clock that need not go forward, and audit logs that are shared *)
(* or, by default, private.  A deletion removes the record first; the      *)
(* append of its event may then raise and leaves the record deleted.       *)
(*                                                                         *)
(* Calls come one after the other: the interface is not made for threads.  *)
(***************************************************************************)
EXTENDS Naturals, SequencesExt

CONSTANTS
    Services,
    Sharing,        \* services that were given the shared log
    Ids,
    Codes,
    CaseFold,       \* str.casefold on the codes
    MaxTime,        \* bound on the clock
    MaxDeletions    \* bound on the deletions of a behaviour

ASSUME SharingAssumption == Sharing \subseteq Services /\ "shared" \notin Services
ASSUME CaseFoldAssumption == DOMAIN CaseFold = Codes
ASSUME BoundsAssumption == MaxTime \in Nat /\ MaxDeletions \in Nat

VARIABLES
    records,   \* the repository, in the order of insertion
    log,       \* the snapshots in the shared log and in the one of each service
    clock,
    gone       \* the deletions so far: by whom, of what, and what was answered

vars == <<records, log, clock, gone>>

Times == 0..MaxTime
Logs == Services \cup {"shared"}

\* What validation lets through: the last change not before the creation.
Record == {r \in [id : Ids, code : Codes, created_at : Times, updated_at : Times] :
               r.created_at <= r.updated_at}

TypeOK ==
    /\ records \in Seq(Record)
    /\ log \in [Logs -> Seq(Record)]
    /\ clock \in Times
    /\ gone \in Seq([by : Services, record : Record, answer : {"returned", "raised"}])

Init ==
    /\ records = <<>>
    /\ log = [l \in Logs |-> <<>>]
    /\ clock \in Times
    /\ gone = <<>>

-----------------------------------------------------------------------------
IdsOf(sequence) == [n \in DOMAIN sequence |-> sequence[n].id]
Stored == Range(records)

\* Slip: codes compared as they are written.
TakenExactly(code, id) == \E r \in Stored : r.id # id /\ r.code = code

\* _require_unique_code, on the list of the moment.
Taken(code, id) == \E r \in Stored : r.id # id /\ CaseFold[r.code] = CaseFold[code]

\* The caller brings the record, with timestamps of its own choice.
Create(s) ==
    \E record \in Record :
        /\ record.id \notin Range(IdsOf(records)) /\ ~Taken(record.code, record.id)
        /\ records' = Append(records, record)
        /\ UNCHANGED <<log, clock, gone>>

\* Slip: the merged values are stored without validation.
Unvalidated(record) == TRUE

Validates(record) == record \in Record

\* Slip: the record is removed and stored again.
MovedToEnd(n, record) == Append(RemoveAt(records, n), record)

InPlace(n, record) == ReplaceAt(records, n, record)

\* An update with or without a new code; the time comes from the clock.
Update(s) ==
    \E n \in DOMAIN records, code \in Codes :
        LET record == [records[n] EXCEPT !.code = code, !.updated_at = clock] IN
        /\ code # records[n].code => ~Taken(code, record.id)
        /\ Validates(record)
        /\ records' = InPlace(n, record)
        /\ UNCHANGED <<log, clock, gone>>

\* Slip: a log that is still empty counts as none.
EmptyLogIgnored(s) == s

LogOf(s) == IF s \in Sharing THEN "shared" ELSE s

Delete(s) ==
    \E n \in DOMAIN records, answer \in {"returned", "raised"} :
        /\ Len(gone) < MaxDeletions
        /\ records' = RemoveAt(records, n)
        /\ gone' = Append(gone, [by |-> s, record |-> records[n], answer |-> answer])
        /\ log' = IF answer = "raised" THEN log
                  ELSE [log EXCEPT ![LogOf(s)] = Append(@, records[n])]
        /\ UNCHANGED clock

\* Time passes, or the clock is set back.
SetClock ==
    /\ clock' \in Times \ {clock}
    /\ UNCHANGED <<records, log, gone>>

Next == SetClock \/ \E s \in Services : Create(s) \/ Update(s) \/ Delete(s)

Spec == Init /\ [][Next]_vars

-----------------------------------------------------------------------------
(* Two services that check the same repository keep its codes, ignoring    *)
(* case, and its identifiers unique.                                       *)
CodesStayUnique ==
    \A m, n \in DOMAIN records :
        \/ CaseFold[records[m].code] = CaseFold[records[n].code]
        \/ records[m].id = records[n].id
        => m = n

\* Deletions by service s belong in log l.
Belongs(s, l) == IF l = "shared" THEN s \in Sharing ELSE s = l /\ s \notin Sharing

(* A deletion whose call returned is in one log once, in the order of the  *)
(* deletions and with the record as it last was: the shared log has those  *)
(* of the services that were given it, a private log those of its own      *)
(* service and no others.  What no log tells was answered by an exception. *)
LogsExact ==
    \A l \in Logs : \E place \in [DOMAIN log[l] -> DOMAIN gone] :
        /\ \A m, n \in DOMAIN log[l] : m < n => place[m] < place[n]
        /\ Range(place) = {d \in DOMAIN gone :
                               gone[d].answer = "returned" /\ Belongs(gone[d].by, l)}
        /\ \A n \in DOMAIN log[l] : log[l][n] = gone[place[n]].record

(* Listing is in the order of insertion: the records that stay keep their  *)
(* places relative to each other through updates and deletions of others.  *)
OrderKept ==
    [][\A m, n \in DOMAIN records, p, q \in DOMAIN records' :
           /\ records'[p].id = records[m].id
           /\ records'[q].id = records[n].id
           /\ m < n
           => p < q]_vars
=============================================================================
