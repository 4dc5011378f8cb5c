-------------------------- MODULE CrudServicesProofs --------------------------
(***************************************************************************)
(* The repository two services share and the logs they keep: for any       *)
(* services, identifiers, codes, case folding and bounds, codes stay       *)
(* unique, every log tells exactly its deletions, and listing keeps the    *)
(* order of insertion.                                                     *)
(***************************************************************************)
EXTENDS CrudServices, SequenceTheorems, TLAPS

Removal == [by : Services, record : Record, answer : {"returned", "raised"}]

(* A sequence without its n-th element: the later ones move up by one.     *)
LEMMA WithoutOne ==
    ASSUME NEW S, NEW seq \in Seq(S), NEW n \in DOMAIN seq
    PROVE  /\ RemoveAt(seq, n) \in Seq(S)
           /\ Len(RemoveAt(seq, n)) = Len(seq) - 1
           /\ \A i \in 1..(Len(seq) - 1) :
                 RemoveAt(seq, n)[i] = IF i < n THEN seq[i] ELSE seq[i + 1]
<1>1. /\ Len(seq) \in Nat
      /\ DOMAIN seq = 1..Len(seq)
      /\ \A i \in 1..Len(seq) : seq[i] \in S
  BY LenProperties, ElementOfSeq
<1>2. n \in 1..Len(seq)
  BY <1>1
<1> DEFINE front == SubSeq(seq, 1, n - 1)
           back == SubSeq(seq, n + 1, Len(seq))
<1>3. /\ front \in Seq(S)
      /\ Len(front) = n - 1
      /\ \A i \in 1..(n - 1) : front[i] = seq[i]
  <2>1. \A i \in 1..(n - 1) : seq[i] \in S
    BY <1>1, <1>2
  <2> QED
    BY <2>1, <1>1, <1>2, SubSeqProperties
<1>4. /\ back \in Seq(S)
      /\ Len(back) = Len(seq) - n
      /\ \A i \in 1..(Len(seq) - n) : back[i] = seq[n + i]
  <2>1. \A i \in (n + 1)..Len(seq) : seq[i] \in S
    BY <1>1, <1>2
  <2> QED
    BY <2>1, <1>1, <1>2, SubSeqProperties
<1> HIDE DEF front, back
<1>5. /\ front \o back \in Seq(S)
      /\ Len(front \o back) = Len(front) + Len(back)
      /\ \A i \in 1..(Len(front) + Len(back)) :
            (front \o back)[i] = IF i <= Len(front) THEN front[i] ELSE back[i - Len(front)]
  BY <1>3, <1>4, ConcatProperties
<1>6. RemoveAt(seq, n) = front \o back
  BY DEF RemoveAt, front, back
<1>7. Len(front) + Len(back) = Len(seq) - 1
  BY <1>1, <1>2, <1>3, <1>4
<1>8. ASSUME NEW i \in 1..(Len(seq) - 1)
      PROVE  (front \o back)[i] = IF i < n THEN seq[i] ELSE seq[i + 1]
  <2>1. CASE i < n
    <3>1. i \in 1..(n - 1) /\ i <= Len(front)
      BY <1>1, <1>2, <1>3, <2>1
    <3> QED
      BY <3>1, <1>3, <1>5, <1>7, <2>1
  <2>2. CASE ~(i < n)
    <3>1. /\ ~(i <= Len(front)) /\ ~(i < n)
          /\ i - Len(front) \in 1..(Len(seq) - n)
          /\ n + (i - Len(front)) = i + 1
      BY <1>1, <1>2, <1>3, <2>2
    <3> QED
      BY <3>1, <1>4, <1>5, <1>7
  <2> QED
    BY <2>1, <2>2
<1> QED
  BY <1>5, <1>6, <1>7, <1>8

(* A sequence with its n-th element exchanged.                             *)
LEMMA WithOther ==
    ASSUME NEW S, NEW seq \in Seq(S), NEW n \in DOMAIN seq, NEW e \in S
    PROVE  /\ ReplaceAt(seq, n, e) \in Seq(S)
           /\ DOMAIN ReplaceAt(seq, n, e) = DOMAIN seq
           /\ \A i \in DOMAIN seq :
                 ReplaceAt(seq, n, e)[i] = IF i = n THEN e ELSE seq[i]
<1>1. seq \in [1..Len(seq) -> S] /\ n \in 1..Len(seq)
  BY LenProperties
<1>2. ReplaceAt(seq, n, e) \in Seq(S)
  BY <1>1, ExceptSeq DEF ReplaceAt
<1> QED
  BY <1>1, <1>2 DEF ReplaceAt

(* A sequence with one more element.                                       *)
LEMMA WithMore ==
    ASSUME NEW S, NEW seq \in Seq(S), NEW e \in S
    PROVE  /\ Append(seq, e) \in Seq(S)
           /\ Len(Append(seq, e)) = Len(seq) + 1
           /\ Append(seq, e)[Len(seq) + 1] = e
           /\ \A i \in 1..Len(seq) : Append(seq, e)[i] = seq[i]
BY AppendProperties

LEMMA Positions ==
    ASSUME NEW S, NEW seq \in Seq(S)
    PROVE  Len(seq) \in Nat /\ DOMAIN seq = 1..Len(seq)
BY LenProperties

-----------------------------------------------------------------------------
(* A Create, Update or Delete of one service, as it changes the records.   *)
Adds(record) ==
    /\ record \in Record
    /\ \A n \in DOMAIN records : records[n].id # record.id
    /\ \A n \in DOMAIN records : CaseFold[records[n].code] # CaseFold[record.code]
    /\ records' = Append(records, record)

Changes(n, record) ==
    /\ n \in DOMAIN records
    /\ record \in Record
    /\ record.id = records[n].id
    /\ record.code # records[n].code =>
          \A m \in DOMAIN records \ {n} : CaseFold[records[m].code] # CaseFold[record.code]
    /\ records' = ReplaceAt(records, n, record)

Removes(n) ==
    /\ n \in DOMAIN records
    /\ records' = RemoveAt(records, n)

(* What is not taken is taken by no record but the one itself.             *)
LEMMA NotTaken ==
    ASSUME NEW code, NEW id, ~Taken(code, id)
    PROVE  \A n \in DOMAIN records :
               records[n].id # id => CaseFold[records[n].code] # CaseFold[code]
BY DEF Taken, Stored, Range

LEMMA CreateAdds ==
    ASSUME TypeOK, NEW s \in Services, Create(s)
    PROVE  /\ \E record \in Record : Adds(record)
           /\ UNCHANGED <<log, clock, gone>>
<1>1. PICK record \in Record :
          /\ record.id \notin Range(IdsOf(records)) /\ ~Taken(record.code, record.id)
          /\ records' = Append(records, record)
          /\ UNCHANGED <<log, clock, gone>>
  BY DEF Create
<1>2. \A n \in DOMAIN records : records[n].id # record.id
  BY <1>1 DEF Range, IdsOf
<1>3. \A n \in DOMAIN records : CaseFold[records[n].code] # CaseFold[record.code]
  BY <1>1, <1>2, NotTaken
<1>4. Adds(record)
  BY <1>1, <1>2, <1>3 DEF Adds
<1> QED
  BY <1>1, <1>4

LEMMA UpdateChanges ==
    ASSUME TypeOK, CodesStayUnique, NEW s \in Services, Update(s)
    PROVE  /\ \E n \in DOMAIN records, record \in Record : Changes(n, record)
           /\ UNCHANGED <<log, clock, gone>>
<1>1. PICK n \in DOMAIN records, code \in Codes :
          LET record == [records[n] EXCEPT !.code = code, !.updated_at = clock] IN
          /\ code # records[n].code => ~Taken(code, record.id)
          /\ Validates(record)
          /\ records' = InPlace(n, record)
          /\ UNCHANGED <<log, clock, gone>>
  BY DEF Update
<1> DEFINE record == [records[n] EXCEPT !.code = code, !.updated_at = clock]
<1>2. records[n] \in Record
  BY Positions, ElementOfSeq DEF TypeOK
<1>3. record.id = records[n].id /\ record.code = code
  BY <1>2 DEF Record
<1>4. /\ code # records[n].code => ~Taken(code, record.id)
      /\ Validates(record)
      /\ records' = InPlace(n, record)
      /\ UNCHANGED <<log, clock, gone>>
  BY <1>1
<1> HIDE DEF record
<1>5. ASSUME code # records[n].code, NEW m \in DOMAIN records \ {n}
      PROVE  CaseFold[records[m].code] # CaseFold[record.code]
  <2>1. records[m].id # record.id
    BY <1>3, <1>5 DEF CodesStayUnique
  <2> QED
    BY <2>1, <1>3, <1>4, <1>5, NotTaken
<1>6. Changes(n, record)
  BY <1>3, <1>4, <1>5 DEF Changes, Validates, InPlace
<1>7. record \in Record
  BY <1>6 DEF Changes
<1> QED
  BY <1>4, <1>6, <1>7

-----------------------------------------------------------------------------
(* Two records of one code or one identifier are at one place.             *)
LEMMA AddsKeepsUnique ==
    ASSUME TypeOK, CodesStayUnique, NEW record, Adds(record)
    PROVE  records' \in Seq(Record) /\ CodesStayUnique'
<1>1. /\ records \in Seq(Record) /\ record \in Record
      /\ records' = Append(records, record)
  BY DEF TypeOK, Adds
<1>2. /\ Len(records) \in Nat /\ DOMAIN records = 1..Len(records)
      /\ records' \in Seq(Record)
      /\ DOMAIN records' = 1..(Len(records) + 1)
      /\ records'[Len(records) + 1] = record
      /\ \A i \in DOMAIN records : records'[i] = records[i]
  BY <1>1, WithMore, Positions
<1>3. \A i \in DOMAIN records' : i \in DOMAIN records \/ i = Len(records) + 1
  BY <1>2
<1> QED
  BY <1>2, <1>3 DEF CodesStayUnique, Adds

LEMMA ChangesKeepsUnique ==
    ASSUME TypeOK, CodesStayUnique, NEW n, NEW record, Changes(n, record)
    PROVE  records' \in Seq(Record) /\ CodesStayUnique'
<1>1. /\ n \in DOMAIN records
      /\ records' \in Seq(Record)
      /\ DOMAIN records' = DOMAIN records
      /\ \A i \in DOMAIN records : records'[i] = IF i = n THEN record ELSE records[i]
  BY WithOther DEF TypeOK, Changes
<1>2. ASSUME NEW i \in DOMAIN records, NEW j \in DOMAIN records, i # j
      PROVE  /\ CaseFold[records'[i].code] # CaseFold[records'[j].code]
             /\ records'[i].id # records'[j].id
  <2>1. /\ CaseFold[records[i].code] # CaseFold[records[j].code]
        /\ records[i].id # records[j].id
    BY <1>2 DEF CodesStayUnique
  <2>2. CASE i # n /\ j # n
    BY <1>1, <2>1, <2>2
  <2>3. CASE i = n
    BY <1>1, <1>2, <2>1, <2>3 DEF Changes
  <2>4. CASE j = n
    BY <1>1, <1>2, <2>1, <2>4 DEF Changes
  <2> QED
    BY <2>2, <2>3, <2>4
<1> QED
  BY <1>1, <1>2 DEF CodesStayUnique

(* Where the p-th of the remaining records was.                            *)
Before(n, p) == IF p < n THEN p ELSE p + 1

LEMMA RemovesMoves ==
    ASSUME TypeOK, NEW n, Removes(n)
    PROVE  /\ records' \in Seq(Record)
           /\ \A p \in DOMAIN records' :
                 /\ Before(n, p) \in DOMAIN records
                 /\ records'[p] = records[Before(n, p)]
           /\ \A p, q \in DOMAIN records' :
                 /\ Before(n, p) = Before(n, q) => p = q
                 /\ Before(n, p) < Before(n, q) => p < q
<1>1. /\ records \in Seq(Record) /\ n \in DOMAIN records
      /\ records' = RemoveAt(records, n)
  BY DEF TypeOK, Removes
<1>2. /\ Len(records) \in Nat /\ DOMAIN records = 1..Len(records)
      /\ records' \in Seq(Record)
      /\ DOMAIN records' = 1..(Len(records) - 1)
      /\ \A i \in 1..(Len(records) - 1) :
            records'[i] = IF i < n THEN records[i] ELSE records[i + 1]
  BY <1>1, WithoutOne, Positions
<1> QED
  BY <1>1, <1>2 DEF Before

LEMMA RemovesKeepsUnique ==
    ASSUME TypeOK, CodesStayUnique, NEW n, Removes(n)
    PROVE  records' \in Seq(Record) /\ CodesStayUnique'
BY RemovesMoves DEF CodesStayUnique

-----------------------------------------------------------------------------
(* The deletions log l is to tell.                                         *)
Told(l) == {d \in DOMAIN gone : gone[d].answer = "returned" /\ Belongs(gone[d].by, l)}

(* A place in the deletions for each line of log l.                        *)
Placing(l, place) ==
    /\ place \in [DOMAIN log[l] -> DOMAIN gone]
    /\ \A m, n \in DOMAIN log[l] : m < n => place[m] < place[n]
    /\ Range(place) = Told(l)
    /\ \A n \in DOMAIN log[l] : log[l][n] = gone[place[n]].record

LEMMA Placings ==
    LogsExact <=> \A l \in Logs : \E place : Placing(l, place)
BY DEF LogsExact, Placing, Told

(* Each service's deletions belong in the log it appends to.               *)
LEMMA BelongsInOne ==
    ASSUME NEW s \in Services, NEW l \in Logs
    PROVE  Belongs(s, l) <=> l = LogOf(s)
BY SharingAssumption DEF Belongs, LogOf, Logs

Logged(s, n, answer) ==
    log' = IF answer = "raised" THEN log
           ELSE [log EXCEPT ![LogOf(s)] = Append(@, records[n])]

Recorded(s, n, answer) ==
    gone' = Append(gone, [by |-> s, record |-> records[n], answer |-> answer])

LEMMA DeleteRemoves ==
    ASSUME TypeOK, NEW s \in Services, Delete(s)
    PROVE  \E n \in DOMAIN records, answer \in {"returned", "raised"} :
               /\ Removes(n)
               /\ Recorded(s, n, answer)
               /\ Logged(s, n, answer)
               /\ UNCHANGED clock
BY DEF Delete, Removes, Recorded, Logged

(* The last deletion is in the log of its service if its call returned;    *)
(* every other log is as it was and so is what it is to tell.              *)
LEMMA DeletionTold ==
    ASSUME TypeOK, LogsExact, NEW s \in Services, NEW n \in DOMAIN records,
           NEW answer \in {"returned", "raised"},
           Recorded(s, n, answer), Logged(s, n, answer)
    PROVE  /\ log' \in [Logs -> Seq(Record)]
           /\ gone' \in Seq(Removal)
           /\ LogsExact'
<1> DEFINE k == Len(gone) + 1
           removal == [by |-> s, record |-> records[n], answer |-> answer]
<1>1. records[n] \in Record
  BY Positions, ElementOfSeq DEF TypeOK
<1>2. removal \in Removal /\ gone \in Seq(Removal)
  BY <1>1 DEF Removal, TypeOK
<1>3. /\ Len(gone) \in Nat /\ DOMAIN gone = 1..Len(gone)
      /\ gone' \in Seq(Removal)
      /\ DOMAIN gone' = 1..k
      /\ gone'[k] = removal
      /\ \A d \in DOMAIN gone : gone'[d] = gone[d]
  BY <1>2, WithMore, Positions DEF Recorded
<1>4. /\ DOMAIN gone' = DOMAIN gone \cup {k} /\ k \notin DOMAIN gone
      /\ k \in Nat /\ \A d \in DOMAIN gone : d \in Nat /\ d < k
  BY <1>3
<1>5. removal.by = s /\ removal.record = records[n] /\ removal.answer = answer
  OBVIOUS
<1> HIDE DEF k, removal
<1>6. LogOf(s) \in Logs
  BY DEF LogOf, Logs
<1>7. log \in [Logs -> Seq(Record)]
  BY DEF TypeOK
<1>8. Append(log[LogOf(s)], records[n]) \in Seq(Record)
  BY <1>1, <1>6, <1>7, WithMore
<1>9. log' \in [Logs -> Seq(Record)]
  BY <1>6, <1>7, <1>8 DEF Logged
<1>10. ASSUME NEW l \in Logs
       PROVE  Told(l)' = IF answer = "returned" /\ l = LogOf(s) THEN Told(l) \cup {k}
                         ELSE Told(l)
  <2>1. Told(l)' = {d \in DOMAIN gone' : gone'[d].answer = "returned" /\ Belongs(gone'[d].by, l)}
    BY DEF Told, Belongs
  <2>2. \A d \in DOMAIN gone : d \in Told(l)' <=> d \in Told(l)
    BY <1>3, <1>4, <2>1 DEF Told
  <2>3. k \in Told(l)' <=> answer = "returned" /\ l = LogOf(s)
    BY <1>3, <1>4, <1>5, <2>1, BelongsInOne
  <2>4. k \notin Told(l) /\ Told(l) \subseteq DOMAIN gone
    BY <1>4 DEF Told
  <2>5. Told(l)' \subseteq DOMAIN gone \cup {k}
    BY <1>4, <2>1
  <2> QED
    BY <2>2, <2>3, <2>4, <2>5
<1>11. ASSUME NEW l \in Logs
       PROVE  \E place : Placing(l, place)'
  <2>1. PICK place : Placing(l, place)
    BY Placings
  <2>2. CASE answer = "returned" /\ l = LogOf(s)
    <3> DEFINE j == Len(log[l]) + 1
               longer == [i \in DOMAIN log[l] \cup {j} |-> IF i = j THEN k ELSE place[i]]
    <3>1. log'[l] = Append(log[l], records[n]) /\ log[l] \in Seq(Record)
      BY <1>7, <2>2 DEF Logged
    <3>2. /\ Len(log[l]) \in Nat /\ DOMAIN log[l] = 1..Len(log[l])
          /\ DOMAIN log'[l] = 1..j
          /\ log'[l][j] = records[n]
          /\ \A i \in DOMAIN log[l] : log'[l][i] = log[l][i]
      BY <3>1, <1>1, <1>9, WithMore, Positions
    <3>3. /\ DOMAIN log'[l] = DOMAIN log[l] \cup {j} /\ j \notin DOMAIN log[l]
          /\ \A i \in DOMAIN log[l] : i < j /\ ~(j < i)
      BY <3>2
    <3>4. \A i \in DOMAIN log[l] : place[i] \in DOMAIN gone
      BY <2>1 DEF Placing
    <3> HIDE DEF j
    <3>5. /\ longer[j] = k
          /\ \A i \in DOMAIN log[l] : longer[i] = place[i]
          /\ DOMAIN longer = DOMAIN log'[l]
      BY <3>3
    <3>6. longer \in [DOMAIN log'[l] -> DOMAIN gone']
      BY <1>4, <3>3, <3>4
    <3> HIDE DEF longer
    <3>7. \A h, i \in DOMAIN log'[l] : h < i => longer[h] < longer[i]
      <4> SUFFICES ASSUME NEW h \in DOMAIN log'[l], NEW i \in DOMAIN log'[l], h < i
                   PROVE  longer[h] < longer[i]
        OBVIOUS
      <4>1. CASE i \in DOMAIN log[l]
        <5>1. h \in DOMAIN log[l]
          BY <3>3, <4>1
        <5> QED
          BY <4>1, <5>1, <2>1, <3>5 DEF Placing
      <4>2. CASE i = j
        <5>1. h \in DOMAIN log[l]
          BY <3>2, <3>3, <4>2
        <5> QED
          BY <5>1, <4>2, <1>4, <3>4, <3>5
      <4> QED
        BY <4>1, <4>2, <3>3
    <3>8. Range(longer) = Told(l) \cup {k}
      <4>1. Range(longer) = {longer[i] : i \in DOMAIN log[l]} \cup {longer[j]}
        BY <3>3, <3>5 DEF Range
      <4>2. {longer[i] : i \in DOMAIN log[l]} = {place[i] : i \in DOMAIN log[l]}
        BY <3>5
      <4>3. {place[i] : i \in DOMAIN log[l]} = Told(l)
        BY <2>1 DEF Placing, Range
      <4> QED
        BY <4>1, <4>2, <4>3, <3>5
    <3>9. \A i \in DOMAIN log'[l] : log'[l][i] = gone'[longer[i]].record
      <4>1. log'[l][j] = gone'[longer[j]].record
        BY <1>3, <1>5, <3>2, <3>5
      <4>2. \A i \in DOMAIN log[l] : log'[l][i] = gone'[longer[i]].record
        BY <1>3, <2>1, <3>2, <3>4, <3>5 DEF Placing
      <4> QED
        BY <4>1, <4>2, <3>3
    <3> QED
      BY <3>6, <3>7, <3>8, <3>9, <1>10, <2>2 DEF Placing
  <2>3. CASE ~(answer = "returned" /\ l = LogOf(s))
    <3>1. log'[l] = log[l]
      BY <1>7, <2>3 DEF Logged
    <3>2. Told(l)' = Told(l)
      BY <1>10, <2>3
    <3>3. \A i \in DOMAIN log[l] : place[i] \in DOMAIN gone
      BY <2>1 DEF Placing
    <3>4. place \in [DOMAIN log'[l] -> DOMAIN gone']
      BY <1>4, <2>1, <3>1 DEF Placing
    <3>5. \A i \in DOMAIN log'[l] : log'[l][i] = gone'[place[i]].record
      BY <1>3, <2>1, <3>1, <3>3 DEF Placing
    <3> QED
      BY <2>1, <3>1, <3>2, <3>4, <3>5 DEF Placing
  <2> QED
    BY <2>2, <2>3
<1>12. LogsExact'
  <2>1. (\A l \in Logs : \E place : Placing(l, place))' => LogsExact'
    BY DEF LogsExact, Placing, Told, Logs
  <2> QED
    BY <1>11, <2>1 DEF Logs
<1> QED
  BY <1>3, <1>9, <1>12

-----------------------------------------------------------------------------
ServicesInv == TypeOK /\ CodesStayUnique /\ LogsExact

LEMMA ServicesInit == Init => ServicesInv
<1> SUFFICES ASSUME Init
             PROVE  ServicesInv
  OBVIOUS
<1>1. TypeOK /\ CodesStayUnique
  BY EmptySeq DEF Init, TypeOK, CodesStayUnique
<1>2. ASSUME NEW l \in Logs
      PROVE  Placing(l, <<>>)
  BY <1>2 DEF Init, Placing, Told, Range
<1> QED
  BY <1>1, <1>2, Placings DEF ServicesInv

LEMMA LogsStay ==
    ASSUME LogsExact, UNCHANGED <<log, gone>>
    PROVE  LogsExact'
BY DEF LogsExact, Belongs

LEMMA ServicesStep == ServicesInv /\ [Next]_vars => ServicesInv'
<1> SUFFICES ASSUME ServicesInv, [Next]_vars
             PROVE  ServicesInv'
  OBVIOUS
<1> USE DEF ServicesInv
<1>1. CASE SetClock
  BY <1>1, LogsStay DEF SetClock, TypeOK, CodesStayUnique
<1>2. CASE UNCHANGED vars
  BY <1>2, LogsStay DEF vars, TypeOK, CodesStayUnique
<1>3. ASSUME NEW s \in Services, Create(s)
      PROVE  ServicesInv'
  <2>1. PICK record : Adds(record)
    BY <1>3, CreateAdds
  <2>2. UNCHANGED <<log, clock, gone>>
    BY <1>3, CreateAdds
  <2> QED
    BY <2>1, <2>2, AddsKeepsUnique, LogsStay DEF TypeOK
<1>4. ASSUME NEW s \in Services, Update(s)
      PROVE  ServicesInv'
  <2>1. PICK n, record : Changes(n, record)
    BY <1>4, UpdateChanges
  <2>2. UNCHANGED <<log, clock, gone>>
    BY <1>4, UpdateChanges
  <2> QED
    BY <2>1, <2>2, ChangesKeepsUnique, LogsStay DEF TypeOK
<1>5. ASSUME NEW s \in Services, Delete(s)
      PROVE  ServicesInv'
  <2>1. PICK n \in DOMAIN records, answer \in {"returned", "raised"} :
            /\ Removes(n)
            /\ Recorded(s, n, answer)
            /\ Logged(s, n, answer)
            /\ UNCHANGED clock
    BY <1>5, DeleteRemoves
  <2>2. records' \in Seq(Record) /\ CodesStayUnique'
    BY <2>1, RemovesKeepsUnique
  <2>3. /\ log' \in [Logs -> Seq(Record)]
        /\ gone' \in Seq(Removal)
        /\ LogsExact'
    BY <2>1, DeletionTold
  <2> QED
    BY <2>1, <2>2, <2>3 DEF TypeOK, Removal
<1> QED
  BY <1>1, <1>2, <1>3, <1>4, <1>5 DEF Next

LEMMA ServicesInvariant == Spec => []ServicesInv
BY ServicesInit, ServicesStep, PTL DEF Spec

(* The state of the services stays within its type: what is stored         *)
(* satisfies the validation of the constructors.                           *)
THEOREM TypeCorrect == Spec => []TypeOK
<1>1. ServicesInv => TypeOK
  BY DEF ServicesInv
<1> QED
  BY <1>1, ServicesInvariant, PTL

(* No order of calls by several services stores two records with one       *)
(* identifier, or with codes that differ only in case.                     *)
THEOREM CodesUnique == Spec => []CodesStayUnique
<1>1. ServicesInv => CodesStayUnique
  BY DEF ServicesInv
<1> QED
  BY <1>1, ServicesInvariant, PTL

(* Every log has the deletions of its services whose calls returned, once  *)
(* and in order, and nothing else, whoever shares it.                      *)
THEOREM LogsComplete == Spec => []LogsExact
<1>1. ServicesInv => LogsExact
  BY DEF ServicesInv
<1> QED
  BY <1>1, ServicesInvariant, PTL

-----------------------------------------------------------------------------
(* OrderKept for one step.                                                 *)
InOrder ==
    \A m, n \in DOMAIN records, p, q \in DOMAIN records' :
        /\ records'[p].id = records[m].id
        /\ records'[q].id = records[n].id
        /\ m < n
        => p < q

LEMMA StepInOrder ==
    ASSUME ServicesInv, Next
    PROVE  InOrder
<1> USE DEF ServicesInv
<1>1. CASE SetClock
  BY <1>1 DEF SetClock, CodesStayUnique, InOrder
<1>2. ASSUME NEW s \in Services, Create(s)
      PROVE  InOrder
  <2>1. PICK record : Adds(record)
    BY <1>2, CreateAdds
  <2>2. /\ records \in Seq(Record) /\ record \in Record
        /\ records' = Append(records, record)
    BY <2>1 DEF TypeOK, Adds
  <2>3. /\ Len(records) \in Nat /\ DOMAIN records = 1..Len(records)
        /\ DOMAIN records' = 1..(Len(records) + 1)
        /\ records'[Len(records) + 1] = record
        /\ \A i \in DOMAIN records : records'[i] = records[i]
    BY <2>2, WithMore, Positions
  <2>4. ASSUME NEW p \in DOMAIN records', NEW m \in DOMAIN records,
               records'[p].id = records[m].id
        PROVE  p = m
    <3>1. p \in DOMAIN records \/ p = Len(records) + 1
      BY <2>3
    <3> QED
      BY <3>1, <2>1, <2>3, <2>4 DEF CodesStayUnique, Adds
  <2> QED
    BY <2>4 DEF InOrder
<1>3. ASSUME NEW s \in Services, Update(s)
      PROVE  InOrder
  <2>1. PICK n, record : Changes(n, record)
    BY <1>3, UpdateChanges
  <2>2. /\ DOMAIN records' = DOMAIN records
        /\ \A i \in DOMAIN records : records'[i] = IF i = n THEN record ELSE records[i]
    BY <2>1, WithOther DEF TypeOK, Changes
  <2>3. \A i \in DOMAIN records : records'[i].id = records[i].id
    BY <2>1, <2>2 DEF Changes
  <2> QED
    BY <2>2, <2>3 DEF CodesStayUnique, InOrder
<1>4. ASSUME NEW s \in Services, Delete(s)
      PROVE  InOrder
  <2>1. PICK n : Removes(n)
    BY <1>4, DeleteRemoves
  <2>2. \A p \in DOMAIN records' :
            /\ Before(n, p) \in DOMAIN records
            /\ records'[p] = records[Before(n, p)]
    BY <2>1, RemovesMoves
  <2>3. \A p, q \in DOMAIN records' : Before(n, p) < Before(n, q) => p < q
    BY <2>1, RemovesMoves
  <2> QED
    BY <2>2, <2>3 DEF CodesStayUnique, InOrder
<1> QED
  BY <1>1, <1>2, <1>3, <1>4 DEF Next

(* Updates and deletions of others never change which of two records is    *)
(* listed first.                                                           *)
THEOREM OrderStays == Spec => OrderKept
<1>1. ServicesInv /\ [Next]_vars => [InOrder]_vars
  BY StepInOrder
<1>2. Spec => [][InOrder]_vars
  BY <1>1, ServicesInvariant, PTL DEF Spec
<1> QED
  BY <1>2 DEF OrderKept, InOrder
=============================================================================
