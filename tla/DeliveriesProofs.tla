-------------------------- MODULE DeliveriesProofs --------------------------
(***************************************************************************)
(* Proofs about Deliveries for any number of rows, workers, attempts,      *)
(* faults and replays.                                                     *)
(*                                                                         *)
(* That no message is sent more often than somebody answers for is an      *)
(* argument about credit: every worker that can still send a row, and      *)
(* every row that can still be claimed without a new decision, has been    *)
(* allowed for.  A send spends the credit of its worker, whatever the      *)
(* worker learns of it, and only a lease that ran out or an administrator  *)
(* who replays a row in review gives new credit.                           *)
(***************************************************************************)
EXTENDS Deliveries, FiniteSetTheorems, TLAPS

ItemFits(w) ==
    /\ worker[w].at \in {"prepare", "ready", "cleared", "answered"} =>
          worker[w].row \in Rows /\ worker[w].row \notin worker[w].batch
    /\ worker[w].at = "answered" => worker[w].outcome # "none"

\* Attempts are bounded, and a row that can get another has not reached the
\* bound.
AttemptsFit(r) ==
    /\ row[r].attempts <= MaxAttempts + replays
    /\ row[r].status \in {"none", "pending", "processing"} =>
          row[r].attempts < MaxAttempts + replays

NotYetQueued ==
    event.status # "processed" =>
        \A r \in Rows : Webhook(r) => row[r].status = "none"

\* A worker that is about to record a delivery has made one.
ReportIsReal(w) ==
    worker[w].at = "answered" /\ worker[w].outcome = "sent" =>
        received[worker[w].row] > 0

\* Worker w can send row r, or return it to the queue unsent.
MaySend(w, r) ==
    \/ worker[w].at = "cleared" /\ worker[w].row = r
    \/ /\ Holds(w, r)
       /\ \/ r \in worker[w].batch
          \/ /\ worker[w].row = r
             /\ \/ worker[w].at \in {"prepare", "ready"}
                \/ /\ worker[w].at = "answered"
                   /\ worker[w].outcome \in {"retryable", "permanent"}

Senders(r) == {w \in Workers : MaySend(w, r)}

\* The row can come to a worker without a new decision.
Owed(r) == IF row[r].status \in {"none", "pending", "failed"} THEN 1 ELSE 0

Credit(r) == received[r] + Cardinality(Senders(r)) + Owed(r) <= allowed[r]

ItemsFit == \A w \in Workers : ItemFits(w)
Reports == SentIsReal /\ \A w \in Workers : ReportIsReal(w)
Counts ==
    /\ event.status = "pending" => event.attempts < MaxEventAttempts
    /\ NotYetQueued
    /\ \A r \in Rows : AttemptsFit(r)
Credits == \A r \in Rows : Credit(r)

IInv == TypeOK /\ ItemsFit /\ Reports /\ ConsentRespected /\ Counts /\ Credits

-----------------------------------------------------------------------------
(* Counting senders.                                                       *)

LEMMA CountSenders ==
    ASSUME NEW r
    PROVE  IsFiniteSet(Senders(r)) /\ Cardinality(Senders(r)) \in Nat
BY WorkersAssumption, FS_Subset, FS_CardinalityType DEF Senders

LEMMA CountSendersNext ==
    ASSUME NEW r
    PROVE  IsFiniteSet(Senders(r)') /\ Cardinality(Senders(r))' \in Nat
BY WorkersAssumption, FS_Subset, FS_CardinalityType DEF Senders

LEMMA AtMostOneMore ==
    ASSUME NEW S, NEW T, NEW x, IsFiniteSet(S), T \subseteq S \cup {x}
    PROVE  Cardinality(T) <= Cardinality(S) + 1
<1>1. Cardinality(S) \in Nat
  BY FS_CardinalityType
<1>2. /\ IsFiniteSet(S \cup {x})
      /\ \/ Cardinality(S \cup {x}) = Cardinality(S)
         \/ Cardinality(S \cup {x}) = Cardinality(S) + 1
  BY FS_AddElement
<1>3. /\ Cardinality(T) \in Nat /\ Cardinality(S \cup {x}) \in Nat
      /\ Cardinality(T) <= Cardinality(S \cup {x})
  BY <1>2, FS_Subset, FS_CardinalityType
<1> QED
  BY <1>1, <1>2, <1>3

LEMMA NoNewSender ==
    ASSUME TypeOK, Credits, NEW r \in Rows,
           \A v \in Workers : MaySend(v, r)' => MaySend(v, r),
           received'[r] = received[r], allowed'[r] \in Nat,
           allowed'[r] >= allowed[r], Owed(r)' <= Owed(r)
    PROVE  Credit(r)'
<1>1. Senders(r)' \subseteq Senders(r)
  BY DEF Senders
<1>2. Cardinality(Senders(r))' <= Cardinality(Senders(r))
  BY <1>1, CountSenders, FS_Subset
<1>3. /\ received[r] \in Nat /\ allowed[r] \in Nat
      /\ Owed(r) \in Nat /\ Owed(r)' \in Nat
  BY DEF TypeOK, Owed
<1> QED
  BY <1>2, <1>3, CountSenders, CountSendersNext DEF Credits, Credit

LEMMA SenderLeaves ==
    ASSUME TypeOK, Credits, NEW r \in Rows, NEW w \in Workers,
           MaySend(w, r), ~MaySend(w, r)',
           \A v \in Workers : MaySend(v, r)' => MaySend(v, r),
           received'[r] \in Nat, allowed'[r] = allowed[r],
           received'[r] + Owed(r)' <= received[r] + Owed(r) + 1
    PROVE  Credit(r)'
<1>1. Senders(r)' \subseteq Senders(r) \ {w} /\ w \in Senders(r)
  BY DEF Senders
<1>2. /\ IsFiniteSet(Senders(r) \ {w})
      /\ Cardinality(Senders(r) \ {w}) = Cardinality(Senders(r)) - 1
  BY <1>1, CountSenders, FS_RemoveElement
<1>3. Cardinality(Senders(r))' <= Cardinality(Senders(r)) - 1
  BY <1>1, <1>2, FS_Subset
<1>4. /\ received[r] \in Nat /\ allowed[r] \in Nat
      /\ Owed(r) \in Nat /\ Owed(r)' \in Nat
  BY DEF TypeOK, Owed
<1> QED
  BY <1>3, <1>4, CountSenders, CountSendersNext DEF Credits, Credit

LEMMA SenderComes ==
    ASSUME TypeOK, Credits, NEW r \in Rows, NEW w \in Workers,
           \A v \in Workers \ {w} : MaySend(v, r)' => MaySend(v, r),
           received'[r] = received[r], allowed'[r] \in Nat,
           Owed(r)' + allowed[r] + 1 <= Owed(r) + allowed'[r]
    PROVE  Credit(r)'
<1>1. Senders(r)' \subseteq Senders(r) \cup {w}
  BY DEF Senders
<1>2. Cardinality(Senders(r))' <= Cardinality(Senders(r)) + 1
  BY <1>1, CountSenders, AtMostOneMore
<1>3. /\ received[r] \in Nat /\ allowed[r] \in Nat
      /\ Owed(r) \in Nat /\ Owed(r)' \in Nat
  BY DEF TypeOK, Owed
<1> QED
  BY <1>2, <1>3, CountSenders, CountSendersNext DEF Credits, Credit

-----------------------------------------------------------------------------
LEMMA InitHolds == Init => IInv
<1> SUFFICES ASSUME Init PROVE IInv
  OBVIOUS
<1>1. TypeOK
  <2>1. kind \in [Rows -> Kind]
    BY KindsAssumption DEF Init
  <2>2. row \in [Rows -> RowRecord]
    BY LimitsAssumption DEF Init, Fresh, RowRecord, RowStatus
  <2>3. worker \in [Workers -> WorkerRecord]
    BY DEF Init, Idle, WorkerRecord, Outcomes
  <2>4. event \in [status : {"pending", "processed", "failed"},
                   attempts : 0..MaxEventAttempts]
    BY LimitsAssumption DEF Init
  <2> QED
    BY <2>1, <2>2, <2>3, <2>4, LimitsAssumption DEF Init, TypeOK
<1>2. ItemsFit /\ ConsentRespected
  BY DEF Init, ItemsFit, ItemFits, ConsentRespected, Idle
<1>3. Reports
  BY DEF Init, Reports, ReportIsReal, SentIsReal, Idle, Fresh
<1>4. Counts
  BY LimitsAssumption DEF Init, Counts, NotYetQueued, AttemptsFit, Fresh
<1>5. Credits
  <2> SUFFICES ASSUME NEW r \in Rows PROVE Credit(r)
    BY DEF Credits
  <2>1. Senders(r) = {}
    BY DEF Init, Senders, MaySend, Holds, Idle, Fresh
  <2>2. received[r] = 0 /\ allowed[r] = 1 /\ Owed(r) \in {0, 1}
    BY DEF Init, Owed
  <2> QED
    BY <2>1, <2>2, FS_EmptySet DEF Credit
<1> QED
  BY <1>1, <1>2, <1>3, <1>4, <1>5 DEF IInv

-----------------------------------------------------------------------------
(* Steps that leave the workers alone.                                     *)

\* What then remains to be shown.
LEMMA WorkersAlone ==
    ASSUME IInv, UNCHANGED <<kind, worker, consent, overtaken, received>>
    PROVE  /\ ItemsFit' /\ ConsentRespected'
           /\ \A w \in Workers : ReportIsReal(w)'
BY DEF IInv, ItemsFit, ItemFits, ConsentRespected, Reports, ReportIsReal

LEMMA ProcessEventKeeps == ASSUME IInv, ProcessEvent PROVE IInv'
<1>1. PICK active \in SUBSET {r \in Rows : Webhook(r)} :
        row' = [r \in Rows |->
                  IF r \notin active THEN row[r]
                  ELSE IF kind[r] = "webhook" THEN Fresh("pending", 0)
                  ELSE Fresh("failed", MaxAttempts)]
  BY DEF ProcessEvent
<1>2. \A r \in active : row[r].status = "none"
  BY <1>1 DEF ProcessEvent, IInv, Counts, NotYetQueued
<1>3. TypeOK'
  <2>1. \A r \in Rows : row'[r] \in RowRecord
    BY <1>1, LimitsAssumption DEF IInv, TypeOK, Fresh, RowRecord, RowStatus
  <2>2. row' \in [Rows -> RowRecord]
    BY <1>1, <2>1
  <2>3. event' \in [status : {"pending", "processed", "failed"},
                    attempts : 0..MaxEventAttempts]
    BY DEF ProcessEvent, IInv, TypeOK
  <2> QED
    BY <2>2, <2>3 DEF ProcessEvent, OnlyEvent, IInv, TypeOK
<1>4. Reports'
  BY <1>1, WorkersAlone DEF ProcessEvent, OnlyEvent, IInv, Reports, SentIsReal, Fresh
<1>5. Counts'
  <2>1. NotYetQueued'
    BY DEF ProcessEvent, NotYetQueued, IInv, TypeOK
  <2>2. \A r \in Rows : AttemptsFit(r)'
    <3> TAKE r \in Rows
    <3>1. /\ AttemptsFit(r) /\ replays' = replays /\ replays \in Nat
          /\ MaxAttempts \in Nat \ {0}
      BY LimitsAssumption DEF ProcessEvent, IInv, TypeOK, Counts
    <3>2. CASE row'[r] = row[r]
      BY <3>1, <3>2 DEF AttemptsFit
    <3>3. CASE row'[r] = Fresh("pending", 0)
      BY <3>1, <3>3 DEF AttemptsFit, Fresh
    <3>4. CASE row'[r] = Fresh("failed", MaxAttempts)
      BY <3>1, <3>4 DEF AttemptsFit, Fresh
    <3> QED
      BY <1>1, <3>2, <3>3, <3>4
  <2> QED
    BY <2>1, <2>2 DEF Counts, ProcessEvent, IInv, TypeOK
<1>6. ASSUME NEW r \in Rows PROVE Credit(r)'
  <2>1. \A v \in Workers : MaySend(v, r)' => MaySend(v, r)
    BY <1>1 DEF ProcessEvent, OnlyEvent, MaySend, Holds, Fresh
  <2>2. Owed(r)' <= Owed(r)
    BY <1>1, <1>2 DEF Owed, Fresh
  <2>3. /\ received'[r] = received[r] /\ allowed'[r] \in Nat
        /\ allowed'[r] >= allowed[r]
    BY DEF ProcessEvent, OnlyEvent, IInv, TypeOK
  <2> QED
    BY <2>1, <2>2, <2>3, NoNewSender DEF IInv
<1> QED
  BY <1>3, <1>4, <1>5, <1>6, WorkersAlone
  DEF ProcessEvent, OnlyEvent, IInv, Credits

LEMMA OtherEventsKeep ==
    ASSUME IInv, EventFails \/ RequeueFailedEvent
    PROVE  IInv'
<1>1. /\ UNCHANGED <<kind, row, worker, consent, overtaken, received, allowed,
                     marked, faults>>
      /\ event.status # "processed"
      /\ replays' \in 0..MaxReplays /\ replays' >= replays
  BY LimitsAssumption
  DEF EventFails, RequeueFailedEvent, OnlyEvent, IInv, TypeOK
<1>2. /\ event' \in [status : {"pending", "processed", "failed"},
                     attempts : 0..MaxEventAttempts]
      /\ event'.status = "pending" => event'.attempts < MaxEventAttempts
  <2>1. event.attempts \in 0..MaxEventAttempts /\ MaxEventAttempts \in Nat \ {0}
    BY LimitsAssumption DEF IInv, TypeOK
  <2>2. CASE RequeueFailedEvent
    BY <2>1, <2>2 DEF RequeueFailedEvent
  <2>3. CASE EventFails /\ event.attempts + 1 >= MaxEventAttempts
    BY <2>1, <2>3 DEF EventFails, IInv, Counts
  <2>4. CASE EventFails /\ ~(event.attempts + 1 >= MaxEventAttempts)
    BY <2>1, <2>4 DEF EventFails, IInv, Counts
  <2> QED
    BY <2>2, <2>3, <2>4
<1>3. TypeOK'
  BY <1>1, <1>2 DEF IInv, TypeOK
<1>4. Reports'
  BY <1>1, WorkersAlone DEF IInv, Reports, SentIsReal
<1>5. Counts'
  <2>1. NotYetQueued'
    BY <1>1 DEF IInv, Counts, NotYetQueued, Webhook
  <2>2. ASSUME NEW r \in Rows PROVE AttemptsFit(r)'
    <3>1. row[r].attempts \in Nat /\ replays \in Nat
      BY LimitsAssumption DEF IInv, TypeOK, RowRecord
    <3> QED
      BY <1>1, <3>1, LimitsAssumption DEF IInv, Counts, AttemptsFit
  <2> QED
    BY <1>2, <2>1, <2>2 DEF Counts
<1>6. ASSUME NEW r \in Rows PROVE Credit(r)'
  <2>1. /\ \A v \in Workers : MaySend(v, r)' => MaySend(v, r)
        /\ Owed(r)' <= Owed(r)
    BY <1>1 DEF MaySend, Holds, Owed
  <2>2. /\ received'[r] = received[r] /\ allowed'[r] \in Nat
        /\ allowed'[r] >= allowed[r]
    BY <1>1 DEF IInv, TypeOK
  <2> QED
    BY <2>1, <2>2, NoNewSender DEF IInv
<1> QED
  BY <1>1, <1>3, <1>4, <1>5, <1>6, WorkersAlone DEF IInv, Credits

LEMMA LeaseExpiresKeeps ==
    ASSUME IInv, NEW q \in Rows, LeaseExpires(q)
    PROVE  IInv'
<1>1. /\ UNCHANGED <<kind, event, worker, consent, overtaken, received, allowed,
                     marked, replays>>
      /\ row' = [row EXCEPT ![q].lapsed = TRUE]
  BY DEF LeaseExpires
<1>2. \A r \in Rows : /\ row[r] \in RowRecord /\ row'[r] \in RowRecord
                      /\ row'[r].status = row[r].status
                      /\ row'[r].attempts = row[r].attempts
                      /\ row'[r].token = row[r].token
  BY <1>1 DEF IInv, TypeOK, RowRecord
<1>3. TypeOK'
  <2>1. faults' \in 0..MaxFaults
    BY LimitsAssumption DEF LeaseExpires, IInv, TypeOK
  <2>2. row' \in [Rows -> RowRecord]
    BY <1>1, <1>2 DEF IInv, TypeOK
  <2> QED
    BY <1>1, <2>1, <2>2 DEF IInv, TypeOK
<1>4. Reports'
  BY <1>1, <1>2, WorkersAlone DEF IInv, Reports, SentIsReal
<1>5. Counts'
  BY <1>1, <1>2 DEF IInv, Counts, NotYetQueued, AttemptsFit, Webhook
<1>6. ASSUME NEW r \in Rows PROVE Credit(r)'
  <2>1. /\ \A v \in Workers : MaySend(v, r)' => MaySend(v, r)
        /\ Owed(r)' <= Owed(r)
    BY <1>1, <1>2 DEF MaySend, Holds, Owed
  <2>2. /\ received'[r] = received[r] /\ allowed'[r] \in Nat
        /\ allowed'[r] >= allowed[r]
    BY <1>1 DEF IInv, TypeOK
  <2> QED
    BY <2>1, <2>2, NoNewSender DEF IInv
<1> QED
  BY <1>1, <1>3, <1>4, <1>5, <1>6, WorkersAlone DEF IInv, Credits

LEMMA ResetKeeps ==
    ASSUME IInv, NEW rs \in SUBSET Resettable, Reset(rs)
    PROVE  IInv'
<1>1. /\ UNCHANGED <<kind, event, worker, consent, overtaken, received, marked,
                     faults>>
      /\ row' = [r \in Rows |-> IF r \in rs THEN Fresh("pending", 0) ELSE row[r]]
      /\ allowed' = [r \in Rows |->
                       IF r \in rs /\ row[r].status = "review_required"
                       THEN allowed[r] + 1 ELSE allowed[r]]
  BY DEF Reset, OnlyRow
<1>2. replays \in Nat /\ replays' = replays + 1 /\ replays' \in 0..MaxReplays
  BY LimitsAssumption DEF Reset, Replay, IInv, TypeOK
<1>3. \A r \in rs : r \in Rows /\ row[r].status \in {"pending", "failed", "review_required"}
  BY DEF Resettable
<1>4. TypeOK'
  <2>1. \A r \in Rows : row'[r] \in RowRecord /\ allowed'[r] \in Nat
    BY <1>1, LimitsAssumption DEF IInv, TypeOK, Fresh, RowRecord, RowStatus
  <2>2. row' \in [Rows -> RowRecord] /\ allowed' \in [Rows -> Nat]
    BY <1>1, <2>1
  <2> QED
    BY <1>1, <1>2, <2>2 DEF IInv, TypeOK
<1>5. Reports'
  BY <1>1, WorkersAlone DEF IInv, Reports, SentIsReal, Fresh
<1>6. Counts'
  <2>1. NotYetQueued'
    BY <1>1, <1>3 DEF IInv, Counts, NotYetQueued, Webhook
  <2>2. ASSUME NEW r \in Rows PROVE AttemptsFit(r)'
    <3>1. /\ row[r].attempts \in Nat /\ MaxAttempts \in Nat \ {0}
          /\ AttemptsFit(r)
      BY LimitsAssumption DEF IInv, TypeOK, RowRecord, Counts
    <3>2. CASE r \in rs
      BY <1>1, <1>2, <3>1, <3>2 DEF AttemptsFit, Fresh
    <3>3. CASE r \notin rs
      BY <1>1, <1>2, <3>1, <3>3 DEF AttemptsFit
    <3> QED
      BY <3>2, <3>3
  <2> QED
    BY <1>1, <2>1, <2>2 DEF IInv, Counts
<1>7. ASSUME NEW r \in Rows PROVE Credit(r)'
  <2>1. allowed[r] \in Nat /\ received[r] \in Nat
    BY DEF IInv, TypeOK
  <2>2. \A v \in Workers : MaySend(v, r)' => MaySend(v, r)
    BY <1>1 DEF MaySend, Holds, Fresh
  <2>3. CASE r \in rs /\ row[r].status = "review_required"
    <3>1. Senders(r)' \subseteq Senders(r)
      BY <2>2 DEF Senders
    <3>2. Cardinality(Senders(r))' <= Cardinality(Senders(r))
      BY <3>1, CountSenders, FS_Subset
    <3>3. /\ Owed(r) = 0 /\ Owed(r)' = 1 /\ allowed'[r] = allowed[r] + 1
          /\ received'[r] = received[r]
      BY <1>1, <2>3 DEF Owed, Fresh
    <3> QED
      BY <2>1, <3>2, <3>3, CountSenders, CountSendersNext DEF IInv, Credits, Credit
  <2>4. CASE ~(r \in rs /\ row[r].status = "review_required")
    <3>1. /\ Owed(r)' <= Owed(r) /\ allowed'[r] = allowed[r]
          /\ received'[r] = received[r]
      BY <1>1, <1>3, <2>4 DEF Owed, Fresh
    <3> QED
      BY <2>1, <2>2, <3>1, NoNewSender DEF IInv
  <2> QED
    BY <2>3, <2>4
<1> QED
  BY <1>1, <1>4, <1>5, <1>6, <1>7, WorkersAlone DEF IInv, Credits

LEMMA ReviewRetryKeeps ==
    ASSUME IInv, NEW q \in Rows, ReviewRetry(q)
    PROVE  IInv'
<1>1. /\ UNCHANGED <<kind, event, worker, consent, overtaken, received, marked,
                     faults>>
      /\ row' = [row EXCEPT ![q].status = "pending"]
      /\ allowed' = [allowed EXCEPT ![q] = @ + 1]
      /\ row[q].status = "review_required"
  BY DEF ReviewRetry, OnlyRow
<1>2. replays \in Nat /\ replays' = replays + 1 /\ replays' \in 0..MaxReplays
  BY LimitsAssumption DEF ReviewRetry, Replay, IInv, TypeOK
<1>3. /\ \A r \in Rows \ {q} : row'[r] = row[r] /\ allowed'[r] = allowed[r]
      /\ row'[q].status = "pending" /\ row'[q].attempts = row[q].attempts
      /\ allowed'[q] = allowed[q] + 1
      /\ \A r \in Rows : row[r] \in RowRecord /\ row'[r] \in RowRecord
  BY <1>1 DEF IInv, TypeOK, RowRecord, RowStatus
<1>4. TypeOK'
  BY <1>1, <1>2, <1>3 DEF IInv, TypeOK
<1>5. Reports'
  BY <1>1, <1>3, WorkersAlone DEF IInv, Reports, SentIsReal
<1>6. Counts'
  <2>1. NotYetQueued'
    BY <1>1, <1>3 DEF IInv, Counts, NotYetQueued, Webhook
  <2>2. ASSUME NEW r \in Rows PROVE AttemptsFit(r)'
    <3>1. /\ row[r].attempts \in Nat /\ MaxAttempts \in Nat /\ AttemptsFit(r)
          /\ row'[r].attempts = row[r].attempts
          /\ r # q => row'[r].status = row[r].status
      BY <1>3, LimitsAssumption DEF IInv, RowRecord, Counts
    <3> QED
      BY <1>2, <3>1 DEF AttemptsFit
  <2> QED
    BY <1>1, <2>1, <2>2 DEF IInv, Counts
<1>7. ASSUME NEW r \in Rows PROVE Credit(r)'
  <2>1. allowed[r] \in Nat /\ received[r] \in Nat
    BY DEF IInv, TypeOK
  <2>2. \A v \in Workers : MaySend(v, r)' => MaySend(v, r)
    BY <1>1, <1>3 DEF MaySend, Holds
  <2>3. CASE r = q
    <3>1. Senders(r)' \subseteq Senders(r)
      BY <2>2 DEF Senders
    <3>2. Cardinality(Senders(r))' <= Cardinality(Senders(r))
      BY <3>1, CountSenders, FS_Subset
    <3>3. /\ Owed(r) = 0 /\ Owed(r)' = 1 /\ allowed'[r] = allowed[r] + 1
          /\ received'[r] = received[r]
      BY <1>1, <1>3, <2>3 DEF Owed
    <3> QED
      BY <2>1, <3>2, <3>3, CountSenders, CountSendersNext DEF IInv, Credits, Credit
  <2>4. CASE r # q
    <3>1. Owed(r)' <= Owed(r) /\ allowed'[r] = allowed[r] /\ received'[r] = received[r]
      BY <1>1, <1>3, <2>4 DEF Owed
    <3> QED
      BY <2>1, <2>2, <3>1, NoNewSender DEF IInv
  <2> QED
    BY <2>3, <2>4
<1> QED
  BY <1>1, <1>4, <1>5, <1>6, <1>7, WorkersAlone DEF IInv, Credits

LEMMA ReviewEndsKeeps ==
    ASSUME IInv, NEW q \in Rows, MarkSent(q) \/ Discard(q)
    PROVE  IInv'
<1>1. /\ UNCHANGED <<kind, event, worker, consent, overtaken, received, allowed,
                     faults, replays>>
      /\ marked' \in SUBSET Rows /\ marked \subseteq marked'
      /\ row[q].status # "none"
  BY DEF MarkSent, Discard, OnlyRow, IInv, TypeOK
<1>2. /\ \A r \in Rows \ {q} : row'[r] = row[r]
      /\ row'[q].status \in {"sent", "discarded"}
      /\ row'[q].status = "sent" => q \in marked'
      /\ row'[q].attempts = row[q].attempts
      /\ \A r \in Rows : row[r] \in RowRecord /\ row'[r] \in RowRecord
      /\ row' = [r \in Rows |-> row'[r]]
  <2>1. row \in [Rows -> RowRecord]
    BY DEF IInv, TypeOK
  <2>2. CASE MarkSent(q)
    BY <2>1, <2>2 DEF MarkSent, RowRecord, RowStatus
  <2>3. CASE Discard(q)
    BY <2>1, <2>3 DEF Discard, RowRecord, RowStatus
  <2> QED
    BY <2>2, <2>3
<1>3. TypeOK'
  <2>1. row' \in [Rows -> RowRecord]
    BY <1>2
  <2> QED
    BY <1>1, <2>1 DEF IInv, TypeOK
<1>4. Reports'
  BY <1>1, <1>2, WorkersAlone DEF IInv, Reports, SentIsReal
<1>5. Counts'
  <2>1. NotYetQueued'
    <3>1. Webhook(q)
      BY DEF MarkSent, Discard
    <3>2. event.status = "processed"
      BY <1>1, <3>1 DEF IInv, Counts, NotYetQueued
    <3> QED
      BY <1>1, <3>2 DEF NotYetQueued
  <2>2. ASSUME NEW r \in Rows PROVE AttemptsFit(r)'
    BY <1>1, <1>2 DEF IInv, Counts, AttemptsFit
  <2> QED
    BY <1>1, <2>1, <2>2 DEF IInv, Counts
<1>6. ASSUME NEW r \in Rows PROVE Credit(r)'
  <2>1. /\ \A v \in Workers : MaySend(v, r)' => MaySend(v, r)
        /\ Owed(r)' <= Owed(r)
    BY <1>1, <1>2 DEF MaySend, Holds, Owed
  <2>2. /\ received'[r] = received[r] /\ allowed'[r] \in Nat
        /\ allowed'[r] >= allowed[r]
    BY <1>1 DEF IInv, TypeOK
  <2> QED
    BY <2>1, <2>2, NoNewSender DEF IInv
<1> QED
  BY <1>1, <1>3, <1>4, <1>5, <1>6, WorkersAlone DEF IInv, Credits

LEMMA ConsentKeeps == ASSUME IInv, Withdraw \/ Grant PROVE IInv'
<1>1. UNCHANGED <<kind, event, row, worker, received, allowed, marked, faults,
                  replays>>
  BY DEF Withdraw, Grant
<1>2. TypeOK'
  BY <1>1 DEF Withdraw, Grant, IInv, TypeOK
<1>3. ConsentRespected'
  BY <1>1 DEF Withdraw, Grant, ConsentRespected
<1>4. ItemsFit' /\ Reports' /\ Counts'
  BY <1>1 DEF IInv, ItemsFit, ItemFits, Reports, ReportIsReal, SentIsReal,
              Counts, NotYetQueued, AttemptsFit, Webhook
<1>5. Credits'
  BY <1>1 DEF IInv, Credits, Credit, Owed, Senders, MaySend, Holds
<1> QED
  BY <1>2, <1>3, <1>4, <1>5 DEF IInv

-----------------------------------------------------------------------------
(* Steps of a worker.                                                      *)

LEMMA IdleWith ==
    ASSUME TypeOK, NEW w \in Workers, NEW at \in {"idle", "between"},
           NEW batch \in SUBSET Rows,
           worker' = [worker EXCEPT ![w] = [Idle EXCEPT !.at = at, !.batch = batch]]
    PROVE  /\ worker' \in [Workers -> WorkerRecord]
           /\ \A v \in Workers \ {w} : worker'[v] = worker[v]
           /\ worker'[w].at = at /\ worker'[w].batch = batch
           /\ worker'[w].row = NoRow
<1> DEFINE rec == [Idle EXCEPT !.at = at, !.batch = batch]
<1>1. /\ rec.at = at /\ rec.batch = batch /\ rec.row = NoRow
      /\ rec.outcome = "none"
      /\ rec = [x \in {"at", "batch", "row", "outcome"} |-> rec[x]]
  BY DEF Idle
<1>2. worker' = [worker EXCEPT ![w] = rec]
  OBVIOUS
<1> HIDE DEF rec
<1>3. rec \in WorkerRecord
  BY <1>1 DEF WorkerRecord, Outcomes
<1> QED
  BY <1>1, <1>2, <1>3 DEF TypeOK

LEMMA ClaimKeeps == ASSUME IInv, NEW w \in Workers, Claim(w) PROVE IInv'
<1>1. /\ UNCHANGED <<kind, event, consent, overtaken, received, marked, faults,
                     replays>>
      /\ row' = [r \in Rows |->
                   IF r \in Claimable
                   THEN [row[r] EXCEPT !.status = "processing", !.token = w,
                                       !.lapsed = FALSE]
                   ELSE row[r]]
      /\ allowed' = [r \in Rows |->
                       IF r \in Claimable /\ row[r].status = "processing"
                       THEN allowed[r] + 1 ELSE allowed[r]]
  BY DEF Claim
<1>2. /\ worker' \in [Workers -> WorkerRecord]
      /\ worker'[w].at = "between" /\ worker'[w].batch = Claimable
      /\ worker'[w].row = NoRow
      /\ \A v \in Workers \ {w} : worker'[v] = worker[v]
  <2>1. Claimable \in SUBSET Rows
    BY DEF Claimable
  <2>2. worker' = [worker EXCEPT ![w] = [Idle EXCEPT !.at = "between",
                                                     !.batch = Claimable]]
    BY DEF Claim
  <2> QED
    BY <2>1, <2>2, IdleWith DEF IInv
<1>3. \A r \in Claimable : r \in Rows /\ row[r].status \in {"pending", "processing"}
  BY DEF Claimable
<1>4. \A r \in Rows :
         /\ row[r] \in RowRecord /\ row'[r] \in RowRecord
         /\ r \notin Claimable => row'[r] = row[r]
         /\ r \in Claimable => /\ row'[r].status = "processing"
                               /\ row'[r].token = w
                               /\ row'[r].attempts = row[r].attempts
  BY <1>1 DEF IInv, TypeOK, RowRecord, RowStatus
<1>5. TypeOK'
  <2>1. row' \in [Rows -> RowRecord]
    BY <1>1, <1>4
  <2>2. allowed' \in [Rows -> Nat]
    <3>1. \A r \in Rows : allowed[r] \in Nat /\ allowed[r] + 1 \in Nat
      BY DEF IInv, TypeOK
    <3>2. \A r \in Rows : allowed'[r] \in {allowed[r], allowed[r] + 1}
      BY <1>1
    <3>3. \A r \in Rows : allowed'[r] \in Nat
      BY <3>1, <3>2
    <3> QED
      BY <1>1, <3>3
  <2> QED
    BY <1>1, <1>2, <2>1, <2>2 DEF IInv, TypeOK
<1>6. ItemsFit' /\ ConsentRespected'
  <2>1. ASSUME NEW v \in Workers
        PROVE  /\ ItemFits(v)'
               /\ worker'[v].at = "cleared" /\ kind'[worker'[v].row] = "marketing"
                     /\ ~consent' => v \in overtaken'
    <3>1. CASE v = w
      BY <1>2, <3>1 DEF ItemFits
    <3>2. CASE v # w
      BY <1>1, <1>2, <3>2 DEF IInv, ItemsFit, ItemFits, ConsentRespected
    <3> QED
      BY <3>1, <3>2
  <2> QED
    BY <2>1 DEF ItemsFit, ConsentRespected
<1>7. Reports'
  <2>1. SentIsReal'
    BY <1>1, <1>3, <1>4 DEF IInv, Reports, SentIsReal
  <2>2. ASSUME NEW v \in Workers PROVE ReportIsReal(v)'
    <3>1. CASE v = w
      BY <1>2, <3>1 DEF ReportIsReal
    <3>2. CASE v # w
      BY <1>1, <1>2, <3>2 DEF IInv, Reports, ReportIsReal
    <3> QED
      BY <3>1, <3>2
  <2> QED
    BY <2>1, <2>2 DEF Reports
<1>8. Counts'
  <2>1. NotYetQueued'
    BY <1>1, <1>3, <1>4 DEF IInv, Counts, NotYetQueued, Webhook
  <2>2. \A r \in Rows : AttemptsFit(r)'
    BY <1>1, <1>3, <1>4 DEF IInv, Counts, AttemptsFit
  <2> QED
    BY <1>1, <2>1, <2>2 DEF IInv, Counts
<1>9. ASSUME NEW r \in Rows PROVE Credit(r)'
  <2>1. allowed[r] \in Nat /\ received'[r] = received[r]
    BY <1>1 DEF IInv, TypeOK
  <2>2. \A v \in Workers \ {w} : MaySend(v, r)' => MaySend(v, r)
    BY <1>2, <1>4 DEF MaySend, Holds
  <2>3. CASE r \in Claimable
    <3>1. Owed(r)' = 0
      BY <1>4, <2>3 DEF Owed
    <3>2. CASE row[r].status = "pending"
      <4>1. Owed(r) = 1 /\ allowed'[r] = allowed[r]
        BY <1>1, <3>2 DEF Owed
      <4> QED
        BY <2>1, <2>2, <3>1, <4>1, SenderComes DEF IInv
    <3>3. CASE row[r].status = "processing"
      <4>1. Owed(r) = 0 /\ allowed'[r] = allowed[r] + 1
        BY <1>1, <2>3, <3>3 DEF Owed
      <4> QED
        BY <2>1, <2>2, <3>1, <4>1, SenderComes DEF IInv
    <3> QED
      BY <1>3, <2>3, <3>2, <3>3
  <2>4. CASE r \notin Claimable
    <3>1. /\ Owed(r)' = Owed(r) /\ Owed(r) \in Nat
          /\ allowed'[r] = allowed[r]
      BY <1>1, <1>4, <2>4 DEF Owed
    <3>2. ~MaySend(w, r)'
      BY <1>2, <2>4, NamesAssumption DEF MaySend
    <3> QED
      BY <2>1, <2>2, <3>1, <3>2, NoNewSender DEF IInv
  <2> QED
    BY <2>3, <2>4
<1> QED
  BY <1>5, <1>6, <1>7, <1>8, <1>9 DEF IInv, Credits

(***************************************************************************)
(* A worker's step on one row: only the two of them change, and the row    *)
(* only if it is the worker's.                                             *)
(***************************************************************************)
WorkerStep(w, r) ==
    /\ UNCHANGED <<kind, event, consent, allowed, marked, replays>>
    /\ worker' \in [Workers -> WorkerRecord]
    /\ \A v \in Workers \ {w} : worker'[v] = worker[v]
    /\ row' \in [Rows -> RowRecord]
    /\ \A q \in Rows \ {r} : row'[q] = row[q]
    /\ \/ row'[r] = row[r]
       \/ /\ Holds(w, r)
          /\ row'[r].status # "none"
          /\ row'[r].status = "processing" => row'[r].token = row[r].token
          /\ row'[r].attempts <= MaxAttempts + replays
          /\ row'[r].status \in {"pending", "processing"} =>
                row'[r].attempts < MaxAttempts + replays

\* What such a step still has to show.
LEMMA WorkerStepKeeps ==
    ASSUME IInv, NEW w \in Workers, NEW r, WorkerStep(w, r),
           ItemFits(w)', ReportIsReal(w)', Credits',
           r \in Rows /\ row'[r].status = "sent" /\ row'[r] # row[r]
              => received'[r] > 0,
           received' \in [Rows -> Nat],
           \A q \in Rows : received'[q] >= received[q],
           overtaken' \in SUBSET Workers, overtaken \ {w} \subseteq overtaken',
           worker'[w].at = "cleared" /\ kind[worker'[w].row] = "marketing"
              /\ ~consent => w \in overtaken',
           faults' \in 0..MaxFaults
    PROVE  IInv'
<1>1. TypeOK'
  BY DEF IInv, TypeOK, WorkerStep
<1>2. ItemsFit'
  BY DEF IInv, ItemsFit, ItemFits, WorkerStep
<1>3. \A q \in Rows : received[q] > 0 => received'[q] > 0
  BY DEF IInv, TypeOK
<1>4. SentIsReal'
  <2> SUFFICES ASSUME NEW q \in Rows, q \notin marked', row'[q].status = "sent"
               PROVE  received'[q] > 0
    BY DEF SentIsReal
  <2>1. CASE row'[q] = row[q]
    BY <1>3, <2>1 DEF IInv, Reports, SentIsReal, WorkerStep
  <2>2. CASE row'[q] # row[q]
    BY <2>2 DEF WorkerStep
  <2> QED
    BY <2>1, <2>2
<1>5. \A v \in Workers : ReportIsReal(v)'
  <2> SUFFICES ASSUME NEW v \in Workers, v # w PROVE ReportIsReal(v)'
    OBVIOUS
  <2>1. worker'[v] = worker[v] /\ ReportIsReal(v) /\ ItemFits(v)
    BY DEF WorkerStep, IInv, Reports, ItemsFit
  <2> QED
    BY <1>3, <2>1 DEF ReportIsReal, ItemFits
<1>6. ConsentRespected'
  BY DEF IInv, ConsentRespected, WorkerStep
<1>7. Counts'
  <2>1. NotYetQueued'
    BY DEF IInv, Counts, NotYetQueued, Webhook, WorkerStep, Holds
  <2>2. ASSUME NEW q \in Rows PROVE AttemptsFit(q)'
    BY DEF IInv, Counts, AttemptsFit, WorkerStep
  <2> QED
    BY <2>1, <2>2 DEF IInv, Counts, WorkerStep
<1> QED
  BY <1>1, <1>2, <1>4, <1>5, <1>6, <1>7 DEF IInv, Reports

\* The same for a step that sends nothing.
LEMMA QuietStepKeeps ==
    ASSUME IInv, NEW w \in Workers, NEW r, WorkerStep(w, r), Quiet,
           ItemFits(w)', ReportIsReal(w)', \A q \in Rows : Credit(q)',
           r \in Rows /\ row'[r].status = "sent" /\ row'[r] # row[r]
              => received[r] > 0,
           worker'[w].at = "cleared" /\ kind[worker'[w].row] = "marketing"
              => consent
    PROVE  IInv'
<1>1. /\ received' = received /\ overtaken' = overtaken /\ faults' = faults
  BY DEF Quiet, OnlyItem
<1>2. /\ received' \in [Rows -> Nat] /\ overtaken' \in SUBSET Workers
      /\ faults' \in 0..MaxFaults
      /\ \A q \in Rows : received'[q] >= received[q]
  BY <1>1 DEF IInv, TypeOK
<1>3. Credits'
  BY DEF Credits
<1>4. /\ r \in Rows /\ row'[r].status = "sent" /\ row'[r] # row[r]
         => received'[r] > 0
      /\ overtaken \ {w} \subseteq overtaken'
  BY <1>1
<1> QED
  BY <1>2, <1>3, <1>4, WorkerStepKeeps

\* Nobody else can send because of it.
LEMMA OthersSend ==
    ASSUME IInv, NEW w \in Workers, NEW r, WorkerStep(w, r), NEW q \in Rows
    PROVE  /\ \A v \in Workers : Holds(v, q)' => Holds(v, q)
           /\ \A v \in Workers \ {w} : MaySend(v, q)' => MaySend(v, q)
           /\ allowed'[q] = allowed[q] /\ allowed[q] \in Nat
           /\ received[q] \in Nat
           /\ q # r \/ row'[r] = row[r] => Owed(q)' = Owed(q)
           /\ Owed(q) \in {0, 1} /\ Owed(q)' \in {0, 1}
           /\ row[q].status = "processing" => Owed(q) = 0
<1>1. \A v \in Workers : Holds(v, q)' => Holds(v, q)
  BY DEF WorkerStep, Holds
<1>2. \A v \in Workers \ {w} : MaySend(v, q)' => MaySend(v, q)
  BY <1>1 DEF MaySend, WorkerStep
<1>3. allowed'[q] = allowed[q] /\ allowed[q] \in Nat /\ received[q] \in Nat
  BY DEF WorkerStep, IInv, TypeOK
<1>4. q # r \/ row'[r] = row[r] => Owed(q)' = Owed(q)
  BY DEF WorkerStep, Owed
<1> QED
  BY <1>1, <1>2, <1>3, <1>4 DEF Owed

\* The worker is done with its row.
LEMMA AfterItemFacts ==
    ASSUME TypeOK, NEW w \in Workers, NEW batch \in SUBSET Rows,
           worker' = AfterItem(w, batch)
    PROVE  /\ worker' \in [Workers -> WorkerRecord]
           /\ \A v \in Workers \ {w} : worker'[v] = worker[v]
           /\ worker'[w].at \in {"idle", "between"}
           /\ worker'[w].batch = batch
           /\ ItemFits(w)' /\ ReportIsReal(w)'
           /\ \A q \in Rows : MaySend(w, q)' <=> Holds(w, q)' /\ q \in batch
<1>1. PICK at \in {"idle", "between"} :
        worker' = [worker EXCEPT ![w] = [Idle EXCEPT !.at = at, !.batch = batch]]
  BY DEF AfterItem
<1>2. /\ worker' \in [Workers -> WorkerRecord]
      /\ \A v \in Workers \ {w} : worker'[v] = worker[v]
      /\ worker'[w].at \in {"idle", "between"} /\ worker'[w].batch = batch
      /\ worker'[w].row = NoRow
  BY <1>1, IdleWith
<1>3. ItemFits(w)' /\ ReportIsReal(w)'
  BY <1>2 DEF ItemFits, ReportIsReal
<1>4. \A q \in Rows : MaySend(w, q)' <=> Holds(w, q)' /\ q \in batch
  BY <1>2, NamesAssumption DEF MaySend
<1> QED
  BY <1>2, <1>3, <1>4

LEMMA RenewFacts ==
    ASSUME IInv, NEW w \in Workers, NEW r \in Rows, NEW batch \in SUBSET Rows,
           r \notin batch, NEW next \in {"prepare", "ready", "cleared"},
           Renew(w, r, batch, next), OnlyItem
    PROVE  /\ WorkerStep(w, r)
           /\ \A q \in Rows : row'[q].status = row[q].status
           /\ ItemFits(w)' /\ ReportIsReal(w)'
           /\ \/ /\ Holds(w, r) /\ Holds(w, r)'
                 /\ worker'[w].at = next /\ worker'[w].row = r
                 /\ worker'[w].batch = batch
              \/ /\ worker'[w].at \in {"idle", "between"}
                 /\ \A q \in Rows : MaySend(w, q)' <=> Holds(w, q)' /\ q \in batch
<1>1. TypeOK /\ row[r] \in RowRecord /\ AttemptsFit(r) /\ worker[w] \in WorkerRecord
  BY DEF IInv, TypeOK, Counts
<1>2. CASE Holds(w, r)
  <2>1. row' = [row EXCEPT ![r].lapsed = FALSE]
    BY <1>2 DEF Renew
  <2>2. /\ row' \in [Rows -> RowRecord]
        /\ \A q \in Rows \ {r} : row'[q] = row[q]
        /\ row'[r].status = row[r].status /\ row'[r].token = row[r].token
        /\ row'[r].attempts = row[r].attempts
    BY <1>1, <2>1 DEF TypeOK, RowRecord
  <2>3. worker' = [worker EXCEPT ![w].at = next, ![w].row = r, ![w].batch = batch]
    BY <1>2 DEF Renew
  <2>4. /\ worker' \in [Workers -> WorkerRecord]
        /\ \A v \in Workers \ {w} : worker'[v] = worker[v]
        /\ worker'[w].at = next /\ worker'[w].row = r
        /\ worker'[w].batch = batch
    BY <1>1, <2>3 DEF TypeOK, WorkerRecord
  <2>5. Holds(w, r)' /\ row[r].status = "processing"
    BY <1>2, <2>2 DEF Holds
  <2>6. WorkerStep(w, r)
    BY <1>1, <1>2, <2>2, <2>4, <2>5 DEF WorkerStep, OnlyItem, AttemptsFit
  <2>7. ItemFits(w)' /\ ReportIsReal(w)'
    BY <2>4 DEF ItemFits, ReportIsReal
  <2>8. \A q \in Rows : row'[q].status = row[q].status
    BY <2>2
  <2> QED
    BY <1>2, <2>4, <2>5, <2>6, <2>7, <2>8
<1>3. CASE ~Holds(w, r)
  <2>1. row' = row /\ worker' = AfterItem(w, batch)
    BY <1>3 DEF Renew
  <2>2. WorkerStep(w, r)
    BY <1>1, <2>1, AfterItemFacts DEF WorkerStep, OnlyItem, TypeOK
  <2> QED
    BY <1>1, <2>1, <2>2, AfterItemFacts
<1> QED
  BY <1>2, <1>3

LEMMA TakeItemKeeps == ASSUME IInv, NEW w \in Workers, TakeItem(w) PROVE IInv'
<1>1. PICK r \in worker[w].batch : Renew(w, r, worker[w].batch \ {r}, "prepare")
  BY DEF TakeItem
<1>2. worker[w].batch \in SUBSET Rows
  BY DEF IInv, TypeOK, WorkerRecord
<1>3. OnlyItem /\ UNCHANGED <<overtaken, received>>
  BY DEF TakeItem, Quiet
<1>4. /\ WorkerStep(w, r)
      /\ \A q \in Rows : row'[q].status = row[q].status
      /\ ItemFits(w)' /\ ReportIsReal(w)'
      /\ \/ /\ Holds(w, r) /\ Holds(w, r)'
            /\ worker'[w].at = "prepare" /\ worker'[w].row = r
            /\ worker'[w].batch = worker[w].batch \ {r}
         \/ /\ worker'[w].at \in {"idle", "between"}
            /\ \A q \in Rows : MaySend(w, q)' <=> Holds(w, q)' /\ q \in worker[w].batch \ {r}
  BY <1>1, <1>2, <1>3, RenewFacts
<1>5. ASSUME NEW q \in Rows PROVE Credit(q)'
  <2>1. Holds(w, q)' => Holds(w, q)
    BY <1>4, OthersSend
  <2>2. MaySend(w, q)' => MaySend(w, q)
    BY <1>4, <2>1 DEF MaySend
  <2>3. Owed(q)' = Owed(q)
    BY <1>4 DEF Owed
  <2> QED
    BY <1>3, <1>4, <2>2, <2>3, OthersSend, NoNewSender DEF IInv
<1> QED
  <2>1. Quiet
    BY DEF TakeItem
  <2>2. row'[r].status # "sent" \/ row'[r] = row[r]
    BY <1>2, <1>4 DEF WorkerStep, Holds
  <2>3. worker'[w].at # "cleared"
    BY <1>4
  <2>4. WorkerStep(w, r) /\ ItemFits(w)' /\ ReportIsReal(w)'
    BY <1>4
  <2> QED
    BY <1>5, <2>1, <2>2, <2>3, <2>4, QuietStepKeeps

LEMMA RenewAgainKeeps == ASSUME IInv, NEW w \in Workers, RenewAgain(w) PROVE IInv'
<1> DEFINE r == worker[w].row
<1>1. r \in Rows /\ r \notin worker[w].batch /\ worker[w].at = "prepare"
  BY DEF RenewAgain, IInv, ItemsFit, ItemFits
<1>2. worker[w].batch \in SUBSET Rows
  BY DEF IInv, TypeOK, WorkerRecord
<1>3. OnlyItem /\ UNCHANGED <<overtaken, received>>
  BY DEF RenewAgain, Quiet
<1>4. PICK next \in {"ready", "cleared"} :
        /\ next = "cleared" => Webhook(r)
        /\ Renew(w, r, worker[w].batch, next)
  BY DEF RenewAgain
<1>5. /\ WorkerStep(w, r)
      /\ \A q \in Rows : row'[q].status = row[q].status
      /\ ItemFits(w)' /\ ReportIsReal(w)'
      /\ \/ /\ Holds(w, r) /\ Holds(w, r)'
            /\ worker'[w].at = next /\ worker'[w].row = r
            /\ worker'[w].batch = worker[w].batch
         \/ /\ worker'[w].at \in {"idle", "between"}
            /\ \A q \in Rows : MaySend(w, q)' <=> Holds(w, q)' /\ q \in worker[w].batch
  BY <1>1, <1>2, <1>3, <1>4, RenewFacts
<1>6. ASSUME NEW q \in Rows PROVE Credit(q)'
  <2>1. Holds(w, q)' => Holds(w, q)
    BY <1>5, OthersSend
  <2>2. MaySend(w, q)' => MaySend(w, q)
    BY <1>1, <1>5, <2>1 DEF MaySend
  <2>3. Owed(q)' = Owed(q)
    BY <1>5 DEF Owed
  <2> QED
    BY <1>3, <1>5, <2>2, <2>3, OthersSend, NoNewSender DEF IInv
<1>7. worker'[w].at = "cleared" => kind[worker'[w].row] # "marketing"
  BY <1>4, <1>5 DEF Webhook
<1> QED
  <2>1. Quiet
    BY DEF RenewAgain
  <2>2. row'[r].status # "sent" \/ row'[r] = row[r]
    BY <1>1, <1>5 DEF WorkerStep, Holds
  <2>3. WorkerStep(w, r) /\ ItemFits(w)' /\ ReportIsReal(w)'
    BY <1>5
  <2> HIDE DEF r
  <2> QED
    BY <1>6, <1>7, <2>1, <2>2, <2>3, QuietStepKeeps

LEMMA RecordFacts ==
    ASSUME IInv, NEW w \in Workers, NEW r \in Rows,
           NEW outcome \in {"sent", "retryable", "permanent", "review"},
           Record(w, r, outcome)
    PROVE  /\ row' \in [Rows -> RowRecord]
           /\ \A q \in Rows \ {r} : row'[q] = row[q]
           /\ \/ ~Holds(w, r) /\ row' = row
              \/ /\ Holds(w, r) /\ row[r].status = "processing"
                 /\ row'[r].status \in {"sent", "failed", "pending", "review_required"}
                 /\ row'[r].status \in {"failed", "pending"}
                       => outcome \in {"retryable", "permanent"}
                 /\ row'[r].status = "sent" => outcome = "sent"
                 /\ row'[r].attempts <= MaxAttempts + replays
                 /\ row'[r].status = "pending" => row'[r].attempts < MaxAttempts + replays
<1>1. row \in [Rows -> RowRecord]
  BY DEF IInv, TypeOK
<1>2. CASE ~Holds(w, r)
  BY <1>1, <1>2 DEF Record
<1>3. CASE Holds(w, r)
  <2>1. /\ row[r].status = "processing" /\ row[r].attempts \in Nat
        /\ row[r].attempts < MaxAttempts + replays
    BY <1>1, <1>3 DEF Holds, IInv, Counts, AttemptsFit, RowRecord
  <2>2. /\ MaxAttempts \in Nat \ {0} /\ MaxReplays \in Nat
        /\ replays \in Nat /\ replays <= MaxReplays
    BY LimitsAssumption DEF IInv, TypeOK
  <2>3. PICK status \in {"sent", "failed", "pending", "review_required"},
             attempts \in Nat :
          /\ Finished(r, outcome) = Fresh(status, attempts)
          /\ attempts <= row[r].attempts + 1
          /\ status \in {"failed", "pending"} => outcome \in {"retryable", "permanent"}
          /\ status = "sent" => outcome = "sent"
          /\ status = "pending" => attempts < MaxAttempts
    <3>1. CASE outcome = "sent"
      BY <2>1, <3>1 DEF Finished
    <3>2. CASE outcome = "retryable"
      BY <2>1, <2>2, <3>2 DEF Finished, Exhausted
    <3>3. CASE outcome = "permanent"
      BY <2>1, <3>3 DEF Finished
    <3>4. CASE outcome = "review"
      BY <2>1, <3>4 DEF Finished
    <3> QED
      BY <3>1, <3>2, <3>3, <3>4
  <2>4. row' = [row EXCEPT ![r] = Fresh(status, attempts)]
    BY <1>3, <2>3 DEF Record
  <2>5. attempts <= MaxAttempts + replays /\ attempts <= MaxAttempts + MaxReplays
    BY <2>1, <2>2, <2>3
  <2>6. Fresh(status, attempts) \in RowRecord
    BY <2>2, <2>3, <2>5 DEF Fresh, RowRecord, RowStatus
  <2>7. row'[r] = Fresh(status, attempts)
    BY <1>1, <2>4
  <2>8. row' \in [Rows -> RowRecord] /\ \A q \in Rows \ {r} : row'[q] = row[q]
    BY <1>1, <2>4, <2>6
  <2>9. row'[r].status = status /\ row'[r].attempts = attempts
    BY <2>7 DEF Fresh
  <2> QED
    BY <1>3, <2>1, <2>2, <2>3, <2>5, <2>8, <2>9
<1> QED
  BY <1>2, <1>3

\* The worker records an outcome and goes on to its next item.
LEMMA RecordAndGo ==
    ASSUME IInv, NEW w \in Workers, NEW r \in Rows,
           NEW outcome \in {"sent", "retryable", "permanent", "review"},
           Record(w, r, outcome), worker' = AfterItem(w, worker[w].batch),
           r \notin worker[w].batch, Quiet,
           outcome = "sent" => received[r] > 0,
           Holds(w, r) /\ outcome \in {"retryable", "permanent"} => MaySend(w, r)
    PROVE  IInv'
<1>1. TypeOK /\ worker[w].batch \in SUBSET Rows
  BY DEF IInv, TypeOK, WorkerRecord
<1>2. /\ worker' \in [Workers -> WorkerRecord]
      /\ \A v \in Workers \ {w} : worker'[v] = worker[v]
      /\ worker'[w].at \in {"idle", "between"}
      /\ ItemFits(w)' /\ ReportIsReal(w)'
      /\ \A q \in Rows : MaySend(w, q)' <=> Holds(w, q)' /\ q \in worker[w].batch
  BY <1>1, AfterItemFacts
<1>3. UNCHANGED <<kind, event, consent, allowed, marked, replays, received>>
  BY DEF Quiet, OnlyItem
<1>4. WorkerStep(w, r)
  BY <1>2, <1>3, RecordFacts DEF WorkerStep
<1>5. ASSUME NEW q \in Rows PROVE Credit(q)'
  <2>1. MaySend(w, q)' => MaySend(w, q)
    BY <1>2, <1>4, OthersSend DEF MaySend
  <2>2. \A v \in Workers : MaySend(v, q)' => MaySend(v, q)
    BY <1>4, <2>1, OthersSend
  <2>3. received'[q] = received[q] /\ received[q] \in Nat
        /\ allowed'[q] = allowed[q] /\ allowed'[q] \in Nat
    BY <1>3 DEF IInv, TypeOK
  <2>4. Owed(q) \in {0, 1} /\ Owed(q)' \in {0, 1}
    BY DEF Owed
  <2>5. CASE Owed(q)' <= Owed(q)
    BY <2>2, <2>3, <2>5, NoNewSender DEF IInv
  <2>6. CASE Owed(q)' > Owed(q)
    <3>1. q = r /\ row'[r] # row[r]
      BY <1>4, <2>4, <2>6, OthersSend
    <3>2. Holds(w, r) /\ row'[r].status \in {"failed", "pending"}
      BY <2>4, <2>6, <3>1, RecordFacts DEF Owed
    <3>3. MaySend(w, q)
      BY <3>1, <3>2, RecordFacts
    <3>4. ~MaySend(w, q)'
      BY <1>2, <3>1
    <3> QED
      BY <2>2, <2>3, <2>4, <3>3, <3>4, SenderLeaves DEF IInv
  <2> QED
    BY <2>4, <2>5, <2>6
<1>6. row'[r].status = "sent" /\ row'[r] # row[r] => received[r] > 0
  BY RecordFacts
<1> QED
  BY <1>2, <1>4, <1>5, <1>6, QuietStepKeeps

LEMMA PrepareFailsKeeps == ASSUME IInv, NEW w \in Workers, PrepareFails(w) PROVE IInv'
<1> DEFINE r == worker[w].row
<1>1. r \in Rows /\ r \notin worker[w].batch /\ worker[w].at \in {"prepare", "ready"}
  BY DEF PrepareFails, IInv, ItemsFit, ItemFits
<1>2. PICK outcome \in {"retryable", "permanent"} : Record(w, r, outcome)
  BY DEF PrepareFails
<1>3. Holds(w, r) => MaySend(w, r)
  BY <1>1 DEF MaySend
<1>4. worker' = AfterItem(w, worker[w].batch) /\ Quiet
  BY DEF PrepareFails
<1> HIDE DEF r
<1> QED
  BY <1>1, <1>2, <1>3, <1>4, RecordAndGo

LEMMA FinishItemKeeps == ASSUME IInv, NEW w \in Workers, FinishItem(w) PROVE IInv'
<1> DEFINE r == worker[w].row
           outcome == worker[w].outcome
<1>1. r \in Rows /\ r \notin worker[w].batch /\ worker[w].at = "answered"
  BY DEF FinishItem, IInv, ItemsFit, ItemFits
<1>2. outcome \in {"sent", "retryable", "permanent", "review"}
  BY <1>1 DEF IInv, TypeOK, ItemsFit, ItemFits, WorkerRecord, Outcomes
<1>3. outcome = "sent" => received[r] > 0
  BY <1>1 DEF IInv, Reports, ReportIsReal
<1>4. Holds(w, r) /\ outcome \in {"retryable", "permanent"} => MaySend(w, r)
  BY <1>1 DEF MaySend
<1>5. Record(w, r, outcome) /\ worker' = AfterItem(w, worker[w].batch) /\ Quiet
  BY DEF FinishItem
<1> HIDE DEF r, outcome
<1> QED
  BY <1>1, <1>2, <1>3, <1>4, <1>5, RecordAndGo

LEMMA PreflightKeeps == ASSUME IInv, NEW w \in Workers, Preflight(w) PROVE IInv'
<1> DEFINE r == worker[w].row
<1>1. /\ r \in Rows /\ r \notin worker[w].batch /\ worker[w].at = "ready"
      /\ worker[w].batch \in SUBSET Rows /\ TypeOK /\ Quiet
  BY DEF Preflight, IInv, ItemsFit, ItemFits, TypeOK, WorkerRecord
<1>2. UNCHANGED <<kind, event, consent, allowed, marked, replays, received>>
  BY <1>1 DEF Quiet, OnlyItem
<1>3. CASE /\ Holds(w, r) /\ Permitted(r) /\ UNCHANGED row
           /\ worker' = [worker EXCEPT ![w].at = "cleared"]
  <2>1. /\ worker' \in [Workers -> WorkerRecord]
        /\ \A v \in Workers \ {w} : worker'[v] = worker[v]
        /\ worker'[w].at = "cleared" /\ worker'[w].row = r
        /\ worker'[w].batch = worker[w].batch
    BY <1>1, <1>3 DEF TypeOK, WorkerRecord
  <2>2. WorkerStep(w, r)
    BY <1>1, <1>2, <1>3, <2>1 DEF WorkerStep, TypeOK
  <2>3. ItemFits(w)' /\ ReportIsReal(w)'
    BY <1>1, <2>1 DEF ItemFits, ReportIsReal
  <2>4. ASSUME NEW q \in Rows PROVE Credit(q)'
    <3>1. MaySend(w, q)' => MaySend(w, q)
      BY <1>1, <1>3, <2>1, <2>2, OthersSend DEF MaySend
    <3> QED
      BY <1>2, <1>3, <2>2, <3>1, OthersSend, NoNewSender DEF IInv
  <2>5. worker'[w].at = "cleared" /\ kind[worker'[w].row] = "marketing" => consent
    BY <1>3, <2>1 DEF Permitted
  <2> QED
    BY <1>1, <1>3, <2>2, <2>3, <2>4, <2>5, QuietStepKeeps
<1>4. CASE /\ worker' = AfterItem(w, worker[w].batch)
           /\ \/ ~Holds(w, r) /\ UNCHANGED row
              \/ Holds(w, r) /\ row' = [row EXCEPT ![r] = Fresh("suppressed", 0)]
  <2>1. /\ worker' \in [Workers -> WorkerRecord]
        /\ \A v \in Workers \ {w} : worker'[v] = worker[v]
        /\ worker'[w].at \in {"idle", "between"}
        /\ ItemFits(w)' /\ ReportIsReal(w)'
        /\ \A q \in Rows : MaySend(w, q)' <=> Holds(w, q)' /\ q \in worker[w].batch
    BY <1>1, <1>4, AfterItemFacts
  <2>2. /\ row' \in [Rows -> RowRecord]
        /\ \A q \in Rows \ {r} : row'[q] = row[q]
        /\ \/ row'[r] = row[r]
           \/ Holds(w, r) /\ row'[r] = Fresh("suppressed", 0)
    <3>1. Fresh("suppressed", 0) \in RowRecord
      BY LimitsAssumption DEF Fresh, RowRecord, RowStatus
    <3> QED
      BY <1>1, <1>4, <3>1 DEF TypeOK
  <2>3. WorkerStep(w, r)
    BY <1>1, <1>2, <2>1, <2>2, LimitsAssumption DEF WorkerStep, Fresh, TypeOK
  <2>4. ASSUME NEW q \in Rows PROVE Credit(q)'
    <3>1. MaySend(w, q)' => MaySend(w, q)
      BY <2>1, <2>3, OthersSend DEF MaySend
    <3>2. Owed(q)' <= Owed(q)
      BY <2>2 DEF Owed, Fresh
    <3> QED
      BY <1>2, <2>3, <3>1, <3>2, OthersSend, NoNewSender DEF IInv
  <2>5. row'[r].status # "sent" \/ row'[r] = row[r]
    BY <2>2 DEF Fresh
  <2> HIDE DEF r
  <2> QED
    BY <1>1, <2>1, <2>3, <2>4, <2>5, QuietStepKeeps
<1> QED
  BY <1>3, <1>4 DEF Preflight

LEMMA CrashKeeps == ASSUME IInv, NEW w \in Workers, Crash(w) PROVE IInv'
<1>1. /\ UNCHANGED <<kind, event, row, consent, received, allowed, marked, replays>>
      /\ worker' = [worker EXCEPT ![w] = Idle] /\ overtaken' = overtaken \ {w}
  BY DEF Crash
<1>2. /\ worker' \in [Workers -> WorkerRecord]
      /\ \A v \in Workers \ {w} : worker'[v] = worker[v]
      /\ worker'[w] = Idle
  BY <1>1 DEF IInv, TypeOK, Idle, WorkerRecord, Outcomes
<1>3. WorkerStep(w, NoRow)
  BY <1>1, <1>2 DEF WorkerStep, IInv, TypeOK
<1>4. ItemFits(w)' /\ ReportIsReal(w)' /\ worker'[w].at # "cleared"
  BY <1>2 DEF ItemFits, ReportIsReal, Idle
<1>5. ASSUME NEW q \in Rows PROVE Credit(q)'
  <2>1. ~MaySend(w, q)'
    BY <1>2, NamesAssumption DEF MaySend, Idle
  <2>2. received'[q] = received[q]
    BY <1>1
  <2>3. Owed(q)' = Owed(q)
    BY <1>1 DEF Owed
  <2> QED
    BY <1>3, <2>1, <2>2, <2>3, OthersSend, NoNewSender DEF IInv
<1>6. /\ received' \in [Rows -> Nat]
      /\ \A q \in Rows : received'[q] >= received[q]
      /\ overtaken' \in SUBSET Workers /\ overtaken \ {w} \subseteq overtaken'
  BY <1>1 DEF IInv, TypeOK
<1>7. faults' \in 0..MaxFaults
  BY LimitsAssumption DEF Crash, IInv, TypeOK
<1> QED
  BY <1>3, <1>4, <1>5, <1>6, <1>7, NamesAssumption, WorkerStepKeeps DEF Credits

\* The message of row r leaves, or not.
LEMMA DeliverFacts ==
    ASSUME TypeOK, NEW r \in Rows, NEW result \in Results, Deliver(r, result)
    PROVE  /\ received' \in [Rows -> Nat]
           /\ \A q \in Rows \ {r} : received'[q] = received[q]
           /\ received[r] \in Nat
           /\ received'[r] \in {received[r], received[r] + 1}
           /\ result = "accepted" => received'[r] = received[r] + 1
           /\ result \in {"refused", "unreachable"} => received'[r] = received[r]
<1>1. received \in [Rows -> Nat]
  BY DEF TypeOK
<1>2. PICK reached \in BOOLEAN :
        /\ result = "accepted" => reached
        /\ result \in {"refused", "unreachable"} => ~reached
        /\ received' = IF reached THEN [received EXCEPT ![r] = @ + 1] ELSE received
  BY DEF Deliver
<1>3. CASE reached
  BY <1>1, <1>2, <1>3
<1>4. CASE ~reached
  BY <1>1, <1>2, <1>4
<1> QED
  BY <1>3, <1>4

LEMMA SendKeeps == ASSUME IInv, NEW w \in Workers, Send(w) PROVE IInv'
<1> DEFINE r == worker[w].row
<1>1. /\ r \in Rows /\ r \notin worker[w].batch /\ worker[w].at = "cleared"
      /\ TypeOK
  BY DEF Send, IInv, ItemsFit, ItemFits
<1>2. PICK result \in Results :
        /\ Deliver(r, result)
        /\ worker' = [worker EXCEPT ![w].at = "answered", ![w].outcome = Classify(result)]
  BY DEF Send
<1>3. /\ UNCHANGED <<kind, event, row, consent, allowed, marked, faults, replays>>
      /\ overtaken' = overtaken \ {w}
  BY DEF Send, OnlyItem
<1>4. /\ Classify(result) \in {"sent", "permanent", "retryable", "review"}
      /\ Classify(result) = "sent" => result = "accepted"
      /\ Classify(result) \in {"retryable", "permanent"}
           => result \in {"refused", "unreachable"}
  BY DEF Classify, Results
<1>5. /\ worker' \in [Workers -> WorkerRecord]
      /\ \A v \in Workers \ {w} : worker'[v] = worker[v]
      /\ worker'[w].at = "answered" /\ worker'[w].outcome = Classify(result)
      /\ worker'[w].row = r /\ worker'[w].batch = worker[w].batch
  BY <1>1, <1>2, <1>4 DEF TypeOK, WorkerRecord, Outcomes
<1>6. WorkerStep(w, r)
  BY <1>1, <1>3, <1>5 DEF WorkerStep, TypeOK
<1>7. /\ received' \in [Rows -> Nat]
      /\ \A q \in Rows \ {r} : received'[q] = received[q]
      /\ received[r] \in Nat
      /\ received'[r] \in {received[r], received[r] + 1}
      /\ result = "accepted" => received'[r] = received[r] + 1
      /\ result \in {"refused", "unreachable"} => received'[r] = received[r]
  BY <1>1, <1>2, DeliverFacts
<1>8. ItemFits(w)' /\ ReportIsReal(w)'
  BY <1>1, <1>4, <1>5, <1>7 DEF ItemFits, ReportIsReal
<1>9. ASSUME NEW q \in Rows PROVE Credit(q)'
  <2>1. MaySend(w, q)' => MaySend(w, q)
    BY <1>1, <1>5, <1>6, OthersSend DEF MaySend
  <2>2. \A v \in Workers : MaySend(v, q)' => MaySend(v, q)
    BY <1>6, <2>1, OthersSend
  <2>3. Owed(q)' = Owed(q) /\ Owed(q) \in {0, 1}
    BY <1>3 DEF Owed
  <2>4. allowed'[q] = allowed[q] /\ allowed[q] \in Nat
    BY <1>6, OthersSend
  <2>5. CASE received'[q] = received[q]
    BY <2>2, <2>3, <2>4, <2>5, NoNewSender DEF IInv
  <2>6. CASE received'[q] # received[q]
    <3>1. q = r /\ received'[q] = received[q] + 1 /\ received[q] \in Nat
      BY <1>7, <2>6
    <3>2. result \notin {"refused", "unreachable"}
      BY <1>7, <2>6, <3>1
    <3>3. MaySend(w, q)
      BY <1>1, <3>1 DEF MaySend
    <3>4. ~MaySend(w, q)'
      BY <1>1, <1>4, <1>5, <3>1, <3>2 DEF MaySend
    <3> QED
      BY <2>2, <2>3, <2>4, <3>1, <3>3, <3>4, SenderLeaves DEF IInv
  <2> QED
    BY <2>5, <2>6
<1>10. /\ \A q \in Rows : received'[q] >= received[q]
       /\ overtaken' \in SUBSET Workers /\ overtaken \ {w} \subseteq overtaken'
       /\ faults' \in 0..MaxFaults /\ worker'[w].at # "cleared"
       /\ row'[r] = row[r]
  BY <1>1, <1>3, <1>5, <1>7 DEF TypeOK
<1> HIDE DEF r
<1> QED
  BY <1>6, <1>7, <1>8, <1>9, <1>10, WorkerStepKeeps DEF Credits

LEMMA SendCancelledKeeps ==
    ASSUME IInv, NEW w \in Workers, SendCancelled(w)
    PROVE  IInv'
<1> DEFINE r == worker[w].row
<1>1. r \in Rows /\ worker[w].at = "cleared" /\ TypeOK
  BY DEF SendCancelled, IInv, ItemsFit, ItemFits
<1>2. /\ UNCHANGED <<kind, event, consent, allowed, marked, replays>>
      /\ worker' = [worker EXCEPT ![w] = Idle] /\ overtaken' = overtaken \ {w}
      /\ Record(w, r, "review") /\ Deliver(r, "lost")
  BY DEF SendCancelled
<1>3. /\ worker' \in [Workers -> WorkerRecord]
      /\ \A v \in Workers \ {w} : worker'[v] = worker[v]
      /\ worker'[w] = Idle
  BY <1>1, <1>2 DEF TypeOK, Idle, WorkerRecord, Outcomes
<1>4. /\ row' \in [Rows -> RowRecord]
      /\ \A q \in Rows \ {r} : row'[q] = row[q]
      /\ \/ ~Holds(w, r) /\ row' = row
         \/ /\ Holds(w, r) /\ row[r].status = "processing"
            /\ row'[r].status = "review_required"
            /\ row'[r].attempts <= MaxAttempts + replays
  BY <1>1, <1>2, RecordFacts
<1>5. WorkerStep(w, r)
  BY <1>2, <1>3, <1>4 DEF WorkerStep
<1>6. /\ received' \in [Rows -> Nat]
      /\ \A q \in Rows \ {r} : received'[q] = received[q]
      /\ received[r] \in Nat
      /\ received'[r] \in {received[r], received[r] + 1}
  BY <1>1, <1>2, DeliverFacts DEF Results
<1>7. ItemFits(w)' /\ ReportIsReal(w)' /\ worker'[w].at # "cleared"
  BY <1>3 DEF ItemFits, ReportIsReal, Idle
<1>8. ASSUME NEW q \in Rows PROVE Credit(q)'
  <2>1. ~MaySend(w, q)'
    BY <1>3, NamesAssumption DEF MaySend, Idle
  <2>2. \A v \in Workers : MaySend(v, q)' => MaySend(v, q)
    BY <1>5, <2>1, OthersSend
  <2>3. /\ allowed'[q] = allowed[q] /\ allowed[q] \in Nat
        /\ Owed(q) \in {0, 1} /\ Owed(q)' \in {0, 1}
    BY <1>5, OthersSend
  <2>4. Owed(q)' <= Owed(q)
    BY <1>4, <2>3 DEF Owed
  <2>5. CASE q = r
    <3>1. MaySend(w, q)
      BY <1>1, <2>5 DEF MaySend
    <3>2. received'[q] \in Nat /\ received'[q] + Owed(q)' <= received[q] + Owed(q) + 1
      BY <1>6, <2>3, <2>4, <2>5
    <3> QED
      BY <2>1, <2>2, <2>3, <3>1, <3>2, SenderLeaves DEF IInv
  <2>6. CASE q # r
    BY <1>6, <2>2, <2>3, <2>4, <2>6, NoNewSender DEF IInv
  <2> QED
    BY <2>5, <2>6
<1>9. /\ \A q \in Rows : received'[q] >= received[q]
      /\ overtaken' \in SUBSET Workers /\ overtaken \ {w} \subseteq overtaken'
      /\ row'[r].status # "sent" \/ row'[r] = row[r]
  BY <1>1, <1>2, <1>4, <1>6 DEF TypeOK
<1>10. faults' \in 0..MaxFaults
  BY LimitsAssumption DEF SendCancelled, IInv, TypeOK
<1> HIDE DEF r
<1> QED
  BY <1>5, <1>6, <1>7, <1>8, <1>9, <1>10, WorkerStepKeeps DEF Credits

-----------------------------------------------------------------------------
LEMMA StepKeeps == IInv /\ [Next]_vars => IInv'
<1> SUFFICES ASSUME IInv, [Next]_vars PROVE IInv'
  OBVIOUS
<1>1. ASSUME NEW w \in Workers,
             Claim(w) \/ ItemStep(w) \/ SendCancelled(w) \/ Crash(w)
      PROVE  IInv'
  BY <1>1, ClaimKeeps, TakeItemKeeps, PrepareFailsKeeps, RenewAgainKeeps,
     PreflightKeeps, SendKeeps, FinishItemKeeps, SendCancelledKeeps, CrashKeeps
  DEF ItemStep
<1>2. ASSUME NEW r \in Rows, LeaseExpires(r) \/ ReviewRetry(r) \/ MarkSent(r) \/ Discard(r)
      PROVE  IInv'
  BY <1>2, LeaseExpiresKeeps, ReviewRetryKeeps, ReviewEndsKeeps
<1>3. ASSUME NEW r \in Rows, Retry(r) PROVE IInv'
  <2>1. {r} \in SUBSET Resettable /\ Reset({r})
    BY <1>3 DEF Retry
  <2> QED
    BY <2>1, ResetKeeps
<1>4. CASE RetryFailed
  <2>1. {r \in Resettable : row[r].status = "failed"} \in SUBSET Resettable
    OBVIOUS
  <2> QED
    BY <1>4, <2>1, ResetKeeps DEF RetryFailed
<1>5. CASE EventStep \/ RequeueFailedEvent
  BY <1>5, ProcessEventKeeps, OtherEventsKeep DEF EventStep
<1>6. CASE Withdraw \/ Grant
  BY <1>6, ConsentKeeps
<1>7. CASE UNCHANGED vars
  <2>1. TypeOK' /\ ConsentRespected'
    BY <1>7 DEF IInv, TypeOK, ConsentRespected, vars
  <2>2. ItemsFit' /\ Reports' /\ Counts'
    BY <1>7 DEF IInv, ItemsFit, ItemFits, Reports, ReportIsReal, SentIsReal,
                Counts, NotYetQueued, AttemptsFit, Webhook, vars
  <2>3. Credits'
    BY <1>7 DEF IInv, Credits, Credit, Owed, Senders, MaySend, Holds, vars
  <2> QED
    BY <2>1, <2>2, <2>3 DEF IInv
<1> QED
  BY <1>1, <1>2, <1>3, <1>4, <1>5, <1>6, <1>7 DEF Next

\* Types, bounded attempts, honest reports, respected consent and the credit
\* of every row.
THEOREM Invariance == Spec => []IInv
<1> QED
  BY InitHolds, StepKeeps, PTL DEF Spec

\* Every variable stays within its type, the attempts of a row included.
THEOREM TypeCorrect == Spec => []TypeOK
<1>1. IInv => TypeOK
  BY DEF IInv
<1> QED
  BY <1>1, Invariance, PTL

\* A row that says sent reached its receiver, for any number of workers that
\* overlap, crash and outlive their leases.
THEOREM SentIsRealAlways == Spec => []SentIsReal
<1>1. IInv => SentIsReal
  BY DEF IInv, Reports
<1> QED
  BY <1>1, Invariance, PTL

\* No marketing message leaves after consent was withdrawn, but from workers
\* that had already passed the check.
THEOREM ConsentRespectedAlways == Spec => []ConsentRespected
<1>1. IInv => ConsentRespected
  BY DEF IInv
<1> QED
  BY <1>1, Invariance, PTL

\* No message reaches its receiver more often than leases ran out and
\* administrators replayed it.
THEOREM ResentOnDecisionAlways == Spec => []ResentOnDecision
<1>1. IInv => ResentOnDecision
  <2> SUFFICES ASSUME IInv, NEW r \in Rows PROVE received[r] <= allowed[r]
    BY DEF ResentOnDecision
  <2>1. /\ Credit(r) /\ received[r] \in Nat /\ allowed[r] \in Nat
        /\ Owed(r) \in {0, 1}
    BY DEF IInv, TypeOK, Credits, Owed
  <2> QED
    BY <2>1, CountSenders DEF Credit
<1> QED
  BY <1>1, Invariance, PTL

=============================================================================
