----------------------------- MODULE Deliveries -----------------------------
(***************************************************************************)
(* Leased queues of outgoing messages: the webhook outbox, which the event *)
(* dispatcher fills, and the notifications the bot sends.                  *)
(*                                                                         *)
(* A worker claims the due rows under a lease and a token, renews the      *)
(* lease before each item and again before the send, sends with no         *)
(* transaction open, and records the outcome only if the row still carries *)
(* its token.  Every action below is one such transaction or the send.  A  *)
(* worker has one batch at a time, so its name stands for its token.  Two  *)
(* workers overlap when the scheduler loses the connection that carries    *)
(* its advisory lock, and when two bots run.  Backoff, signatures and      *)
(* texts are left out; rows with an internal destination are no longer     *)
(* written (outbox.py:58).                                                 *)
(***************************************************************************)
EXTENDS Integers, FiniteSets

CONSTANTS
    Rows,
    Kinds,          \* the assignments of kinds to the rows to consider
    Workers,
    NoWorker,
    NoRow,
    MaxAttempts,
    MaxEventAttempts,
    MaxFaults,      \* bound on crashes and on leases that outrun a live worker
    MaxReplays      \* bound on what administrators return to a queue

Kind == {"webhook", "misaddressed", "transactional", "marketing"}
ASSUME KindsAssumption == Kinds \subseteq [Rows -> Kind]
ASSUME LimitsAssumption == /\ MaxAttempts \in Nat \ {0}
                           /\ MaxEventAttempts \in Nat \ {0}
                           /\ MaxFaults \in Nat
                           /\ MaxReplays \in Nat
ASSUME WorkersAssumption == IsFiniteSet(Workers)
ASSUME NamesAssumption == NoWorker \notin Workers /\ NoRow \notin Rows

VARIABLES
    kind,           \* fixed: what each row is
    event,          \* the business event the webhooks are about
    row,
    worker,
    consent,        \* latest marketing consent of the addressee
    overtaken,      \* history: workers past the consent check when it was withdrawn
    received,       \* how often the receiver has accepted each message
    allowed,        \* history: sends somebody answers for, see ResentOnDecision
    marked,         \* history: rows an administrator marked as sent
    faults, replays

vars == <<kind, event, row, worker, consent, overtaken, received, allowed,
          marked, faults, replays>>

RowStatus == {"none", "pending", "processing", "sent", "failed",
              "review_required", "suppressed", "discarded"}
RowRecord == [status : RowStatus, attempts : 0..(MaxAttempts + MaxReplays),
              token : Workers \cup {NoWorker}, lapsed : BOOLEAN]
Outcomes == {"none", "sent", "retryable", "permanent", "review"}
WorkerRecord == [at : {"idle", "between", "prepare", "ready", "cleared", "answered"},
                 batch : SUBSET Rows, row : Rows \cup {NoRow}, outcome : Outcomes]

TypeOK ==
    /\ kind \in [Rows -> Kind]
    /\ event \in [status : {"pending", "processed", "failed"},
                  attempts : 0..MaxEventAttempts]
    /\ row \in [Rows -> RowRecord]
    /\ worker \in [Workers -> WorkerRecord]
    /\ consent \in BOOLEAN
    /\ overtaken \in SUBSET Workers
    /\ received \in [Rows -> Nat]
    /\ allowed \in [Rows -> Nat]
    /\ marked \in SUBSET Rows
    /\ faults \in 0..MaxFaults
    /\ replays \in 0..MaxReplays

Webhook(r) == kind[r] \in {"webhook", "misaddressed"}
Fresh(status, attempts) == [status |-> status, attempts |-> attempts,
                            token |-> NoWorker, lapsed |-> FALSE]
Idle == [at |-> "idle", batch |-> {}, row |-> NoRow, outcome |-> "none"]

Init ==
    /\ kind \in Kinds
    /\ event = [status |-> IF \E r \in Rows : Webhook(r) THEN "pending" ELSE "processed",
                attempts |-> 0]
    /\ row = [r \in Rows |-> Fresh(IF Webhook(r) THEN "none" ELSE "pending", 0)]
    /\ worker = [w \in Workers |-> Idle]
    /\ consent = TRUE
    /\ overtaken = {}
    /\ received = [r \in Rows |-> 0]
    /\ allowed = [r \in Rows |-> 1]
    /\ marked = {}
    /\ faults = 0
    /\ replays = 0

-----------------------------------------------------------------------------
(* The event dispatcher.                                                   *)

OnlyEvent == UNCHANGED <<kind, worker, consent, overtaken, received, allowed,
                         marked, faults>>

\* process_event: the webhooks of all active destinations, or none.
ProcessEvent ==
    /\ event.status = "pending"
    /\ event' = [event EXCEPT !.status = "processed"]
    /\ \E active \in SUBSET {r \in Rows : Webhook(r)} :
          row' = [r \in Rows |->
                    IF r \notin active THEN row[r]
                    ELSE IF kind[r] = "webhook" THEN Fresh("pending", 0)
                    ELSE Fresh("failed", MaxAttempts)]
    /\ UNCHANGED replays
    /\ OnlyEvent

\* _record_failed_attempt, after the savepoint took the webhooks back.
EventFails ==
    /\ event.status = "pending"
    /\ event' = [status |-> IF event.attempts + 1 >= MaxEventAttempts
                            THEN "failed" ELSE "pending",
                 attempts |-> event.attempts + 1]
    /\ UNCHANGED <<row, replays>>
    /\ OnlyEvent

RequeueFailedEvent ==
    /\ event.status = "failed"
    /\ replays < MaxReplays
    /\ event' = [status |-> "pending", attempts |-> 0]
    /\ replays' = replays + 1
    /\ UNCHANGED row
    /\ OnlyEvent

-----------------------------------------------------------------------------
(* Leases.                                                                 *)

Holds(w, r) == row[r].status = "processing" /\ row[r].token = w

\* Variant: rows whose holder died are left to themselves.
ClaimableOnce ==
    {r \in Rows : /\ row[r].status = "pending"
                  /\ Webhook(r) \/ row[r].attempts < MaxAttempts}

\* What _claim_outbox and claim_pending_batch select.
Claimable ==
    {r \in Rows : /\ \/ row[r].status = "pending"
                     \/ row[r].status = "processing" /\ row[r].lapsed
                  /\ Webhook(r) \/ row[r].attempts < MaxAttempts}

Claim(w) ==
    /\ worker[w].at = "idle"
    /\ Claimable # {}
    /\ row' = [r \in Rows |->
                 IF r \in Claimable
                 THEN [row[r] EXCEPT !.status = "processing", !.token = w,
                                     !.lapsed = FALSE]
                 ELSE row[r]]
    /\ allowed' = [r \in Rows |->
                     IF r \in Claimable /\ row[r].status = "processing"
                     THEN allowed[r] + 1 ELSE allowed[r]]
    /\ worker' = [worker EXCEPT ![w] = [Idle EXCEPT !.at = "between",
                                                    !.batch = Claimable]]
    /\ UNCHANGED <<kind, event, consent, overtaken, received, marked, faults, replays>>

WorksOn(w, r) == r = worker[w].row \/ r \in worker[w].batch

\* The lease of a row runs out, behind the back of a live worker or because
\* its worker is gone.
LeaseExpires(r) ==
    /\ row[r].status = "processing"
    /\ ~row[r].lapsed
    /\ IF WorksOn(row[r].token, r)
       THEN faults < MaxFaults /\ faults' = faults + 1
       ELSE UNCHANGED faults
    /\ row' = [row EXCEPT ![r].lapsed = TRUE]
    /\ UNCHANGED <<kind, event, worker, consent, overtaken, received, allowed,
                   marked, replays>>

\* The process stops: its rows stay in processing.
Crash(w) ==
    /\ worker[w].at # "idle"
    /\ faults < MaxFaults
    /\ faults' = faults + 1
    /\ worker' = [worker EXCEPT ![w] = Idle]
    /\ overtaken' = overtaken \ {w}
    /\ UNCHANGED <<kind, event, row, consent, received, allowed, marked, replays>>

-----------------------------------------------------------------------------
(* One item of a batch.                                                    *)

\* w is done with its item.
AfterItem(w, batch) ==
    [worker EXCEPT ![w] = [Idle EXCEPT !.at = IF batch = {} THEN "idle" ELSE "between",
                                       !.batch = batch]]

OnlyItem == UNCHANGED <<kind, event, consent, allowed, marked, faults, replays>>
Quiet == UNCHANGED <<overtaken, received>> /\ OnlyItem

\* The lease is renewed if the row is still w's; otherwise w passes on.
Renew(w, r, batch, next) ==
    IF Holds(w, r)
    THEN /\ row' = [row EXCEPT ![r].lapsed = FALSE]
         /\ worker' = [worker EXCEPT ![w].at = next, ![w].row = r, ![w].batch = batch]
    ELSE worker' = AfterItem(w, batch) /\ UNCHANGED row

TakeItem(w) ==
    /\ worker[w].at = "between"
    /\ \E r \in worker[w].batch : Renew(w, r, worker[w].batch \ {r}, "prepare")
    /\ Quiet

Exhausted(r) == row[r].attempts + 1 >= MaxAttempts

\* What an outcome makes of a row.
Finished(r, outcome) ==
    CASE outcome = "sent" ->
            Fresh("sent", IF Webhook(r) THEN row[r].attempts ELSE 0)
      [] outcome = "retryable" ->
            Fresh(IF Exhausted(r) THEN "failed" ELSE "pending", row[r].attempts + 1)
      [] outcome = "review" -> Fresh("review_required", row[r].attempts + 1)
      [] outcome = "permanent" ->
            Fresh(IF Webhook(r) THEN "review_required" ELSE "failed",
                  row[r].attempts + 1)

\* The outcome is recorded if the row is still w's.
Record(w, r, outcome) ==
    row' = IF Holds(w, r) THEN [row EXCEPT ![r] = Finished(r, outcome)] ELSE row

\* The item cannot be sent as it is, or not now: nothing left the process.
PrepareFails(w) ==
    /\ worker[w].at \in {"prepare", "ready"}
    /\ \E outcome \in {"retryable", "permanent"} :
          /\ worker[w].at = "ready" => outcome = "retryable"
          /\ Record(w, worker[w].row, outcome)
    /\ worker' = AfterItem(w, worker[w].batch)
    /\ Quiet

RenewAgain(w) ==
    /\ worker[w].at = "prepare"
    /\ Renew(w, worker[w].row, worker[w].batch,
             IF Webhook(worker[w].row) THEN "cleared" ELSE "ready")
    /\ Quiet

\* Variant: consent is asked for on the first attempt only.
PermittedOnce(r) == kind[r] = "marketing" /\ row[r].attempts = 0 => consent

\* The policy of preflight_notification_delivery.
Permitted(r) == kind[r] = "marketing" => consent

Preflight(w) ==
    LET r == worker[w].row
    IN /\ worker[w].at = "ready"
       /\ \/ /\ Holds(w, r) /\ Permitted(r)
             /\ worker' = [worker EXCEPT ![w].at = "cleared"]
             /\ UNCHANGED row
          \/ /\ Holds(w, r) /\ ~Permitted(r)
             /\ row' = [row EXCEPT ![r] = Fresh("suppressed", 0)]
             /\ worker' = AfterItem(w, worker[w].batch)
          \/ /\ ~Holds(w, r)
             /\ worker' = AfterItem(w, worker[w].batch)
             /\ UNCHANGED row
       /\ Quiet

-----------------------------------------------------------------------------
(* The send and its outcome.                                               *)

\* How a send can end for the one who sends.
Results == {"accepted", "refused", "unreachable", "lost"}

\* Variant: whatever is not refused is tried again.
ClassifyHopefully(result) ==
    CASE result = "accepted" -> "sent"
      [] result = "refused" -> "permanent"
      [] OTHER -> "retryable"

\* Variant: no answer is taken for a good one.
ClassifySent(result) ==
    CASE result = "refused" -> "permanent"
      [] result = "unreachable" -> "retryable"
      [] OTHER -> "sent"

\* classify_transport_exception, classify_http_status and
\* classify_telegram_delivery_error.
Classify(result) ==
    CASE result = "accepted" -> "sent"
      [] result = "refused" -> "permanent"
      [] result = "unreachable" -> "retryable"
      [] result = "lost" -> "review"

\* The message reaches the receiver; of a lost answer nobody can tell.
Deliver(r, result) ==
    \E reached \in BOOLEAN :
        /\ result = "accepted" => reached
        /\ result \in {"refused", "unreachable"} => ~reached
        /\ received' = IF reached THEN [received EXCEPT ![r] = @ + 1] ELSE received

Send(w) ==
    /\ worker[w].at = "cleared"
    /\ \E result \in Results :
          /\ Deliver(worker[w].row, result)
          /\ worker' = [worker EXCEPT ![w].at = "answered",
                                      ![w].outcome = Classify(result)]
    /\ overtaken' = overtaken \ {w}
    /\ UNCHANGED row
    /\ OnlyItem

\* The job is cancelled while it sends: the webhook is parked for review, the
\* rest of the batch abandoned.
SendCancelled(w) ==
    /\ worker[w].at = "cleared"
    /\ Webhook(worker[w].row)
    /\ faults < MaxFaults
    /\ faults' = faults + 1
    /\ Deliver(worker[w].row, "lost")
    /\ Record(w, worker[w].row, "review")
    /\ worker' = [worker EXCEPT ![w] = Idle]
    /\ overtaken' = overtaken \ {w}
    /\ UNCHANGED <<kind, event, consent, allowed, marked, replays>>

FinishItem(w) ==
    /\ worker[w].at = "answered"
    /\ Record(w, worker[w].row, worker[w].outcome)
    /\ worker' = AfterItem(w, worker[w].batch)
    /\ Quiet

-----------------------------------------------------------------------------
(* Administrators and the addressee.                                       *)

OnlyRow == UNCHANGED <<kind, event, worker, consent, overtaken, received, faults>>

Replay == replays < MaxReplays /\ replays' = replays + 1

\* Rows that _reset_for_retry and reset_notification_delivery accept.
Resettable ==
    {r \in Rows : /\ kind[r] # "misaddressed"
                  /\ \/ row[r].status \in {"pending", "failed"}
                     \/ ~Webhook(r) /\ row[r].status = "review_required"}

Reset(rs) ==
    /\ Replay
    /\ row' = [r \in Rows |-> IF r \in rs THEN Fresh("pending", 0) ELSE row[r]]
    /\ allowed' = [r \in Rows |->
                     IF r \in rs /\ row[r].status = "review_required"
                     THEN allowed[r] + 1 ELSE allowed[r]]
    /\ UNCHANGED marked
    /\ OnlyRow

Retry(r) == r \in Resettable /\ Reset({r})

RetryFailed == Reset({r \in Resettable : row[r].status = "failed"})

ReviewRetry(r) ==
    /\ kind[r] = "webhook"
    /\ row[r].status = "review_required"
    /\ Replay
    /\ row' = [row EXCEPT ![r].status = "pending"]
    /\ allowed' = [allowed EXCEPT ![r] = @ + 1]
    /\ UNCHANGED marked
    /\ OnlyRow

MarkSent(r) ==
    /\ Webhook(r)
    /\ row[r].status = "review_required"
    /\ row' = [row EXCEPT ![r].status = "sent"]
    /\ marked' = marked \cup {r}
    /\ UNCHANGED <<allowed, replays>>
    /\ OnlyRow

Discard(r) ==
    /\ Webhook(r)
    /\ row[r].status \in {"pending", "failed", "review_required"}
    /\ row' = [row EXCEPT ![r].status = "discarded"]
    /\ UNCHANGED <<allowed, marked, replays>>
    /\ OnlyRow

Withdraw ==
    /\ consent
    /\ consent' = FALSE
    /\ overtaken' = {w \in Workers : worker[w].at = "cleared"}
    /\ UNCHANGED <<kind, event, row, worker, received, allowed, marked, faults, replays>>

Grant ==
    /\ ~consent
    /\ consent' = TRUE
    /\ overtaken' = {}
    /\ UNCHANGED <<kind, event, row, worker, received, allowed, marked, faults, replays>>

-----------------------------------------------------------------------------
ItemStep(w) ==
    \/ TakeItem(w) \/ PrepareFails(w) \/ RenewAgain(w) \/ Preflight(w)
    \/ Send(w) \/ FinishItem(w)

EventStep == ProcessEvent \/ EventFails

Next ==
    \/ EventStep \/ RequeueFailedEvent
    \/ \E w \in Workers : Claim(w) \/ ItemStep(w) \/ SendCancelled(w) \/ Crash(w)
    \/ \E r \in Rows : \/ LeaseExpires(r) \/ Retry(r) \/ ReviewRetry(r)
                       \/ MarkSent(r) \/ Discard(r)
    \/ RetryFailed \/ Withdraw \/ Grant

Spec == Init /\ [][Next]_vars

\* The jobs are started again and again and their steps end; leases run out.
Fairness ==
    /\ WF_vars(EventStep)
    /\ \A w \in Workers : WF_vars(Claim(w)) /\ WF_vars(ItemStep(w))
    /\ \A r \in Rows : WF_vars(LeaseExpires(r))

FairSpec == Spec /\ Fairness

-----------------------------------------------------------------------------
\* A row that says sent was accepted by its receiver, unless an administrator
\* marked it: no late, stolen or lost outcome pretends a delivery
\* (outbox_jobs.py:468, notification_delivery.py:348).
SentIsReal ==
    \A r \in Rows \ marked : row[r].status = "sent" => received[r] > 0

\* A message is sent once, and once more only for each decision of an
\* administrator to replay a row in review and for each lease that ran out
\* under a holder: what may have arrived is never retried blindly
\* (outbox_jobs.py:443, send_notifications.py:122, webhook_delivery.py:120).
ResentOnDecision == \A r \in Rows : received[r] <= allowed[r]

\* Only a worker that had passed the consent check before the consent was
\* withdrawn can still send a marketing message, be it the first attempt or a
\* retry (notification_delivery.py:253, send_notifications.py:167).
ConsentRespected ==
    \A w \in Workers :
        /\ worker[w].at = "cleared"
        /\ kind[worker[w].row] = "marketing"
        /\ ~consent
        => w \in overtaken

\* Every event and every row comes to an end or waits for an administrator,
\* whatever crashed in between (outbox_jobs.py:66, notification_delivery.py:118,
\* event_dispatcher.py:153).
DeliveriesEnd ==
    /\ event.status = "pending" ~> event.status # "pending"
    /\ \A r \in Rows :
          row[r].status \in {"pending", "processing"}
              ~> row[r].status \notin {"pending", "processing"}

=============================================================================
