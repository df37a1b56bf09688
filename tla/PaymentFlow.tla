---------------------------- MODULE PaymentFlow ----------------------------
(***************************************************************************)
(* The payment of one order: create_payment requests, provider webhooks,   *)
(* the reconciliation job and manual cancellation, all of which read the   *)
(* provider without holding a row lock and then commit one transaction     *)
(* that locks the order.                                                   *)
(*                                                                         *)
(* A transaction is one step.  A provider call, and the wait before it, is *)
(* a separate step of the same actor: what the actor observed stays in its *)
(* local state and may be stale when its next transaction runs.            *)
(*                                                                         *)
(* The idempotence key sent to the provider is (order, attempt number), so *)
(* the provider has at most one payment per attempt and attempt n's        *)
(* payment is called n.                                                    *)
(***************************************************************************)
EXTENDS Naturals, FiniteSets

CONSTANTS
    MaxAttempts,    \* bound on creation attempts, hence on provider payments
    Clients,        \* concurrent create_payment requests
    MaxHooks,       \* bound on webhook deliveries being handled at once
    TwoStage,       \* whether the provider ever holds a payment for capture
    Refusals        \* whether settling an order ever fails for its own reasons

ASSUME MaxAttemptsAssumption == MaxAttempts \in Nat \ {0}
ASSUME MaxHooksAssumption == MaxHooks \in Nat
ASSUME TwoStageAssumption == TwoStage \in BOOLEAN
ASSUME RefusalsAssumption == Refusals \in BOOLEAN

Attempts == 1..MaxAttempts
NoPayment == 0
PaymentIds == 0..MaxAttempts

Active == {"pending", "waiting_for_capture"}
Live == Active \cup {"succeeded"}
ProviderStatus == Live \cup {"canceled"}
Final == {"succeeded", "canceled"}

Retryable == {"creating", "retry_required"}
OpenAttempt == Retryable \cup {"review_required"}
AttemptStatus == OpenAttempt \cup {"completed", "abandoned", "none"}

OrderStatus == {"created", "payment_created", "paid", "cancelled",
                "payment_review_required"}
Settled == {"paid", "paid_review_required"}
ReviewPayment == {"payment_review_required", "paid_review_required"}
OrderPayment == Settled \cup ReviewPayment
                \cup {"pending", "payment_created", "cancelled"}
MovementKinds == {"reserve", "release", "commit"}

Events == {"payment.waiting_for_capture", "payment.succeeded", "payment.canceled"}

(***************************************************************************)
(* The committed rows of the order.  att, pid and leased are its creation  *)
(* attempts (last is the newest one), row its Payment rows by provider id  *)
(* (latest is the one inserted last), moves the kinds of its inventory     *)
(* movements, cases the payments with an open review case, processed its   *)
(* PaymentEvent rows.                                                      *)
(***************************************************************************)
Database ==
    [status: OrderStatus, pay: OrderPayment,
     att: [Attempts -> AttemptStatus], pid: [Attempts -> PaymentIds],
     leased: SUBSET Attempts, last: PaymentIds,
     row: [Attempts -> ProviderStatus \cup {"none"}], latest: PaymentIds,
     moves: SUBSET MovementKinds, cases: SUBSET Attempts,
     processed: SUBSET (Attempts \X Events)]

VARIABLES
    db,         \* the committed database
    prov,       \* the provider's payments
    sent,       \* notifications the provider has sent: each may arrive often
    offered,    \* payments whose confirmation link a customer has been given
    req,        \* create_payment requests
    hooks,      \* webhook handlers between their provider call and their commit
    job         \* the reconciliation job's current candidate

vars == <<db, prov, sent, offered, req, hooks, job>>

RequestSteps == {"idle", "fetch", "apply", "again", "post", "verify",
                 "finalize", "review"}
Seen == ProviderStatus \cup {"none"}
Request == [pc: RequestSteps, id: PaymentIds, seen: Seen]
Hook == [id: Attempts, event: Events, seen: ProviderStatus]
Job == [pc: {"idle", "apply", "persist"}, id: PaymentIds, seen: Seen,
        paid: BOOLEAN]

IdleRequest == [pc |-> "idle", id |-> NoPayment, seen |-> "none"]
IdleJob == [pc |-> "idle", id |-> NoPayment, seen |-> "none", paid |-> FALSE]

TypeOK ==
    /\ db \in Database
    /\ prov \in [Attempts -> ProviderStatus \cup {"none"}]
    /\ sent \subseteq Attempts \X Events
    /\ offered \subseteq Attempts
    /\ req \in [Clients -> Request]
    /\ \A c \in Clients : req[c].pc # "idle" => req[c].id \in Attempts
    /\ hooks \subseteq Hook
    /\ job \in Job
    /\ job.pc # "idle" => job.id \in Attempts

\* A checked-out order: its stock is reserved and no payment was requested yet.
Init ==
    /\ db = [status |-> "created", pay |-> "pending",
             att |-> [n \in Attempts |-> "none"],
             pid |-> [n \in Attempts |-> NoPayment],
             leased |-> {}, last |-> 0,
             row |-> [n \in Attempts |-> "none"], latest |-> NoPayment,
             moves |-> {"reserve"}, cases |-> {}, processed |-> {}]
    /\ prov = [n \in Attempts |-> "none"]
    /\ sent = {}
    /\ offered = {}
    /\ req = [c \in Clients |-> IdleRequest]
    /\ hooks = {}
    /\ job = IdleJob

-----------------------------------------------------------------------------
(***************************************************************************)
(* Domain functions: each maps the database to what the function leaves.   *)
(***************************************************************************)
Cancelled(d) == d.status = "cancelled" \/ d.pay = "cancelled"

AwaitingPayment(d) ==
    /\ d.status \in {"created", "payment_created"}
    /\ d.pay \in {"pending", "payment_created"}

(***************************************************************************)
(* Settlement sells the stock once: the ledger's unique index on (order,   *)
(* variant, kind), or the check on the reserved quantity before it, raises *)
(* for an order whose stock was sold and whose settled status a review     *)
(* has overwritten since (SettledUnlessOverwritten).                       *)
(*                                                                         *)
(* Settlement may also be refused for a reason that comes and goes: a      *)
(* loyalty balance below the points the order redeems (Refusals).  That    *)
(* rolls a request or a handler back, as RequestStops, a VerifyCreated     *)
(* that asks for review and HookFails do; only the job acts on it.         *)
(***************************************************************************)
SettleRaises(d) == d.pay \notin Settled /\ (Cancelled(d) \/ "commit" \in d.moves)

Settle(d) ==
    IF d.pay \in Settled THEN d
    ELSE [d EXCEPT !.moves = @ \cup {"commit"}, !.status = "paid", !.pay = "paid"]

CancelRaises(d, source) ==
    IF d.status = "cancelled" /\ d.pay = "cancelled" THEN FALSE
    ELSE \/ Cancelled(d)
         \/ d.pay \in Settled
         \/ /\ source = "manual"
            /\ \/ d.status # "created" \/ d.pay # "pending"
               \/ d.latest # NoPayment
               \/ \E n \in Attempts : d.att[n] \in OpenAttempt
         \/ source = "provider" /\ ~AwaitingPayment(d)

\* Variant: the reservation is not given back.
CancelKeepsStock(d) ==
    IF d.status = "cancelled" THEN d
    ELSE [d EXCEPT !.status = "cancelled", !.pay = "cancelled"]

Cancel(d) ==
    IF d.status = "cancelled" THEN d
    ELSE [d EXCEPT !.moves = @ \cup {"release"},
                   !.status = "cancelled", !.pay = "cancelled"]

\* Variants: the flag is ignored one way or the other.
ToReviewAsPaid(d, paid, p) ==
    [d EXCEPT !.status = "payment_review_required", !.pay = "paid_review_required",
              !.cases = @ \cup {p}]
ToReviewAsUnpaid(d, paid, p) ==
    [d EXCEPT !.status = "payment_review_required", !.pay = "payment_review_required",
              !.cases = @ \cup {p}]
ToReview(d, paid, p) ==
    [d EXCEPT !.status = "payment_review_required",
              !.pay = IF paid THEN "paid_review_required"
                      ELSE "payment_review_required",
              !.cases = @ \cup {p}]

CloseAttempt(d, n, status, p) ==
    [d EXCEPT !.att[n] = status, !.pid[n] = p, !.leased = @ \ {n}]

NewestOpen(d) ==
    CHOOSE n \in Attempts :
        /\ d.att[n] \in OpenAttempt
        /\ \A m \in Attempts : d.att[m] \in OpenAttempt => m <= n

CompleteFromProvider(d, p) ==
    IF \A n \in Attempts : d.att[n] \notin OpenAttempt THEN d
    ELSE IF /\ d.att[NewestOpen(d)] = "review_required"
            /\ d.pid[NewestOpen(d)] # p
         THEN d
         ELSE CloseAttempt(d, NewestOpen(d), "completed", p)

MarkRetry(d, n) ==
    IF d.att[n] \in {"completed", "abandoned", "review_required"} THEN d
    ELSE [d EXCEPT !.att[n] = "retry_required", !.leased = @ \ {n}]

MarkReview(d, n) ==
    IF d.att[n] \in {"completed", "abandoned"} THEN d
    ELSE CloseAttempt(d, n, "review_required", n)

\* A new Payment row becomes the order's latest one.
RecordPayment(d, p, status) ==
    [d EXCEPT !.row[p] = status, !.latest = IF d.row[p] = "none" THEN p ELSE @]

-----------------------------------------------------------------------------
(***************************************************************************)
(* A create_payment request: begin, the provider call, its verification,   *)
(* finalize, and what it persists when it must give up.                    *)
(***************************************************************************)

\* The payment begin_payment_creation reuses, if any.
ReusablePayment(d) ==
    IF d.latest # NoPayment /\ d.row[d.latest] \in Live THEN d.latest
    ELSE IF /\ d.last # 0
            /\ d.att[d.last] = "completed"
            /\ d.row[d.pid[d.last]] \in Live
         THEN d.pid[d.last]
         ELSE NoPayment

BeginRaises(d) ==
    \/ Cancelled(d)
    \/ ~AwaitingPayment(d)
    \/ /\ ReusablePayment(d) = NoPayment
       /\ d.last # 0
       /\ \/ d.att[d.last] = "completed" /\ d.row[d.pid[d.last]] = "none"
          \/ d.att[d.last] = "review_required"
          \/ d.att[d.last] = "creating" /\ d.last \in d.leased

\* Variant: every retry gets an attempt, and an idempotence key, of its own.
ClaimedAfresh(d) == d.last + 1

\* The attempt begin_payment_creation claims: an open one again, or a new one.
ClaimedAttempt(d) ==
    IF d.last # 0 /\ d.att[d.last] \in Retryable THEN d.last ELSE d.last + 1

Claim(d) ==
    LET n == ClaimedAttempt(d)
    IN  [d EXCEPT !.att[n] = "creating", !.leased = @ \cup {n}, !.last = n]

Goto(c, pc, id, seen) == req' = [req EXCEPT ![c] = [pc |-> pc, id |-> id, seen |-> seen]]

Done(c) == req' = [req EXCEPT ![c] = IdleRequest]

BeginExisting(c) ==
    /\ req[c].pc = "idle"
    /\ ~BeginRaises(db)
    /\ ReusablePayment(db) # NoPayment
    /\ Goto(c, "fetch", ReusablePayment(db), db.row[ReusablePayment(db)])
    /\ UNCHANGED <<db, prov, sent, offered, hooks, job>>

BeginClaim(c) ==
    /\ req[c].pc \in {"idle", "again"}
    /\ ~BeginRaises(db)
    /\ ReusablePayment(db) = NoPayment
    /\ ClaimedAttempt(db) \in Attempts
    /\ db' = Claim(db)
    /\ Goto(c, "post", ClaimedAttempt(db), "none")
    /\ UNCHANGED <<prov, sent, offered, hooks, job>>

FetchExisting(c) ==
    /\ req[c].pc = "fetch"
    /\ Goto(c, "apply", req[c].id, prov[req[c].id])
    /\ UNCHANGED <<db, prov, sent, offered, hooks, job>>

\* The provider is down: an active payment's stored link is returned instead.
FallbackToStored(c) ==
    /\ req[c].pc = "fetch"
    /\ req[c].seen \in Active
    /\ offered' = offered \cup {req[c].id}
    /\ Done(c)
    /\ UNCHANGED <<db, prov, sent, hooks, job>>

ReconcileExisting(c) ==
    LET p == req[c].id
        s == req[c].seen
        d == [db EXCEPT !.row[p] = s]
    IN  /\ req[c].pc = "apply"
        /\ \/ /\ s \in Active
              /\ db' = CompleteFromProvider(d, p)
              /\ offered' = offered \cup {p}
              /\ Done(c)
           \/ /\ s = "succeeded"
              /\ db' = IF SettleRaises(d) THEN db
                       ELSE CompleteFromProvider(Settle(d), p)
              /\ Done(c)
              /\ UNCHANGED offered
           \/ /\ s = "canceled"
              /\ db' = d
              /\ Goto(c, "again", p, "none")
              /\ UNCHANGED offered
        /\ UNCHANGED <<prov, sent, hooks, job>>

(***************************************************************************)
(* The first request with an idempotence key creates the payment; a later  *)
(* one is answered with the payment as it was created or as it now is.     *)
(***************************************************************************)
Posted(n) == IF prov[n] = "none" THEN [prov EXCEPT ![n] = "pending"] ELSE prov

Post(c) ==
    /\ req[c].pc = "post"
    /\ prov' = Posted(req[c].id)
    /\ \E s \in {"pending", prov'[req[c].id]} : Goto(c, "verify", req[c].id, s)
    /\ UNCHANGED <<db, sent, offered, hooks, job>>

\* A network error or a transient status: the provider may have acted or not.
PostRetryable(c) ==
    /\ req[c].pc = "post"
    /\ prov' \in {prov, Posted(req[c].id)}
    /\ db' = MarkRetry(db, req[c].id)
    /\ Done(c)
    /\ UNCHANGED <<sent, offered, hooks, job>>

(***************************************************************************)
(* A rejected or unreadable answer.  The review is asked for with an empty *)
(* payment id, which the review case refuses, so its transaction is rolled *)
(* back and the attempt stays leased.                                      *)
(***************************************************************************)
PostUncertain(c) ==
    /\ req[c].pc = "post"
    /\ prov' \in {prov, Posted(req[c].id)}
    /\ Done(c)
    /\ UNCHANGED <<db, sent, offered, hooks, job>>

VerifyCreated(c) ==
    /\ req[c].pc = "verify"
    /\ \/ prov[req[c].id] = req[c].seen /\ Goto(c, "finalize", req[c].id, req[c].seen)
       \/ Goto(c, "review", req[c].id, req[c].seen)
    /\ UNCHANGED <<db, prov, sent, offered, hooks, job>>

FinalizeRaises(d, n) ==
    \/ d.att[n] = "completed" /\ d.row[d.pid[n]] = "none"
    \/ d.att[n] \in {"review_required", "abandoned"}

FinalizedPayment(d, n) == IF d.att[n] = "completed" THEN d.pid[n] ELSE n

Finalized(d, n, s) ==
    LET r == IF d.row[n] \in Final THEN d ELSE RecordPayment(d, n, s)
        late(paid) == ToReview(CloseAttempt(r, n, "review_required", n), paid, n)
    IN  CASE d.att[n] = "completed" -> d
          [] d.att[n] # "completed" /\ d.pay \in Settled ->
                IF s = "canceled" THEN late(TRUE) ELSE CloseAttempt(r, n, "completed", n)
          [] d.att[n] # "completed" /\ d.pay \notin Settled /\ s = "canceled" ->
                CloseAttempt(r, n, "abandoned", n)
          [] d.att[n] # "completed" /\ d.pay \notin Settled /\ s # "canceled"
             /\ ~AwaitingPayment(d) -> late(s = "succeeded")
          [] OTHER -> [CloseAttempt(r, n, "completed", n) EXCEPT
                           !.status = "payment_created", !.pay = "payment_created"]

Finalize(c) ==
    LET n == req[c].id
        p == FinalizedPayment(db, n)
        d == Finalized(db, n, req[c].seen)
        inReview == d.status = "payment_review_required" \/ d.pay \in ReviewPayment
        settles == ~inReview /\ d.row[p] = "succeeded"
    IN  /\ req[c].pc = "finalize"
        /\ IF FinalizeRaises(db, n) \/ (settles /\ SettleRaises(d))
           THEN /\ Goto(c, "review", n, req[c].seen)
                /\ UNCHANGED <<db, offered>>
           ELSE /\ db' = IF settles THEN Settle(d) ELSE d
                /\ offered' = IF inReview THEN offered ELSE offered \cup {p}
                /\ Done(c)
        /\ UNCHANGED <<prov, sent, hooks, job>>

\* Variant: only the provider's answer decides whether the order was paid.
PersistReviewUnpaid(c) ==
    /\ req[c].pc = "review"
    /\ db' = IF db.row[req[c].id] = "none" THEN db
             ELSE ToReview(MarkReview(db, req[c].id), req[c].seen = "succeeded", req[c].id)
    /\ Done(c)
    /\ UNCHANGED <<prov, sent, offered, hooks, job>>

\* Without a Payment row there is no review case, and nothing is persisted.
PersistCreationReview(c) ==
    LET n == req[c].id
        paid == req[c].seen = "succeeded" \/ db.pay \in Settled
    IN  /\ req[c].pc = "review"
        /\ db' = IF db.row[n] = "none" THEN db
                 ELSE ToReview(MarkReview(db, n), paid, n)
        /\ Done(c)
        /\ UNCHANGED <<prov, sent, offered, hooks, job>>

\* The request fails, or its process stops, wherever it stands.
RequestStops(c) ==
    /\ req[c].pc # "idle"
    /\ Done(c)
    /\ UNCHANGED <<db, prov, sent, offered, hooks, job>>

LeaseExpires(n) ==
    /\ n \in db.leased
    /\ db' = [db EXCEPT !.leased = @ \ {n}]
    /\ UNCHANGED <<prov, sent, offered, req, hooks, job>>

-----------------------------------------------------------------------------
(***************************************************************************)
(* Provider notifications.                                                 *)
(***************************************************************************)
HookFetch(p, e) ==
    /\ <<p, e>> \in sent
    /\ Cardinality(hooks) < MaxHooks
    /\ hooks' = hooks \cup {[id |-> p, event |-> e, seen |-> prov[p]]}
    /\ UNCHANGED <<db, prov, sent, offered, req, job>>

StaleCancellation(d, p) ==
    d.latest # NoPayment /\ p # d.latest /\ d.row[d.latest] \in Live

PaidNotice(h) == h.event = "payment.succeeded" /\ h.seen = "succeeded"

CanceledNotice(d, h) ==
    /\ h.event = "payment.canceled"
    /\ h.seen = "canceled"
    /\ ~StaleCancellation(d, h.id)

NoticeReviews(d, h) ==
    \/ PaidNotice(h) /\ Cancelled(d)
    \/ CanceledNotice(d, h) /\ (d.pay \in Settled \/ CancelRaises(d, "provider"))

(***************************************************************************)
(* A Payment row the handler adds is not flushed when the review case      *)
(* looks the payment up, so the review of a payment without a row raises   *)
(* and the whole transaction is rolled back, as it is when the stock of    *)
(* an order in review was sold before.                                     *)
(***************************************************************************)
NoticeRaises(d, h) ==
    \/ NoticeReviews(d, h) /\ d.row[h.id] = "none"
    \/ PaidNotice(h) /\ ~Cancelled(d) /\ SettleRaises(d)

\* What the handler commits.
Notified(d, h) ==
    LET p == h.id
        r == [CompleteFromProvider(RecordPayment(d, p, h.seen), p)
                  EXCEPT !.processed = @ \cup {<<p, h.event>>}]
    IN  IF <<p, h.event>> \in d.processed \/ NoticeRaises(d, h) THEN d
        ELSE CASE PaidNotice(h) ->
                    IF Cancelled(d) THEN ToReview(r, TRUE, p) ELSE Settle(r)
               [] CanceledNotice(d, h) ->
                    IF d.pay \in Settled THEN [r EXCEPT !.cases = @ \cup {p}]
                    ELSE IF CancelRaises(d, "provider") THEN ToReview(r, FALSE, p)
                    ELSE Cancel(r)
               [] OTHER -> r

HookCommit(h) ==
    /\ h \in hooks
    /\ db' = Notified(db, h)
    /\ hooks' = hooks \ {h}
    /\ UNCHANGED <<prov, sent, offered, req, job>>

\* An error, or the process stopping: the provider will notify again.
HookFails(h) ==
    /\ hooks' = hooks \ {h}
    /\ UNCHANGED <<db, prov, sent, offered, req, job>>

-----------------------------------------------------------------------------
(***************************************************************************)
(* The reconciliation job: one at a time, over each order's latest row.    *)
(***************************************************************************)

\* Variant: a row that already says "succeeded" is taken for done.
ReconcilableActive(d) ==
    /\ d.latest # NoPayment
    /\ d.row[d.latest] \in Active
    /\ d.pay \in {"pending", "payment_created", "cancelled"}

Reconcilable(d) ==
    /\ d.latest # NoPayment
    /\ d.row[d.latest] \in Live
    /\ d.pay \in {"pending", "payment_created", "cancelled"}

JobFetch ==
    /\ job.pc = "idle"
    /\ Reconcilable(db)
    /\ job' = [pc |-> "apply", id |-> db.latest, seen |-> prov[db.latest], paid |-> FALSE]
    /\ UNCHANGED <<db, prov, sent, offered, req, hooks>>

JobApply ==
    LET p == job.id
        s == job.seen
        d == [db EXCEPT !.row[p] = s]
        persist(paid) == job' = [job EXCEPT !.pc = "persist", !.paid = paid] /\ UNCHANGED db
        commit(e) == db' = e /\ job' = IdleJob
    IN  /\ job.pc = "apply"
        /\ IF ~Reconcilable(db) \/ db.latest # p THEN commit(db)
           ELSE \/ s \in Active /\ commit(d)
                \/ /\ s = "succeeded"
                   /\ IF SettleRaises(d) THEN persist(Cancelled(d))
                      ELSE commit(Settle(d)) \/ (Refusals /\ persist(FALSE))
                \/ /\ s = "canceled"
                   /\ IF CancelRaises(d, "provider") THEN persist(FALSE) ELSE commit(Cancel(d))
        /\ UNCHANGED <<prov, sent, offered, req, hooks>>

\* _persist_review locks the rows again and does not look at their status.
JobPersist ==
    /\ job.pc = "persist"
    /\ db' = ToReview([db EXCEPT !.row[job.id] = job.seen], job.paid, job.id)
    /\ job' = IdleJob
    /\ UNCHANGED <<prov, sent, offered, req, hooks>>

\* The scheduler's process stops in the middle of a run.
JobStops ==
    /\ job.pc # "idle"
    /\ job' = IdleJob
    /\ UNCHANGED <<db, prov, sent, offered, req, hooks>>

ManualCancel ==
    /\ ~CancelRaises(db, "manual")
    /\ db' = Cancel(db)
    /\ UNCHANGED <<prov, sent, offered, req, hooks, job>>

-----------------------------------------------------------------------------
(***************************************************************************)
(* The provider.  A customer can authorise only a payment whose link was   *)
(* handed out; an unpaid payment may expire at any time.                   *)
(***************************************************************************)
ProviderMoves(n, from, to, news) ==
    /\ prov[n] \in from
    /\ prov' = [prov EXCEPT ![n] = to]
    /\ sent' = sent \cup {<<n, news>>}
    /\ UNCHANGED <<db, offered, req, hooks, job>>

Authorise(n) ==
    /\ TwoStage
    /\ n \in offered
    /\ ProviderMoves(n, {"pending"}, "waiting_for_capture", "payment.waiting_for_capture")

Succeed(n) ==
    /\ n \in offered
    /\ ProviderMoves(n, Active, "succeeded", "payment.succeeded")

Expire(n) == ProviderMoves(n, Active, "canceled", "payment.canceled")

RequestStep(c) ==
    \/ BeginExisting(c) \/ BeginClaim(c)
    \/ FetchExisting(c) \/ FallbackToStored(c) \/ ReconcileExisting(c)
    \/ Post(c) \/ PostRetryable(c) \/ PostUncertain(c)
    \/ VerifyCreated(c) \/ Finalize(c) \/ PersistCreationReview(c)
    \/ RequestStops(c)

JobStep == JobFetch \/ JobApply \/ JobPersist \/ JobStops

Next ==
    \/ \E c \in Clients : RequestStep(c)
    \/ \E n \in Attempts : LeaseExpires(n) \/ Authorise(n) \/ Succeed(n) \/ Expire(n)
    \/ \E p \in Attempts, e \in Events : HookFetch(p, e)
    \/ \E h \in hooks : HookCommit(h) \/ HookFails(h)
    \/ JobStep
    \/ ManualCancel

Spec == Init /\ [][Next]_vars

(***************************************************************************)
(* The scheduler starts the reconciliation job again and again, and not    *)
(* every run is stopped at the same place; a notification may never arrive *)
(* and a customer may never come back.                                     *)
(***************************************************************************)
FairSpec ==
    Spec /\ WF_vars(JobFetch) /\ SF_vars(JobApply) /\ SF_vars(JobPersist)

-----------------------------------------------------------------------------
(***************************************************************************)
(* Properties.                                                             *)
(***************************************************************************)

(***************************************************************************)
(* An order counts as paid only if the provider really took the money of   *)
(* one of its payments, however stale the answer that settled it.          *)
(***************************************************************************)
PaidIsBacked ==
    db.pay \in Settled => \E n \in Attempts : prov[n] = "succeeded"

(***************************************************************************)
(* Stock that was sold to the order is paid for: the order is settled, or, *)
(* where a settlement can be refused to the job, it waits in review with a *)
(* case for a payment whose money the provider did take.  No retry, late   *)
(* answer or cancellation leads anywhere else.                             *)
(***************************************************************************)
SoldIsPaidOrReviewed ==
    "commit" \in db.moves =>
        \/ db.pay \in Settled
        \/ /\ Refusals
           /\ db.pay = "payment_review_required"
           /\ \E p \in db.cases : prov[p] = "succeeded"

(***************************************************************************)
(* The inventory ledger agrees with the order's status, as                 *)
(* expected_core_chain has it for orders that await payment or are         *)
(* cancelled; a paid order's stock was reserved and sold.                  *)
(***************************************************************************)
ReservationMatchesStatus ==
    /\ db.status \in {"created", "payment_created"} => db.moves = {"reserve"}
    /\ db.status = "cancelled" => db.moves = {"reserve", "release"}
    /\ db.status = "paid" => {"reserve", "commit"} \subseteq db.moves

(***************************************************************************)
(* A customer never holds links to two payments that can both take money.  *)
(***************************************************************************)
NoDoubleCharge ==
    \A m, n \in offered : prov[m] \in Live /\ prov[n] \in Live => m = n

(***************************************************************************)
(* An order parked for payment review has a case an operator can find.     *)
(***************************************************************************)
ReviewHasCase == db.pay \in ReviewPayment => db.cases # {}

(***************************************************************************)
(* The constraints of payment_creation_attempts hold without the database  *)
(* having to reject a transaction: one open attempt, a payment id on each  *)
(* completed one, a lease on none but a creating one.                      *)
(***************************************************************************)
AttemptRows ==
    /\ \A m, n \in Attempts :
          db.att[m] \in OpenAttempt /\ db.att[n] \in OpenAttempt => m = n
    /\ \A n \in Attempts : db.att[n] = "completed" => db.pid[n] # NoPayment
    /\ \A n \in db.leased : db.att[n] = "creating"

(***************************************************************************)
(* Once settled an order stays settled, whoever still acts on what it read *)
(* before, but for one step: the job, to which a settlement was refused,   *)
(* persists its review without looking whether a request or a handler has  *)
(* settled the order since (_persist_review).  That review has a case for  *)
(* a payment that succeeded.                                               *)
(***************************************************************************)
Overwritten ==
    /\ Refusals
    /\ job.pc = "persist" /\ job' = IdleJob
    /\ db'.pay = "payment_review_required" /\ job.id \in db'.cases
    /\ prov[job.id] = "succeeded"

SettledUnlessOverwritten ==
    [][db.pay \in Settled => db'.pay \in Settled \/ Overwritten]_vars

(***************************************************************************)
(* The order's stock is never both released and sold: expected_core_chain  *)
(* gives every order one or the other.                                     *)
(***************************************************************************)
NeverReleasedAndSold == ~({"release", "commit"} \subseteq db.moves)

\* The order was settled, or someone is asked to look at it.
Recovered == db.pay \in Settled \cup ReviewPayment

(***************************************************************************)
(* Money the provider took is noticed even if its notification is lost, as *)
(* long as the payment is the one whose row was inserted last.             *)
(***************************************************************************)
LatestMoneyIsNoticed ==
    \A n \in Attempts :
        prov[n] = "succeeded" /\ db.latest = n ~> Recovered \/ db.latest # n

=============================================================================
