------------------------------ MODULE Shipping ------------------------------
(***************************************************************************)
(* From the paid order to its delivery: the fulfillment task and its       *)
(* picklist, the shipment, the booking of a carrier, and the documents     *)
(* that the provider worker creates in MoySklad for the order and for the  *)
(* goods that left (its demand).  Refunds change the same order meanwhile. *)
(*                                                                         *)
(* Requests serialize on the order's row, edits of the picklist on the     *)
(* task's: one action each.  The worker holds no row while it calls a      *)
(* carrier or MoySklad; it claims a batch under a lease and a token per    *)
(* row and never looks at the lease again, so a batch behaves like one     *)
(* worker for each of its rows, whose name stands for the token.           *)
(***************************************************************************)
EXTENDS Integers, FiniteSets

CONSTANTS
    Lines,          \* lines of the order
    Setups,         \* configurations of the installation to consider
    Workers, NoWorker,
    MaxAttempts,
    MaxFaults,      \* bound on crashes and on leases that outrun a live worker
    MaxReviews      \* bound on reviews an operator answers with "not booked"

Mode == {"disabled", "manual", "sandbox", "live"}
ASSUME SetupsAssumption == Setups \subseteq [modes : SUBSET Mode, exports : BOOLEAN]
ASSUME LimitsAssumption == /\ MaxAttempts \in Nat \ {0}
                           /\ MaxFaults \in Nat
                           /\ MaxReviews \in Nat
ASSUME WorkersAssumption == IsFiniteSet(Workers)
ASSUME NamesAssumption == NoWorker \notin Workers

VARIABLES
    setup,          \* fixed: modes the delivery provider is switched between,
                    \* and whether orders are exported to MoySklad
    order,          \* its three status columns
    refund,         \* the return under way
    refunded,       \* some of the order's money was paid back
    task,           \* status of the fulfillment task
    picked,         \* lines picked in full
    shipment,
    command,        \* the provider commands about this order
    worker,
    bookings,       \* bookings the carrier holds
    documents,      \* documents MoySklad holds, one per syncId
    reclaims,       \* history: bookings claimed again after their lease
    unheard,        \* history: bookings the carrier made and the worker, on
                    \* an error that is not its own timeout, tries again
    faults, reviews

vars == <<setup, order, refund, refunded, task, picked, shipment, command, worker,
          bookings, documents, reclaims, unheard, faults, reviews>>

Documents == {"order", "demand"}
Commands == Documents \cup {"booking"}

OrderStatus == {"paid", "assembling", "ready", "shipped", "completed",
                "refund_requested", "partially_refunded", "refunded"}
PaymentStatus == {"paid", "refund_processing", "refund_pending",
                  "partially_refunded", "refunded"}
TaskStatus == {"new", "picking", "packed", "ready", "blocked"}
ShipmentStatus == {"created", "shipped", "delivered", "delivery_failed",
                   "returning", "returned_to_sender"}
DeliveryStatus == {"not_started", "assembling", "ready"} \cup ShipmentStatus
CommandStatus == {"none", "pending", "processing", "sent", "failed", "review_required"}
WorkerRecord == [at : {"idle", "claimed", "ready", "answered"},
                 on : Commands, outcome : {"sent", "retry", "review"}]
Idle == [at |-> "idle", on |-> "order", outcome |-> "retry"]

TypeOK ==
    /\ setup \in Setups
    /\ order \in [status : OrderStatus, payment : PaymentStatus,
                  delivery : DeliveryStatus]
    /\ refund \in {"none", "requested", "processing", "failed"}
    /\ refunded \in BOOLEAN
    /\ task \in TaskStatus
    /\ picked \in SUBSET Lines
    /\ shipment \in [status : ShipmentStatus \cup {"none"}, mode : Mode,
                     again : BOOLEAN]
    /\ command \in [Commands -> [status : CommandStatus, token : Workers \cup {NoWorker},
                                 attempts : 0..(MaxAttempts + MaxReviews),
                                 lapsed : BOOLEAN]]
    /\ worker \in [Workers -> WorkerRecord]
    /\ bookings \in Nat
    /\ documents \in SUBSET Documents
    /\ reclaims \in Nat
    /\ unheard \in Nat
    /\ faults \in 0..MaxFaults
    /\ reviews \in 0..MaxReviews

Row(status) == [status |-> status, token |-> NoWorker, attempts |-> 0, lapsed |-> FALSE]

\* Settlement has just created the task and enqueued the order's export.
Init ==
    /\ setup \in Setups
    /\ order = [status |-> "paid", payment |-> "paid", delivery |-> "not_started"]
    /\ refund = "none"
    /\ refunded = FALSE
    /\ task = "new"
    /\ picked = {}
    /\ shipment = [status |-> "none", mode |-> "manual", again |-> FALSE]
    /\ command = [k \in Commands |-> Row(IF k = "order" /\ setup.exports THEN "pending" ELSE "none")]
    /\ worker = [w \in Workers |-> Idle]
    /\ bookings = 0
    /\ documents = {}
    /\ reclaims = 0
    /\ unheard = 0
    /\ faults = 0
    /\ reviews = 0

Jobs == <<setup, worker, bookings, documents, reclaims, unheard, faults, reviews>>

\* enqueue_provider_command: a key that exists keeps its row.
Enqueued(k) ==
    IF command[k].status = "none" THEN [command EXCEPT ![k] = Row("pending")]
    ELSE command

-----------------------------------------------------------------------------
(* Fulfillment.                                                            *)

\* Variant: a task that is ready can be taken back.
TransitionsReopened ==
    [s \in TaskStatus |-> CASE s = "new" -> {"picking", "blocked"}
                            [] s = "picking" -> {"packed", "blocked"}
                            [] s = "blocked" -> {"picking"}
                            [] s = "packed" -> {"ready", "blocked"}
                            [] s = "ready" -> {"blocked"}]

Transitions ==
    [s \in TaskStatus |-> CASE s = "new" -> {"picking", "blocked"}
                            [] s = "picking" -> {"packed", "blocked"}
                            [] s = "blocked" -> {"picking"}
                            [] s = "packed" -> {"ready", "blocked"}
                            [] s = "ready" -> {}]

\* Variant: only the payment tells that a refund is under way.
OrderPaid == order.payment \in {"paid", "partially_refunded"}

\* What update_fulfillment_status asks of the order.
Assemblable ==
    /\ order.payment \in {"paid", "partially_refunded"}
    /\ order.status \notin {"refunded", "refund_requested"}

\* update_fulfillment_status.
UpdateTask(s) ==
    /\ s \in Transitions[task]
    /\ s = "packed" => picked = Lines
    /\ Assemblable
    /\ task' = s
    /\ order' = LET at == IF s = "ready" THEN "ready" ELSE "assembling"
                IN [order EXCEPT !.status = at, !.delivery = at]
    /\ UNCHANGED <<refund, refunded, picked, shipment, command, Jobs>>

\* update_task_item: a line is picked in full, or put back, or has an issue.
EditPicklist(line) ==
    /\ task \in {"new", "picking", "blocked"}
    /\ picked' \in {picked \cup {line}, picked \ {line}}
    /\ UNCHANGED <<order, refund, refunded, task, shipment, command, Jobs>>

-----------------------------------------------------------------------------
(* Shipment.                                                               *)

\* ensure_ready_shipment: the provider's mode now is the shipment's for good.
CreateShipment(mode) ==
    /\ mode \in setup.modes
    /\ order.status = "ready" /\ order.delivery = "ready"
    /\ shipment.status = "none"
    /\ mode # "disabled"
    /\ shipment' = [shipment EXCEPT !.status = "created", !.mode = mode]
    /\ command' = IF mode = "manual" THEN command ELSE Enqueued("booking")
    /\ UNCHANGED <<order, refund, refunded, task, picked, Jobs>>

\* Variant: a booking under review is good enough.
BookedOrReviewed ==
    shipment.mode # "manual" => command["booking"].status \in {"sent", "review_required"}

\* _require_booking_ready.
BookingReady == shipment.mode # "manual" => command["booking"].status = "sent"

\* again is history: a delivery that had failed was tried again.
Moves(status, to) ==
    /\ shipment' = [shipment EXCEPT
                       !.status = to,
                       !.again = @ \/ (shipment.status = "delivery_failed" /\ to = "shipped")]
    /\ order' = [order EXCEPT !.status = status, !.delivery = to]
    /\ UNCHANGED <<refund, refunded, task, picked, Jobs>>

\* transition_shipment to "shipped": a second try after a failed delivery does
\* not look at the order.
Ship ==
    /\ shipment.status \in {"created", "delivery_failed"}
    /\ BookingReady
    /\ shipment.status = "created" =>
          order.status = "ready" /\ order.delivery = "ready"
    /\ Moves("shipped", "shipped")
    /\ command' = IF setup.exports THEN Enqueued("demand") ELSE command

Deliver ==
    /\ shipment.status = "shipped"
    /\ order.status = "shipped" /\ order.delivery = "shipped"
    /\ Moves("completed", "delivered")
    /\ UNCHANGED command

DeliveryGoes(from, to) ==
    /\ shipment.status = from
    /\ Moves(order.status, to)
    /\ UNCHANGED command

TransitionShipment ==
    \/ Ship
    \/ Deliver
    \/ DeliveryGoes("shipped", "delivery_failed")
    \/ DeliveryGoes("delivery_failed", "returning")
    \/ DeliveryGoes("returning", "returned_to_sender")

-----------------------------------------------------------------------------
(* What refunds do to the order meanwhile (module Refunds has them whole). *)

OnlyOrder == UNCHANGED <<task, picked, shipment, command, Jobs>>

CreateReturn ==
    /\ refund \in {"none", "failed"}
    /\ order.payment \in {"paid", "partially_refunded"}
    /\ order.status # "refunded"
    /\ refund' = "requested"
    /\ order' = [order EXCEPT !.status = "refund_requested"]
    /\ UNCHANGED refunded
    /\ OnlyOrder

ApproveReturn ==
    /\ refund \in {"requested", "failed"}
    /\ order.status # "refunded"
    /\ refund' = "processing"
    /\ order' = [order EXCEPT !.status = "refund_requested",
                              !.payment = "refund_processing"]
    /\ UNCHANGED refunded
    /\ OnlyOrder

\* apply_provider_refund_status.
RefundEnds(status) ==
    /\ refund = "processing"
    /\ refund' = IF status = "failed" THEN "failed" ELSE "none"
    /\ refunded' = (refunded \/ status # "failed")
    /\ order' = CASE status = "full" ->
                       [order EXCEPT !.status = "refunded", !.payment = "refunded"]
                  [] status = "partial" \/ refunded ->
                       [order EXCEPT !.status = "partially_refunded",
                                     !.payment = "partially_refunded"]
                  [] OTHER ->
                       [order EXCEPT !.status = "refund_requested", !.payment = "paid"]
    /\ OnlyOrder

RefundPending ==
    /\ refund = "processing"
    /\ order' = [order EXCEPT !.status = "refund_requested",
                              !.payment = "refund_pending"]
    /\ UNCHANGED <<refund, refunded>>
    /\ OnlyOrder

-----------------------------------------------------------------------------
(* Provider commands.                                                      *)

Business == <<setup, order, refund, refunded, task, picked, shipment>>
Holds(w) == LET k == worker[w].on
            IN command[k].status = "processing" /\ command[k].token = w

\* claim_provider_commands.
Claim(w, k) ==
    /\ worker[w].at = "idle"
    /\ \/ command[k].status = "pending"
       \/ command[k].status = "processing" /\ command[k].lapsed
    /\ command' = [command EXCEPT ![k].status = "processing", ![k].token = w,
                                  ![k].lapsed = FALSE]
    /\ worker' = [worker EXCEPT ![w] = [Idle EXCEPT !.at = "claimed", !.on = k]]
    /\ reclaims' = IF k = "booking" /\ command[k].status = "processing"
                   THEN reclaims + 1 ELSE reclaims
    /\ UNCHANGED <<Business, bookings, documents, unheard, faults, reviews>>

\* The lease runs out, behind the back of a live worker or of a dead one's.
LeaseExpires(k) ==
    /\ command[k].status = "processing"
    /\ ~command[k].lapsed
    /\ IF /\ worker[command[k].token].at # "idle"
          /\ worker[command[k].token].on = k
       THEN faults < MaxFaults /\ faults' = faults + 1
       ELSE UNCHANGED faults
    /\ command' = [command EXCEPT ![k].lapsed = TRUE]
    /\ UNCHANGED <<Business, worker, bookings, documents, reclaims, unheard, reviews>>

Crash(w) ==
    /\ worker[w].at # "idle"
    /\ faults < MaxFaults
    /\ faults' = faults + 1
    /\ worker' = [worker EXCEPT ![w] = Idle]
    /\ UNCHANGED <<Business, command, bookings, documents, reclaims, unheard, reviews>>

Answered(w, outcome) ==
    worker' = [worker EXCEPT ![w].at = "answered", ![w].outcome = outcome]

\* Variant: a booking that timed out is tried again.
TimesOutAsRetry == "retry"

\* What the worker makes of a live booking that timed out.
TimesOut == "review"

\* _book and the worker's handlers around it.  The carrier that timed out, or
\* whose answer names no booking, may have accepted it; without an adapter there
\* is only the review.  Every other error, of the adapter's connection too or of
\* the transaction that would record the answer, is taken for a failure and
\* tried again, whether or not the carrier has accepted the booking.
Book(w) ==
    /\ worker[w].at = "claimed" /\ worker[w].on = "booking"
    /\ \/ /\ shipment.mode = "sandbox"
          /\ Answered(w, "sent")
          /\ UNCHANGED <<bookings, unheard>>
       \/ /\ shipment.mode # "sandbox"
          /\ Answered(w, "sent") /\ bookings' = bookings + 1
          /\ UNCHANGED unheard
       \/ /\ shipment.mode # "sandbox"
          /\ Answered(w, TimesOut) \/ Answered(w, "review")
          /\ bookings' \in {bookings, bookings + 1}
          /\ UNCHANGED unheard
       \/ /\ shipment.mode # "sandbox"
          /\ Answered(w, "retry")
          /\ bookings' \in {bookings, bookings + 1}
          /\ unheard' = IF Holds(w) THEN unheard + bookings' - bookings ELSE unheard
    /\ UNCHANGED <<Business, command, documents, reclaims, faults, reviews>>

Exportable(k) ==
    IF k = "order" THEN order.payment \in {"paid", "partially_refunded", "refunded"}
    ELSE order.delivery \in {"shipped", "delivered"}

\* export_customer_order and export_demand up to the request: a snapshot that
\* cannot be exported (or maps to no MoySklad id) goes to review.
Prepare(w) ==
    /\ worker[w].at = "claimed" /\ worker[w].on \in Documents
    /\ \/ Exportable(worker[w].on) /\ worker' = [worker EXCEPT ![w].at = "ready"]
       \/ Answered(w, "review")
    /\ UNCHANGED <<Business, command, bookings, documents, reclaims, unheard, faults, reviews>>

\* The request: MoySklad returns the document a syncId already has.
Post(w) ==
    /\ worker[w].at = "ready"
    /\ \/ /\ documents' = documents \cup {worker[w].on}
          /\ \/ Answered(w, "sent")
             \/ Answered(w, "retry")
       \/ /\ Answered(w, "retry") \/ Answered(w, "review")
          /\ UNCHANGED documents
    /\ UNCHANGED <<Business, command, bookings, reclaims, unheard, faults, reviews>>

\* finish_provider_command.
Sent(row) == [row EXCEPT !.status = "sent", !.token = NoWorker, !.lapsed = FALSE]

\* fail_provider_command, for an error that must not be retried.
Reviewed(row) ==
    [row EXCEPT !.attempts = @ + 1, !.token = NoWorker, !.lapsed = FALSE,
                !.status = "review_required"]

\* fail_provider_command, for an error that may be retried.
Failed(row) ==
    [row EXCEPT !.attempts = @ + 1, !.token = NoWorker, !.lapsed = FALSE,
                !.status = IF row.attempts + 1 >= MaxAttempts THEN "failed" ELSE "pending"]

\* Only for the token that the row still carries.
Record(w) ==
    LET k == worker[w].on
    IN /\ worker[w].at = "answered"
       /\ worker' = [worker EXCEPT ![w] = Idle]
       /\ command' =
            IF ~Holds(w) THEN command
            ELSE [command EXCEPT ![k] =
                    CASE worker[w].outcome = "sent" -> Sent(@)
                      [] worker[w].outcome = "review" -> Reviewed(@)
                      [] OTHER -> Failed(@)]
       /\ UNCHANGED <<Business, bookings, documents, reclaims, unheard, faults, reviews>>

\* reconcile_delivery_booking, by an operator who asked the carrier.
Reconcile ==
    /\ command["booking"].status = "review_required"
    /\ IF bookings > 0
       THEN /\ command' = [command EXCEPT !["booking"].status = "sent"]
            /\ UNCHANGED reviews
       ELSE /\ reviews < MaxReviews
            /\ reviews' = reviews + 1
            /\ command' = [command EXCEPT !["booking"].status = "pending"]
    /\ UNCHANGED <<Business, worker, bookings, documents, reclaims, unheard, faults>>

-----------------------------------------------------------------------------
Requests ==
    \/ \E s \in TaskStatus : UpdateTask(s)
    \/ \E line \in Lines : EditPicklist(line)
    \/ \E mode \in Mode : CreateShipment(mode)
    \/ TransitionShipment

RefundStep ==
    \/ CreateReturn \/ ApproveReturn \/ RefundPending
    \/ \E status \in {"full", "partial", "failed"} : RefundEnds(status)

WorkerStep(w) ==
    \/ \E k \in Commands : Claim(w, k)
    \/ Book(w) \/ Prepare(w) \/ Post(w) \/ Record(w)

Next ==
    \/ Requests
    \/ RefundStep
    \/ \E w \in Workers : WorkerStep(w) \/ Crash(w)
    \/ \E k \in Commands : LeaseExpires(k)
    \/ Reconcile

Spec == Init /\ [][Next]_vars

-----------------------------------------------------------------------------
\* Only goods that were picked in full are handed to a carrier, and nothing
\* that happens to the task or its picklist afterwards, nor a refund, takes
\* the order's delivery status away from its shipment (fulfillment.py:92, 134;
\* api/fulfillment.py:165).
ShipmentIsPrepared ==
    shipment.status # "none" =>
       /\ task = "ready" /\ picked = Lines
       /\ shipment.status # "created" => order.delivery = shipment.status

\* What left the warehouse was booked: the command is sent, and for a live
\* carrier the booking exists, whatever worker reported it and whatever an
\* operator had to decide (delivery_providers.py:73).
ShippedIsBooked ==
    /\ shipment.status \notin {"none", "created"}
    /\ shipment.mode # "manual"
    => /\ command["booking"].status = "sent"
       /\ shipment.mode = "live" => bookings > 0

\* A carrier is booked once, and once more only for a lease that ran out or for
\* a booking it had accepted when the worker met an error that the job retries.
\* What the job itself takes for ambiguous, its own timeout or an answer with no
\* identifier, and what an operator decides never book twice
\* (delivery_provider_jobs.py:55, 124).
BookingsAnsweredFor == bookings <= 1 + reclaims + unheard

\* While a refund is under way the order says so, and an order that is refunded
\* in full stays so, whatever is done to its task and shipment meanwhile.  Only
\* a second try after a failed delivery, which does not look at the order, takes
\* that away (fulfillment.py:146; delivery_providers.py:234).
RefundIsShown ==
    ~shipment.again =>
       /\ refund \in {"requested", "processing"} => order.status = "refund_requested"
       /\ order.payment = "refunded" => order.status = "refunded"

=============================================================================
