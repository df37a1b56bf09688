------------------------------ MODULE Refunds ------------------------------
(***************************************************************************)
(* The refunds of one paid order: its customer asks for returns,           *)
(* administrators approve them, and the provider's answers arrive through  *)
(* the approving request, the webhook and the reconciliation job.          *)
(*                                                                         *)
(* A transaction locks the order before the return and is one step.  The   *)
(* provider is called between two transactions of an actor, which keeps    *)
(* the answer in its local state: it may be stale when it is applied.      *)
(*                                                                         *)
(* The idempotence key of a refund names the payment, the return and the   *)
(* amount, which is fixed by the first approval, so the provider holds at  *)
(* most one refund per return.                                             *)
(*                                                                         *)
(* The order has one line, of some quantity, and free delivery.  A return  *)
(* pays back cents of the line, on the evidence of how many units came     *)
(* back or by value alone, and goodwill.                                   *)
(***************************************************************************)
EXTENDS OrderMoney, FiniteSets, Functions

CONSTANTS
    MaxReturns,     \* bound on the return requests of the order
    Total,          \* what the customer paid, in cents
    Quantity,       \* units of the order's line
    Approvers,      \* concurrent approval requests
    MaxHooks        \* bound on webhook deliveries being handled at once

ASSUME MaxReturnsAssumption == MaxReturns \in Nat \ {0}
ASSUME TotalAssumption == Total \in Nat \ {0}
ASSUME QuantityAssumption == Quantity \in Nat \ {0}
ASSUME MaxHooksAssumption == MaxHooks \in Nat

Returns == 1..MaxReturns
NoReturn == 0

\* Variant: a partial refund does not count.
FinalFull == {"approved"}

Final == {"approved", "approved_partial"}
InFlight == {"processing", "refund_retry_required", "refund_review_required",
             "refund_pending"}
Reserving == InFlight \cup Final
OpenReturn == InFlight \cup {"requested"}
ReturnStatus ==
    OpenReturn \cup {"approved", "approved_partial", "failed", "none"}

\* Variant: a refund that waits for a retry is left to the administrators.
JobPendingSettled == {"processing", "refund_pending"}

JobPending == {"processing", "refund_pending", "refund_retry_required"}
JobFinal == Final \cup {"failed"}

UnderWay == {"refund_processing", "refund_pending", "refund_review_required"}
Approvable == UnderWay \cup {"paid", "partially_refunded"}
OrderPayment == Approvable \cup {"refunded"}
OrderStatus == {"paid", "refund_requested", "partially_refunded", "refunded"}

ProviderStatus == {"pending", "succeeded", "canceled"}

(***************************************************************************)
(* An answer is what the provider says of the refund, one that fails the   *)
(* checks on id, amount and currency, or none.                             *)
(***************************************************************************)
Answers == ProviderStatus \cup {"bad", "none"}

(***************************************************************************)
(* bound: the return carries the provider's refund id.  restored: how      *)
(* often the loyalty effects of a full refund were applied.  Of a return's *)
(* amount, item is for the line and the rest is goodwill; units are the    *)
(* evidence for item, 0 if there is none.                                  *)
(***************************************************************************)
ReturnRow == [status: ReturnStatus, amount: 0..Total, item: 0..Total,
              units: 0..Quantity, bound: BOOLEAN]
Database == [status: OrderStatus, pay: OrderPayment,
             ret: [Returns -> ReturnRow], restored: Nat]

VARIABLES
    db,         \* the committed database
    prov,       \* the provider's refunds
    appr,       \* approval requests
    hooks,      \* webhook handlers that have seen the refund succeeded
    job         \* the reconciliation job: its candidates and the current one

vars == <<db, prov, appr, hooks, job>>

Approval == [pc: {"idle", "call", "apply", "retry", "review"},
             ret: Returns \cup {NoReturn}, seen: Answers]
Hook == [ret: Returns, pc: {"apply", "review"}]
Job == [todo: SUBSET Returns, pc: {"idle", "apply", "review"},
        ret: Returns \cup {NoReturn}, seen: Answers]

IdleApproval == [pc |-> "idle", ret |-> NoReturn, seen |-> "none"]
IdleJob(todo) == [todo |-> todo, pc |-> "idle", ret |-> NoReturn, seen |-> "none"]

TypeOK ==
    /\ db \in Database
    /\ prov \in [Returns -> ProviderStatus \cup {"none"}]
    /\ appr \in [Approvers -> Approval]
    /\ \A a \in Approvers : appr[a].pc # "idle" => appr[a].ret \in Returns
    /\ hooks \subseteq Hook
    /\ job \in Job
    /\ job.pc # "idle" => job.ret \in Returns

\* A settled order nobody has asked to return.
Init ==
    /\ db = [status |-> "paid", pay |-> "paid",
             ret |-> [r \in Returns |->
                         [status |-> "none", amount |-> 0, item |-> 0,
                          units |-> 0, bound |-> FALSE]],
             restored |-> 0]
    /\ prov = [r \in Returns |-> "none"]
    /\ appr = [a \in Approvers |-> IdleApproval]
    /\ hooks = {}
    /\ job = IdleJob({})

-----------------------------------------------------------------------------
(***************************************************************************)
(* Domain functions on the database.                                       *)
(***************************************************************************)
Amounts(d, statuses) ==
    [r \in Returns |-> IF d.ret[r].status \in statuses THEN d.ret[r].amount ELSE 0]

\* What the other returns of the order have been paid back.
CompletedBesides(d, r) == SumFunctionOnSet(Amounts(d, Final), Returns \ {r})
CompletedTotal(d) == SumFunctionOnSet(Amounts(d, Final), Returns)

\* What returns have reserved: of the amount, of the line's cents or units.
Reserved(d, part, returns) ==
    SumFunctionOnSet([r \in Returns |-> IF d.ret[r].status \in Reserving
                                        THEN d.ret[r][part] ELSE 0], returns)

(***************************************************************************)
(* What a return may consist of; as a bound, one of the line and goodwill. *)
(* Cents of the line that come with units are the share of these among the *)
(* units that are left, and do not follow cents without units.             *)
(***************************************************************************)
Compositions ==
    {c \in [amount: 1..Total, item: 0..Total, units: 0..Quantity] :
        c.item \in {0, c.amount} /\ (c.units > 0 => c.item > 0)}

ValueOnlyBesides(d, r) ==
    \E s \in Returns \ {r} :
        d.ret[s].status \in Reserving /\ d.ret[s].item > 0 /\ d.ret[s].units = 0

\* Variant: units that are not left are priced like those that are.
FitsAnyUnits(d, r, c) ==
    LET others == Returns \ {r}
        itemLeft == Total - Reserved(d, "item", others)
        unitsLeft == Quantity - Reserved(d, "units", others)
    IN  /\ Reserved(d, "amount", others) + c.amount <= Total
        /\ c.item <= itemLeft
        /\ c.units > 0 => /\ ~ValueOnlyBesides(d, r)
                          /\ c.item = Share(itemLeft, c.units, unitsLeft)

Fits(d, r, c) ==
    LET others == Returns \ {r}
        itemLeft == Total - Reserved(d, "item", others)
        unitsLeft == Quantity - Reserved(d, "units", others)
    IN  /\ Reserved(d, "amount", others) + c.amount <= Total
        /\ c.item <= itemLeft
        /\ c.units > 0 => /\ ~ValueOnlyBesides(d, r)
                          /\ c.units <= unitsLeft
                          /\ c.item = Share(itemLeft, c.units, unitsLeft)

\* The composition is new, or the one that was fixed before.
Allocates(d, r, c) ==
    /\ d.ret[r].amount = 0 \/ \A part \in DOMAIN c : d.ret[r][part] = c[part]
    /\ Fits(d, r, c)

StillFits(d, r) == Fits(d, r, d.ret[r])

SetOrder(d, status, pay) == [d EXCEPT !.status = status, !.pay = pay]

\* Variant: the stored allocation is not validated again.
RaisesOnTotal(d, r, seen) ==
    /\ seen = "succeeded"
    /\ d.ret[r].status \notin Final
    /\ CompletedBesides(d, r) + d.ret[r].amount > Total

\* A success is refused if it no longer fits what the others hold.
ApplyRaises(d, r, seen) ==
    /\ seen = "succeeded"
    /\ d.ret[r].status \notin Final
    /\ \/ ~StillFits(d, r)
       \/ CompletedBesides(d, r) + d.ret[r].amount > Total

Succeeded(d, r) ==
    IF CompletedBesides(d, r) + d.ret[r].amount = Total
    THEN SetOrder([d EXCEPT !.ret[r].status = "approved", !.restored = @ + 1],
                  "refunded", "refunded")
    ELSE SetOrder([d EXCEPT !.ret[r].status = "approved_partial"],
                  "partially_refunded", "partially_refunded")

\* Variant: earlier refunds are forgotten.
CanceledAsPaid(d, r) ==
    SetOrder([d EXCEPT !.ret[r].status = "failed"], "refund_requested", "paid")
Canceled(d, r) ==
    IF CompletedBesides(d, r) > 0
    THEN SetOrder([d EXCEPT !.ret[r].status = "failed"],
                  "partially_refunded", "partially_refunded")
    ELSE SetOrder([d EXCEPT !.ret[r].status = "failed"], "refund_requested", "paid")

Pending(d, r) ==
    SetOrder([d EXCEPT !.ret[r].status = "refund_pending"],
             "refund_requested", "refund_pending")

\* Variant: whatever is not canceled has succeeded.
ApplyHopefully(d, r, seen) ==
    CASE d.ret[r].status \in Final -> d
      [] d.ret[r].status \notin Final /\ seen = "canceled" -> Canceled(d, r)
      [] OTHER -> Succeeded(d, r)

\* apply_provider_refund_status, where it does not raise.
Apply(d, r, seen) ==
    CASE d.ret[r].status \in Final -> d
      [] d.ret[r].status \notin Final /\ seen = "succeeded" -> Succeeded(d, r)
      [] d.ret[r].status \notin Final /\ seen = "canceled"  -> Canceled(d, r)
      [] OTHER -> Pending(d, r)

Review(d, r) ==
    SetOrder([d EXCEPT !.ret[r].status = "refund_review_required"],
             "refund_requested", "refund_review_required")

\* The webhook and the job respect a failure as well as a success.
MarkReview(d, r) == IF d.ret[r].status \in JobFinal THEN d ELSE Review(d, r)

\* The order and the return are each moved only from the state it expects.
MarkRetry(d, r) ==
    IF d.ret[r].status \in Final THEN d
    ELSE LET o == IF d.pay = "refund_processing"
                  THEN SetOrder(d, "refund_requested", "refund_pending") ELSE d
         IN  IF d.ret[r].status = "processing"
             THEN [o EXCEPT !.ret[r].status = "refund_retry_required"] ELSE o

-----------------------------------------------------------------------------
(***************************************************************************)
(* The customer and the administrators.                                    *)
(***************************************************************************)

\* With a return still open, the request answers with it and changes nothing.
CreateReturn(r) ==
    /\ db.ret[r].status = "none"
    /\ \A s \in Returns : s < r => db.ret[s].status # "none"
    /\ \A s \in Returns : db.ret[s].status \notin OpenReturn
    /\ db.pay \in {"paid", "partially_refunded"}
    /\ db.status # "refunded"
    /\ CompletedTotal(db) < Total
    /\ db' = [db EXCEPT !.ret[r].status = "requested", !.status = "refund_requested"]
    /\ UNCHANGED <<prov, appr, hooks, job>>

(***************************************************************************)
(* The first transaction of an approval fixes what the return consists of, *)
(* or finds it fixed, and reserves it.                                     *)
(***************************************************************************)
Approve(a, r, c) ==
    /\ appr[a].pc = "idle"
    /\ db.ret[r].status \notin Final \cup {"none"}
    /\ db.pay \in Approvable
    /\ c.amount <= Total - CompletedBesides(db, r)
    /\ Allocates(db, r, c)
    /\ db' = SetOrder([db EXCEPT !.ret[r] = [status |-> "processing",
                                             amount |-> c.amount, item |-> c.item,
                                             units |-> c.units, bound |-> @.bound]],
                      "refund_requested", "refund_processing")
    /\ appr' = [appr EXCEPT ![a] = [pc |-> "call", ret |-> r, seen |-> "none"]]
    /\ UNCHANGED <<prov, hooks, job>>

(***************************************************************************)
(* A bound return's refund is fetched, another's is created: the provider  *)
(* answers a repeated creation with the refund it has.  The answer may be  *)
(* unusable, or lost after or before the provider acted.                   *)
(***************************************************************************)
Posted(r) ==
    {[prov EXCEPT ![r] = s] :
        s \in IF prov[r] = "none" THEN ProviderStatus ELSE {prov[r]}}

Answered(a, pc, seen) == appr' = [appr EXCEPT ![a].pc = pc, ![a].seen = seen]

CallProvider(a) ==
    /\ appr[a].pc = "call"
    /\ \/ /\ prov' \in Posted(appr[a].ret)
          /\ \/ Answered(a, "apply", prov'[appr[a].ret])
             \/ Answered(a, "review", "bad")
             \/ Answered(a, "retry", "none")
       \/ UNCHANGED prov /\ Answered(a, "retry", "none")
    /\ UNCHANGED <<db, hooks, job>>

Done(a) == appr' = [appr EXCEPT ![a] = IdleApproval]

MarkRetryRequired(a) ==
    /\ appr[a].pc = "retry"
    /\ db' = MarkRetry(db, appr[a].ret)
    /\ Done(a)
    /\ UNCHANGED <<prov, hooks, job>>

\* Variant: an unusable answer demotes a success.
MarkReviewAnyway(a) ==
    /\ appr[a].pc = "review"
    /\ db' = Review(db, appr[a].ret)
    /\ Done(a)
    /\ UNCHANGED <<prov, hooks, job>>

\* The unusable answer may carry the refund's id or not.
MarkReviewRequired(a) ==
    LET r == appr[a].ret
    IN  /\ appr[a].pc = "review"
        /\ \E named \in BOOLEAN :
              db' = IF db.ret[r].status \in Final THEN db
                    ELSE Review([db EXCEPT !.ret[r].bound = @ \/ named], r)
        /\ Done(a)
        /\ UNCHANGED <<prov, hooks, job>>

\* Where applying raises, the transaction is rolled back, its binding included.
FinalizeApproval(a) ==
    LET r == appr[a].ret
    IN  /\ appr[a].pc = "apply"
        /\ db' = IF db.ret[r].status \in Final \/ ApplyRaises(db, r, appr[a].seen)
                 THEN db
                 ELSE Apply([db EXCEPT !.ret[r].bound = TRUE], r, appr[a].seen)
        /\ Done(a)
        /\ UNCHANGED <<prov, hooks, job>>

\* The request fails, or its process stops, between two of its transactions.
ApprovalStops(a) ==
    /\ appr[a].pc # "idle"
    /\ Done(a)
    /\ UNCHANGED <<db, prov, hooks, job>>

-----------------------------------------------------------------------------
(***************************************************************************)
(* The webhook.  Only refund.succeeded is handled; the provider sends it   *)
(* once the refund succeeded, any number of times and with any delay.      *)
(***************************************************************************)
HookFetch(r) ==
    /\ prov[r] = "succeeded"
    /\ Cardinality(hooks) < MaxHooks
    /\ hooks' = hooks \cup {[ret |-> r, pc |-> "apply"]}
    /\ UNCHANGED <<db, prov, appr, job>>

\* A refused success is rolled back; its review is another transaction.
HookApply(h) ==
    /\ h.pc = "apply"
    /\ db.ret[h.ret].bound
    /\ IF ApplyRaises(db, h.ret, "succeeded")
       THEN hooks' = (hooks \ {h}) \cup {[h EXCEPT !.pc = "review"]} /\ UNCHANGED db
       ELSE hooks' = hooks \ {h} /\ db' = Apply(db, h.ret, "succeeded")
    /\ UNCHANGED <<prov, appr, job>>

HookReview(h) ==
    /\ h.pc = "review"
    /\ db' = MarkReview(db, h.ret)
    /\ hooks' = hooks \ {h}
    /\ UNCHANGED <<prov, appr, job>>

\* The refund is not bound to a return, the answer is unusable, or a crash.
HookFails(h) ==
    /\ hooks' = hooks \ {h}
    /\ UNCHANGED <<db, prov, appr, job>>

-----------------------------------------------------------------------------
(***************************************************************************)
(* The reconciliation job.  It lists its candidates once, then takes a     *)
(* snapshot of each, asks the provider and locks the rows again.           *)
(***************************************************************************)
Candidates == {r \in Returns : db.ret[r].status \in JobPending /\ db.ret[r].bound}

JobStart ==
    /\ job.pc = "idle" /\ job.todo = {}
    /\ Candidates # {}
    /\ job' = IdleJob(Candidates)
    /\ UNCHANGED <<db, prov, appr, hooks>>

JobFetch(r) ==
    /\ job.pc = "idle" /\ r \in job.todo
    /\ db.ret[r].status \notin JobFinal
    /\ \E seen \in {prov[r], "bad"} :
          job' = [todo |-> job.todo \ {r}, pc |-> "apply", ret |-> r, seen |-> seen]
    /\ UNCHANGED <<db, prov, appr, hooks>>

\* Final by now, or the provider cannot be asked or gives no status.
JobSkips(r) ==
    /\ job.pc = "idle" /\ r \in job.todo
    /\ job' = IdleJob(job.todo \ {r})
    /\ UNCHANGED <<db, prov, appr, hooks>>

(***************************************************************************)
(* A wrong amount is put in review at once, a wrong currency and a refused *)
(* success in a transaction of their own.                                  *)
(***************************************************************************)
JobApply(r) ==
    /\ job.pc = "apply" /\ job.ret = r
    /\ \/ /\ db.ret[r].status \in JobFinal
          /\ job' = IdleJob(job.todo)
          /\ UNCHANGED db
       \/ /\ db.ret[r].status \notin JobFinal
          /\ job.seen = "bad"
          /\ db' = Review(db, r)
          /\ job' = IdleJob(job.todo)
       \/ /\ db.ret[r].status \notin JobFinal
          /\ job.seen = "bad" \/ ApplyRaises(db, r, job.seen)
          /\ job' = [job EXCEPT !.pc = "review"]
          /\ UNCHANGED db
       \/ /\ db.ret[r].status \notin JobFinal
          /\ job.seen # "bad" /\ ~ApplyRaises(db, r, job.seen)
          /\ db' = Apply(db, r, job.seen)
          /\ job' = IdleJob(job.todo)
    /\ UNCHANGED <<prov, appr, hooks>>

JobReview(r) ==
    /\ job.pc = "review" /\ job.ret = r
    /\ db' = MarkReview(db, r)
    /\ job' = IdleJob(job.todo)
    /\ UNCHANGED <<prov, appr, hooks>>

\* The scheduler stops in the middle of a run.
JobStops ==
    /\ job # IdleJob({})
    /\ job' = IdleJob({})
    /\ UNCHANGED <<db, prov, appr, hooks>>

-----------------------------------------------------------------------------
ProviderConcludes(r) ==
    /\ prov[r] = "pending"
    /\ \E s \in {"succeeded", "canceled"} : prov' = [prov EXCEPT ![r] = s]
    /\ UNCHANGED <<db, appr, hooks, job>>

Next ==
    \/ \E r \in Returns : CreateReturn(r) \/ ProviderConcludes(r) \/ HookFetch(r)
    \/ \E a \in Approvers, r \in Returns, c \in Compositions : Approve(a, r, c)
    \/ \E a \in Approvers : \/ CallProvider(a) \/ MarkRetryRequired(a)
                            \/ MarkReviewRequired(a) \/ FinalizeApproval(a)
                            \/ ApprovalStops(a)
    \/ \E h \in hooks : HookApply(h) \/ HookReview(h) \/ HookFails(h)
    \/ \E r \in Returns : JobFetch(r) \/ JobSkips(r) \/ JobApply(r) \/ JobReview(r)
    \/ JobStart \/ JobStops

Spec == Init /\ [][Next]_vars

(***************************************************************************)
(* The scheduler starts the job again and again, and a run goes on to its  *)
(* end unless it is stopped; it is not stopped, and the provider does not  *)
(* fail it, every time at the same place.  The provider concludes every    *)
(* refund.  Nothing is assumed of customers, administrators and webhooks.  *)
(***************************************************************************)
Fairness ==
    /\ WF_vars(JobStart)
    /\ \A r \in Returns : /\ WF_vars(ProviderConcludes(r))
                          /\ WF_vars(JobSkips(r))
                          /\ SF_vars(JobFetch(r))
                          /\ SF_vars(JobApply(r))
                          /\ SF_vars(JobReview(r))

FairSpec == Spec /\ Fairness

-----------------------------------------------------------------------------
(***************************************************************************)
(* Properties.                                                             *)
(***************************************************************************)

(***************************************************************************)
(* The money the provider has sent back or may still send back never       *)
(* exceeds what the customer paid, whatever was approved, retried or       *)
(* answered late (approve_return, ensure_refund_allocation).               *)
(***************************************************************************)
MoneyWithinTotal ==
    SumFunctionOnSet([r \in Returns |->
                         IF prov[r] \in {"pending", "succeeded"}
                         THEN db.ret[r].amount ELSE 0], Returns) <= Total

(***************************************************************************)
(* Units are paid back without rounding drift, in whatever order returns   *)
(* take them, fail, are retried and release them: never more units than    *)
(* were sold, and when all of them are paid back, exactly the line's cents *)
(* (allocate_quantity_cents, _validate_specs).                             *)
(***************************************************************************)
UnitsPaidExactly ==
    LET final(part) == SumFunctionOnSet([r \in Returns |->
                           IF db.ret[r].status \in Final
                           THEN db.ret[r][part] ELSE 0], Returns)
    IN  /\ final("units") <= Quantity
        /\ final("units") = Quantity => final("item") = Total

(***************************************************************************)
(* A return is recorded as refunded only if the provider refunded it, and  *)
(* as failed only if the provider canceled it, although every answer may   *)
(* be stale when apply_provider_refund_status records it.                  *)
(***************************************************************************)
OutcomeIsReal ==
    \A r \in Returns :
        /\ db.ret[r].status \in Final => prov[r] = "succeeded" /\ db.ret[r].bound
        /\ db.ret[r].status = "failed" => prov[r] = "canceled" /\ db.ret[r].bound

(***************************************************************************)
(* The order's payment status agrees with the refunds that completed:      *)
(* refunded says everything was paid back, partially_refunded says         *)
(* something was, paid says nothing was.  An order that was paid back      *)
(* entirely says so, unless an answer about a refund the provider canceled *)
(* came late (apply_provider_refund_status looks at the return's own       *)
(* outcome only when that is a success): nothing else demotes it.  The     *)
(* loyalty effects of a full refund were applied once if everything was    *)
(* paid back, else never.                                                  *)
(***************************************************************************)
OrderMatchesRefunds ==
    /\ db.pay = "refunded" => CompletedTotal(db) = Total
    /\ CompletedTotal(db) = Total =>
          db.pay = "refunded" \/ \E r \in Returns : prov[r] = "canceled"
    /\ db.pay = "partially_refunded" => CompletedTotal(db) > 0
    /\ db.pay = "paid" => CompletedTotal(db) = 0
    /\ db.restored = IF CompletedTotal(db) = Total THEN 1 ELSE 0

(***************************************************************************)
(* While the order says a refund is under way, one of its returns is: an   *)
(* outcome of the last one always takes the order out of that state.       *)
(***************************************************************************)
UnderWayHasReturn ==
    db.pay \in UnderWay => \E r \in Returns : db.ret[r].status \in InFlight

(***************************************************************************)
(* The order's status never bars an administrator from approving an        *)
(* unfinished refund again (approve_return): the order is not closed as    *)
(* refunded over the head of one.  For a return the job does not look at   *)
(* (no refund id, or in review) there is no other way out.                 *)
(***************************************************************************)
UnfinishedCanBeRetried ==
    \A r \in Returns : db.ret[r].status \in InFlight => db.pay \in Approvable

(***************************************************************************)
(* The refunds implement the ledger: each return is paid back once, for    *)
(* good, and within the total.                                             *)
(***************************************************************************)
Ledger == INSTANCE RefundLedger WITH refunded <- Amounts(db, Final)
ImplementsLedger == Ledger!Spec

(***************************************************************************)
(* A refund the job can look at (it carries its provider id and is not in  *)
(* review) reaches an outcome, or an operator's review, without anybody's  *)
(* help (reconcile_pending_refunds).                                       *)
(***************************************************************************)
BoundRefundEnds ==
    \A r \in Returns :
        (db.ret[r].bound /\ db.ret[r].status \in JobPending)
            ~> db.ret[r].status \in JobFinal \cup {"refund_review_required"}

=============================================================================
