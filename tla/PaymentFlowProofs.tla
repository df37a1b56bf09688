------------------------- MODULE PaymentFlowProofs -------------------------
(***************************************************************************)
(* Proofs about PaymentFlow for every number of attempts, requests and     *)
(* handlers.                                                               *)
(***************************************************************************)
EXTENDS PaymentFlow, TLAPS

-----------------------------------------------------------------------------
(***************************************************************************)
(* The inductive invariant.  What one order's rows satisfy on their own    *)
(* and against the provider's payments pv is a predicate of both, so that  *)
(* each domain function can be shown to preserve it.                       *)
(***************************************************************************)

\* The two status columns move together.
StatusPair(d) ==
    /\ d.status \in {"created", "payment_created"}
          <=> d.pay \in {"pending", "payment_created"}
    /\ d.status = "cancelled" <=> d.pay = "cancelled"
    /\ d.status = "paid" <=> d.pay = "paid"
    /\ d.status = "payment_review_required" <=> d.pay \in ReviewPayment

\* The ledger, as far as the status determines it.
Ledger(d) ==
    /\ "reserve" \in d.moves
    /\ d.status \in {"created", "payment_created"} => d.moves = {"reserve"}
    /\ d.status = "cancelled" => d.moves = {"reserve", "release"}
    /\ d.status = "paid" => "commit" \in d.moves

\* Attempts are numbered without gaps and only the newest may be open.
AttemptOrder(d) ==
    /\ \A n \in Attempts : d.att[n] = "none" <=> n > d.last
    /\ \A n \in Attempts : d.att[n] \in OpenAttempt => n = d.last
    /\ \A n \in Attempts : d.att[n] = "completed" => d.pid[n] \in Attempts
    /\ \A n \in d.leased : d.att[n] = "creating"

\* A row that says a payment is final is right.
RowSound(d, pv) == \A n \in Attempts : d.row[n] \in Final => pv[n] = d.row[n]

Taken(pv) == \E n \in Attempts : pv[n] = "succeeded"

\* Sold stock is paid for, or a refused settlement awaits an operator.
Sold(d, pv) ==
    "commit" \in d.moves =>
        \/ d.pay \in Settled
        \/ /\ Refusals
           /\ d.pay = "payment_review_required"
           /\ \E p \in d.cases : pv[p] = "succeeded"

DInv(d, pv) ==
    /\ d \in Database
    /\ StatusPair(d)
    /\ Ledger(d)
    /\ Sold(d, pv)
    /\ AttemptOrder(d)
    /\ RowSound(d, pv)
    /\ d.pay \in Settled => Taken(pv)
    /\ d.pay \in ReviewPayment => d.cases # {}

\* A transaction that takes d to e does not unsettle the order.
KeepsSettled(d, e) == d.pay \in Settled => e.pay \in Settled

\* Nor does it lose an attempt.
KeepsAttempts(d, e) == \A n \in Attempts : d.att[n] # "none" => e.att[n] # "none"

-----------------------------------------------------------------------------
(***************************************************************************)
(* The domain functions preserve it.                                       *)
(***************************************************************************)

\* settle_paid_order, given that the provider took the money.
LEMMA SettleOK ==
    ASSUME NEW d, NEW pv, DInv(d, pv), ~SettleRaises(d), Taken(pv)
    PROVE  /\ DInv(Settle(d), pv) /\ Settle(d).pay \in Settled
           /\ KeepsAttempts(d, Settle(d))
<1>1. CASE d.pay \in Settled
    BY <1>1 DEF Settle, KeepsAttempts
<1>2. CASE d.pay \notin Settled
    <2> DEFINE e == [d EXCEPT !.moves = @ \cup {"commit"}, !.status = "paid", !.pay = "paid"]
    <2>1. Settle(d) = e
        BY <1>2 DEF Settle
    <2>2. e \in Database
        BY DEF DInv, Database, OrderStatus, OrderPayment, Settled, MovementKinds
    <2>3. /\ e.status = "paid" /\ e.pay = "paid" /\ e.moves = d.moves \cup {"commit"}
          /\ e.att = d.att /\ e.pid = d.pid /\ e.last = d.last /\ e.leased = d.leased
          /\ e.row = d.row /\ e.cases = d.cases
        BY DEF DInv, Database
    <2>4. StatusPair(e) /\ Ledger(e)
        BY <2>3 DEF DInv, StatusPair, Ledger, Settled, ReviewPayment
    <2>5. AttemptOrder(e) /\ RowSound(e, pv) /\ Sold(e, pv)
        BY <2>3 DEF DInv, AttemptOrder, RowSound, Sold, Settled
    <2> QED
        BY <2>1, <2>2, <2>3, <2>4, <2>5 DEF DInv, Settled, ReviewPayment, KeepsAttempts
<1> QED
    BY <1>1, <1>2

\* cancel_order_before_settlement, by whichever source it is allowed.
LEMMA CancelOK ==
    ASSUME NEW d, NEW pv, NEW source \in {"manual", "provider"},
           DInv(d, pv), ~CancelRaises(d, source)
    PROVE  /\ DInv(Cancel(d), pv) /\ KeepsSettled(d, Cancel(d))
           /\ KeepsAttempts(d, Cancel(d))
<1>1. CASE d.status = "cancelled"
    BY <1>1 DEF Cancel, KeepsSettled, KeepsAttempts
<1>2. CASE d.status # "cancelled"
    <2> DEFINE e == [d EXCEPT !.moves = @ \cup {"release"},
                              !.status = "cancelled", !.pay = "cancelled"]
    <2>1. Cancel(d) = e
        BY <1>2 DEF Cancel
    <2>2. d.status \in {"created", "payment_created"}
        BY <1>2 DEF CancelRaises, AwaitingPayment, Cancelled, DInv, StatusPair,
                    Database, OrderStatus
    <2>3. e \in Database
        BY DEF DInv, Database, OrderStatus, OrderPayment, Settled, MovementKinds
    <2>4. /\ e.status = "cancelled" /\ e.pay = "cancelled"
          /\ e.moves = d.moves \cup {"release"}
          /\ e.att = d.att /\ e.pid = d.pid /\ e.last = d.last /\ e.leased = d.leased
          /\ e.row = d.row /\ e.cases = d.cases
        BY DEF DInv, Database
    <2>5. StatusPair(e) /\ Ledger(e)
        BY <2>2, <2>4 DEF DInv, StatusPair, Ledger, Settled, ReviewPayment
    <2>6. AttemptOrder(e) /\ RowSound(e, pv) /\ Sold(e, pv)
        BY <2>2, <2>4 DEF DInv, AttemptOrder, RowSound, Sold, Ledger
    <2>7. d.pay \notin Settled
        BY <2>2 DEF DInv, StatusPair, Settled
    <2> QED
        BY <2>1, <2>3, <2>4, <2>5, <2>6, <2>7
        DEF DInv, KeepsSettled, KeepsAttempts, Settled, ReviewPayment
<1> QED
    BY <1>1, <1>2

\* A review is safe if it is not an unpaid one of a settled order, or if the
\* case it opens is for money the provider took.
LEMMA ToReviewSafe ==
    ASSUME NEW d, NEW pv, NEW paid \in BOOLEAN, NEW p \in Attempts, DInv(d, pv),
           d.pay \in Settled => paid \/ (Refusals /\ pv[p] = "succeeded"),
           paid => Taken(pv)
    PROVE  /\ DInv(ToReview(d, paid, p), pv) /\ KeepsAttempts(d, ToReview(d, paid, p))
           /\ ToReview(d, paid, p).pay \in ReviewPayment
           /\ p \in ToReview(d, paid, p).cases
           /\ paid => ToReview(d, paid, p).pay \in Settled
<1> DEFINE e == ToReview(d, paid, p)
<1>1. e \in Database
    BY DEF ToReview, DInv, Database, OrderStatus, OrderPayment, Settled, ReviewPayment
<1>2. /\ e.status = "payment_review_required"
      /\ e.pay = IF paid THEN "paid_review_required" ELSE "payment_review_required"
      /\ e.cases = d.cases \cup {p} /\ e.moves = d.moves
      /\ e.att = d.att /\ e.pid = d.pid /\ e.last = d.last /\ e.leased = d.leased
      /\ e.row = d.row
    BY DEF ToReview, DInv, Database
<1>3. StatusPair(e) /\ Ledger(e)
    BY <1>2 DEF DInv, StatusPair, Ledger, Settled, ReviewPayment
<1>4. AttemptOrder(e) /\ RowSound(e, pv)
    BY <1>2 DEF DInv, AttemptOrder, RowSound
<1>5. Sold(e, pv)
    BY <1>2 DEF DInv, Sold, Settled
<1> QED
    BY <1>1, <1>2, <1>3, <1>4, <1>5 DEF DInv, KeepsAttempts, Settled, ReviewPayment

\* A review of money that was taken leaves a settled order settled.
LEMMA ToReviewOK ==
    ASSUME NEW d, NEW pv, NEW paid \in BOOLEAN, NEW p \in Attempts, DInv(d, pv),
           d.pay \in Settled => paid, paid => Taken(pv)
    PROVE  /\ DInv(ToReview(d, paid, p), pv) /\ KeepsSettled(d, ToReview(d, paid, p))
           /\ KeepsAttempts(d, ToReview(d, paid, p))
BY ToReviewSafe DEF KeepsSettled

\* Every attempt number is a payment id, and so is the absence of a payment.
LEMMA AttemptsArePayments == Attempts \subseteq PaymentIds /\ NoPayment \in PaymentIds
BY MaxAttemptsAssumption DEF Attempts, PaymentIds, NoPayment

\* What the attempt functions leave alone.
SameOrder(d, e) ==
    /\ e.status = d.status /\ e.pay = d.pay /\ e.moves = d.moves
    /\ e.row = d.row /\ e.cases = d.cases /\ e.latest = d.latest

\* An open attempt may be closed with any outcome.
LEMMA CloseAttemptOK ==
    ASSUME NEW d, NEW pv, NEW n \in Attempts, NEW p \in Attempts,
           NEW s \in {"completed", "abandoned", "review_required"},
           DInv(d, pv), d.att[n] \in OpenAttempt
    PROVE  /\ DInv(CloseAttempt(d, n, s, p), pv)
           /\ SameOrder(d, CloseAttempt(d, n, s, p))
           /\ KeepsAttempts(d, CloseAttempt(d, n, s, p))
<1> DEFINE e == CloseAttempt(d, n, s, p)
<1>1. e \in Database
    <2>1. s \in AttemptStatus /\ p \in PaymentIds
        BY AttemptsArePayments DEF AttemptStatus, OpenAttempt
    <2> QED
        BY <2>1 DEF CloseAttempt, DInv, Database
<1>2. /\ SameOrder(d, e) /\ e.last = d.last /\ e.leased = d.leased \ {n}
      /\ e.att = [d.att EXCEPT ![n] = s] /\ e.pid = [d.pid EXCEPT ![n] = p]
    BY DEF CloseAttempt, DInv, Database, SameOrder
<1>3. d.att \in [Attempts -> AttemptStatus] /\ d.pid \in [Attempts -> PaymentIds]
    BY DEF DInv, Database
<1>4. StatusPair(e) /\ Ledger(e) /\ Sold(e, pv) /\ RowSound(e, pv)
    BY <1>2 DEF DInv, StatusPair, Ledger, Sold, RowSound, SameOrder
<1>5. AttemptOrder(e)
    BY <1>2, <1>3 DEF DInv, AttemptOrder, OpenAttempt, Retryable
<1>6. KeepsAttempts(d, e)
    BY <1>2, <1>3 DEF KeepsAttempts
<1> QED
    BY <1>1, <1>2, <1>4, <1>5, <1>6 DEF DInv, SameOrder

\* When an attempt is open, the newest open one exists and is one of them.
LEMMA NewestOpenIs ==
    ASSUME NEW d, NEW pv, DInv(d, pv), NEW n \in Attempts, d.att[n] \in OpenAttempt
    PROVE  NewestOpen(d) = n
<1>1. \A m \in Attempts : d.att[m] \in OpenAttempt => m = n
    BY DEF DInv, AttemptOrder
<1>2. \A m \in Attempts : d.att[m] \in OpenAttempt => m <= n
    BY <1>1 DEF Attempts
<1> QED
    BY <1>1, <1>2 DEF NewestOpen

\* complete_payment_creation_from_provider.
LEMMA CompleteOK ==
    ASSUME NEW d, NEW pv, NEW p \in Attempts, DInv(d, pv)
    PROVE  /\ DInv(CompleteFromProvider(d, p), pv)
           /\ SameOrder(d, CompleteFromProvider(d, p))
           /\ KeepsAttempts(d, CompleteFromProvider(d, p))
<1>1. CASE \A n \in Attempts : d.att[n] \notin OpenAttempt
    BY <1>1 DEF CompleteFromProvider, SameOrder, KeepsAttempts
<1>2. CASE \E n \in Attempts : d.att[n] \in OpenAttempt
    <2>1. PICK n \in Attempts : d.att[n] \in OpenAttempt
        BY <1>2
    <2>2. NewestOpen(d) = n
        BY <2>1, NewestOpenIs
    <2>3. /\ DInv(CloseAttempt(d, n, "completed", p), pv)
          /\ SameOrder(d, CloseAttempt(d, n, "completed", p))
          /\ KeepsAttempts(d, CloseAttempt(d, n, "completed", p))
        BY <2>1, CloseAttemptOK
    <2>4. CompleteFromProvider(d, p) \in {d, CloseAttempt(d, n, "completed", p)}
        BY <2>1, <2>2 DEF CompleteFromProvider
    <2> QED
        BY <2>3, <2>4 DEF SameOrder, KeepsAttempts
<1> QED
    BY <1>1, <1>2

\* mark_payment_creation_retry_required.
LEMMA MarkRetryOK ==
    ASSUME NEW d, NEW pv, NEW n \in Attempts, DInv(d, pv), d.att[n] # "none"
    PROVE  /\ DInv(MarkRetry(d, n), pv) /\ SameOrder(d, MarkRetry(d, n))
           /\ KeepsAttempts(d, MarkRetry(d, n))
<1>1. CASE d.att[n] \in {"completed", "abandoned", "review_required"}
    BY <1>1 DEF MarkRetry, SameOrder, KeepsAttempts
<1>2. CASE d.att[n] \notin {"completed", "abandoned", "review_required"}
    <2> DEFINE e == [d EXCEPT !.att[n] = "retry_required", !.leased = @ \ {n}]
    <2>1. MarkRetry(d, n) = e
        BY <1>2 DEF MarkRetry
    <2>2. e \in Database
        BY DEF DInv, Database, AttemptStatus, OpenAttempt, Retryable
    <2>3. /\ SameOrder(d, e) /\ e.last = d.last /\ e.leased = d.leased \ {n}
          /\ e.att = [d.att EXCEPT ![n] = "retry_required"] /\ e.pid = d.pid
        BY DEF DInv, Database, SameOrder
    <2>4. d.att \in [Attempts -> AttemptStatus] /\ d.att[n] \in OpenAttempt
        BY <1>2 DEF DInv, Database, AttemptStatus
    <2>5. StatusPair(e) /\ Ledger(e) /\ Sold(e, pv) /\ RowSound(e, pv)
        BY <2>3 DEF DInv, StatusPair, Ledger, Sold, RowSound, SameOrder
    <2>6. AttemptOrder(e)
        BY <2>3, <2>4 DEF DInv, AttemptOrder, OpenAttempt, Retryable
    <2>7. KeepsAttempts(d, e)
        BY <2>3, <2>4 DEF KeepsAttempts
    <2> QED
        BY <2>1, <2>2, <2>3, <2>5, <2>6, <2>7 DEF DInv, SameOrder
<1> QED
    BY <1>1, <1>2

\* mark_payment_creation_review_required.
LEMMA MarkReviewOK ==
    ASSUME NEW d, NEW pv, NEW n \in Attempts, DInv(d, pv), d.att[n] # "none"
    PROVE  /\ DInv(MarkReview(d, n), pv) /\ SameOrder(d, MarkReview(d, n))
           /\ KeepsAttempts(d, MarkReview(d, n))
<1>1. CASE d.att[n] \in {"completed", "abandoned"}
    BY <1>1 DEF MarkReview, SameOrder, KeepsAttempts
<1>2. CASE d.att[n] \notin {"completed", "abandoned"}
    <2>1. d.att[n] \in OpenAttempt
        BY <1>2 DEF DInv, Database, AttemptStatus
    <2> QED
        BY <1>2, <2>1, CloseAttemptOK DEF MarkReview
<1> QED
    BY <1>1, <1>2

\* A row takes what a request, a handler or the job observed.
LEMMA SetRowOK ==
    ASSUME NEW d, NEW pv, NEW p \in Attempts, NEW s \in ProviderStatus, DInv(d, pv),
           s \in Final => pv[p] = s
    PROVE  /\ DInv([d EXCEPT !.row[p] = s], pv)
           /\ [d EXCEPT !.row[p] = s].pay = d.pay
           /\ [d EXCEPT !.row[p] = s].status = d.status
           /\ [d EXCEPT !.row[p] = s].att = d.att
           /\ [d EXCEPT !.row[p] = s].cases = d.cases
           /\ [d EXCEPT !.row[p] = s].moves = d.moves
<1> DEFINE e == [d EXCEPT !.row[p] = s]
<1>1. e \in Database
    BY DEF DInv, Database
<1>2. /\ e.status = d.status /\ e.pay = d.pay /\ e.moves = d.moves /\ e.cases = d.cases
      /\ e.att = d.att /\ e.pid = d.pid /\ e.last = d.last /\ e.leased = d.leased
      /\ e.row = [d.row EXCEPT ![p] = s]
    BY DEF DInv, Database
<1>3. d.row \in [Attempts -> ProviderStatus \cup {"none"}]
    BY DEF DInv, Database
<1>4. StatusPair(e) /\ Ledger(e) /\ Sold(e, pv) /\ AttemptOrder(e)
    BY <1>2 DEF DInv, StatusPair, Ledger, Sold, AttemptOrder
<1>5. RowSound(e, pv)
    BY <1>2, <1>3 DEF DInv, RowSound
<1> QED
    BY <1>1, <1>2, <1>4, <1>5 DEF DInv

\* A Payment row the webhook or finalize adds keeps the database sound.
LEMMA RecordPaymentOK ==
    ASSUME NEW d, NEW pv, NEW p \in Attempts, NEW s \in ProviderStatus, DInv(d, pv),
           s \in Final => pv[p] = s
    PROVE  /\ DInv(RecordPayment(d, p, s), pv)
           /\ RecordPayment(d, p, s).pay = d.pay
           /\ RecordPayment(d, p, s).status = d.status
           /\ RecordPayment(d, p, s).att = d.att
           /\ RecordPayment(d, p, s).cases = d.cases
           /\ RecordPayment(d, p, s).moves = d.moves
<1> DEFINE e == RecordPayment(d, p, s)
<1>1. e \in Database
    BY AttemptsArePayments DEF RecordPayment, DInv, Database
<1>2. /\ e.status = d.status /\ e.pay = d.pay /\ e.moves = d.moves /\ e.cases = d.cases
      /\ e.att = d.att /\ e.pid = d.pid /\ e.last = d.last /\ e.leased = d.leased
      /\ e.row = [d.row EXCEPT ![p] = s]
    BY DEF RecordPayment, DInv, Database
<1>3. d.row \in [Attempts -> ProviderStatus \cup {"none"}]
    BY DEF DInv, Database
<1>4. StatusPair(e) /\ Ledger(e) /\ Sold(e, pv) /\ AttemptOrder(e)
    BY <1>2 DEF DInv, StatusPair, Ledger, Sold, AttemptOrder
<1>5. RowSound(e, pv)
    BY <1>2, <1>3 DEF DInv, RowSound
<1> QED
    BY <1>1, <1>2, <1>4, <1>5 DEF DInv

\* begin_payment_creation claims the newest attempt or the one after it.
LEMMA ClaimOK ==
    ASSUME NEW d, NEW pv, DInv(d, pv), ~BeginRaises(d), ReusablePayment(d) = NoPayment,
           ClaimedAttempt(d) \in Attempts
    PROVE  /\ DInv(Claim(d), pv) /\ SameOrder(d, Claim(d))
           /\ KeepsAttempts(d, Claim(d))
           /\ Claim(d).att[ClaimedAttempt(d)] # "none"
<1> DEFINE n == ClaimedAttempt(d)
           e == Claim(d)
<1>1. d \in Database
    BY DEF DInv
<1>2. e \in Database
    BY <1>1, AttemptsArePayments
    DEF Claim, Database, AttemptStatus, OpenAttempt, Retryable
<1>3. /\ SameOrder(d, e) /\ e.last = n /\ e.leased = d.leased \cup {n}
      /\ e.att = [d.att EXCEPT ![n] = "creating"] /\ e.pid = d.pid
    BY <1>1 DEF Claim, Database, SameOrder
<1>4. d.att \in [Attempts -> AttemptStatus] /\ d.last \in 0..MaxAttempts
    BY <1>1 DEF Database, PaymentIds
<1>5. StatusPair(e) /\ Ledger(e) /\ Sold(e, pv) /\ RowSound(e, pv)
    BY <1>3 DEF DInv, StatusPair, Ledger, Sold, RowSound, SameOrder
<1>6. d.last # 0 => d.last \in Attempts
    BY <1>4 DEF Attempts
<1>7. d.last # 0 /\ d.att[d.last] \notin Retryable => d.att[d.last] \notin OpenAttempt
    BY <1>6 DEF BeginRaises, OpenAttempt
<1>8. \A m \in Attempts : d.att[m] \in OpenAttempt => m = n
    BY <1>6, <1>7 DEF DInv, AttemptOrder, ClaimedAttempt, Attempts
<1>9. \A m \in Attempts : e.att[m] = "none" <=> m > n
    <2>1. CASE n = d.last
        BY <1>3, <1>4, <2>1, MaxAttemptsAssumption DEF DInv, AttemptOrder, Attempts
    <2>2. CASE n = d.last + 1
        BY <1>3, <1>4, <2>2, MaxAttemptsAssumption DEF DInv, AttemptOrder, Attempts
    <2> QED
        BY <2>1, <2>2 DEF ClaimedAttempt
<1>10. AttemptOrder(e)
    <2>1. \A m \in Attempts : e.att[m] \in OpenAttempt => m = n
        BY <1>3, <1>4, <1>8
    <2>2. \A m \in Attempts : e.att[m] = "completed" => e.pid[m] \in Attempts
        BY <1>3, <1>4 DEF DInv, AttemptOrder
    <2>3. \A m \in e.leased : e.att[m] = "creating"
        BY <1>1, <1>3, <1>4 DEF DInv, AttemptOrder, Database
    <2> QED
        BY <1>3, <1>9, <2>1, <2>2, <2>3 DEF AttemptOrder
<1>11. KeepsAttempts(d, e)
    BY <1>3, <1>4 DEF KeepsAttempts
<1>12. e.att[n] # "none"
    BY <1>3, <1>4
<1> QED
    BY <1>2, <1>3, <1>5, <1>10, <1>11, <1>12 DEF DInv, SameOrder

\* A lease runs out.
LEMMA LeaseOK ==
    ASSUME NEW d, NEW pv, NEW n \in Attempts, DInv(d, pv)
    PROVE  /\ DInv([d EXCEPT !.leased = @ \ {n}], pv)
           /\ SameOrder(d, [d EXCEPT !.leased = @ \ {n}])
           /\ [d EXCEPT !.leased = @ \ {n}].att = d.att
<1> DEFINE e == [d EXCEPT !.leased = @ \ {n}]
<1>1. e \in Database
    BY DEF DInv, Database
<1>2. /\ SameOrder(d, e) /\ e.last = d.last /\ e.leased = d.leased \ {n}
      /\ e.att = d.att /\ e.pid = d.pid
    BY DEF DInv, Database, SameOrder
<1> QED
    BY <1>1, <1>2
    DEF DInv, StatusPair, Ledger, Sold, AttemptOrder, RowSound, SameOrder

\* The provider moves on; what it has finished stays.
LEMMA ProviderOK ==
    ASSUME NEW d, NEW pv, NEW pw, DInv(d, pv),
           \A n \in Attempts : pv[n] \in Final => pw[n] = pv[n]
    PROVE  DInv(d, pw)
<1>1. d.cases \subseteq Attempts
    BY DEF DInv, Database
<1> QED
    BY <1>1 DEF DInv, RowSound, Sold, Taken, Final

-----------------------------------------------------------------------------
(***************************************************************************)
(* What requests, handlers and the job carry from one step to the next.    *)
(***************************************************************************)
Claimed == {"post", "verify", "finalize", "review"}

RequestInv(r, d, pv) ==
    r.pc # "idle" =>
        /\ r.id \in Attempts
        /\ r.seen \in Final => pv[r.id] = r.seen
        /\ r.pc \in Claimed => d.att[r.id] # "none"
        /\ r.pc \in {"verify", "finalize", "review"} => r.seen \in ProviderStatus

HookInv(h, pv) == h.seen \in Final => pv[h.id] = h.seen

\* Only money taken is reviewed apart: for a cancelled order, or because its
\* settlement was refused.
JobInv(j, pv) ==
    j.pc # "idle" =>
        /\ j.id \in Attempts
        /\ j.seen \in Final => pv[j.id] = j.seen
        /\ j.pc = "persist" => j.seen = "succeeded" /\ (j.paid \/ Refusals)

Inv ==
    /\ TypeOK
    /\ DInv(db, prov)
    /\ \A c \in Clients : RequestInv(req[c], db, prov)
    /\ \A h \in hooks : HookInv(h, prov)
    /\ \A m \in sent : prov[m[1]] # "none"
    /\ JobInv(job, prov)

\* What the provider has finished stays finished.
KeepsFinal(pv, pw) ==
    \A n \in Attempts : /\ pv[n] \in Final => pw[n] = pv[n]
                        /\ pv[n] # "none" => pw[n] # "none"

(***************************************************************************)
(* The parts of a step that nobody else can disturb.                       *)
(***************************************************************************)
LEMMA FrameOK ==
    ASSUME Inv,
           DInv(db', prov'), KeepsAttempts(db, db'), KeepsFinal(prov, prov'),
           prov' \in [Attempts -> ProviderStatus \cup {"none"}],
           offered' \subseteq Attempts,
           sent' \subseteq Attempts \X Events,
           \A m \in sent' : prov'[m[1]] # "none",
           req' \in [Clients -> Request],
           \A c \in Clients : req'[c] = req[c] \/ RequestInv(req'[c], db', prov'),
           hooks' \subseteq Hook,
           \A h \in hooks' : h \in hooks \/ HookInv(h, prov'),
           job' \in Job,
           job' = job \/ JobInv(job', prov')
    PROVE  Inv'
<1>1. \A c \in Clients : RequestInv(req'[c], db', prov')
    BY DEF Inv, RequestInv, KeepsAttempts, KeepsFinal
<1>2. \A h \in hooks' : HookInv(h, prov')
    <2> SUFFICES ASSUME NEW h \in hooks', h \in hooks PROVE HookInv(h, prov')
        OBVIOUS
    <2>1. h.id \in Attempts
        BY DEF Hook
    <2> QED
        BY <2>1 DEF Inv, HookInv, KeepsFinal
<1>3. JobInv(job', prov')
    BY DEF Inv, JobInv, KeepsFinal
<1>4. TypeOK'
    BY <1>1, <1>3 DEF TypeOK, DInv, RequestInv, JobInv
<1> QED
    BY <1>1, <1>2, <1>3, <1>4 DEF Inv

\* A checked-out order satisfies the invariant.
LEMMA InitOK == Init => Inv
<1> SUFFICES ASSUME Init PROVE Inv
    OBVIOUS
<1>1. db \in Database
    BY AttemptsArePayments
    DEF Init, Database, OrderStatus, OrderPayment, AttemptStatus, MovementKinds, NoPayment
<1>2. DInv(db, prov)
    BY <1>1 DEF Init, DInv, StatusPair, Ledger, Sold, AttemptOrder, RowSound, Settled,
                ReviewPayment, Final, OpenAttempt, Retryable, Attempts
<1>3. /\ IdleRequest \in Request /\ IdleRequest.pc = "idle"
      /\ IdleJob \in Job /\ IdleJob.pc = "idle"
    BY AttemptsArePayments
    DEF IdleRequest, Request, RequestSteps, Seen, IdleJob, Job
<1>4. TypeOK
    BY <1>1, <1>3 DEF Init, TypeOK
<1> QED
    BY <1>2, <1>3, <1>4 DEF Init, Inv, RequestInv, HookInv, JobInv

-----------------------------------------------------------------------------
(***************************************************************************)
(* Actions of a create_payment request.                                    *)
(***************************************************************************)

\* A step of one request, which changes the database at most soundly.
LEMMA RequestFrame ==
    ASSUME Inv, NEW c \in Clients, NEW r \in Request,
           req' = [req EXCEPT ![c] = r],
           DInv(db', prov), KeepsAttempts(db, db'), RequestInv(r, db', prov),
           offered' \subseteq Attempts,
           UNCHANGED <<prov, sent, hooks, job>>
    PROVE  Inv'
<1>1. req \in [Clients -> Request] /\ prov \in [Attempts -> ProviderStatus \cup {"none"}]
    BY DEF Inv, TypeOK
<1>2. KeepsFinal(prov, prov')
    BY DEF KeepsFinal
<1>3. \A k \in Clients : req'[k] = req[k] \/ RequestInv(req'[k], db', prov')
    BY <1>1
<1> QED
    BY <1>1, <1>2, <1>3, FrameOK DEF Inv, TypeOK

\* The same for a request that ends.
LEMMA DoneFrame ==
    ASSUME Inv, NEW c \in Clients, Done(c),
           DInv(db', prov), KeepsAttempts(db, db'),
           offered' \subseteq Attempts,
           UNCHANGED <<prov, sent, hooks, job>>
    PROVE  Inv'
<1>1. IdleRequest \in Request
    BY AttemptsArePayments DEF IdleRequest, Request, RequestSteps, Seen
<1>2. RequestInv(IdleRequest, db', prov)
    BY DEF RequestInv, IdleRequest
<1> QED
    BY <1>1, <1>2, RequestFrame DEF Done

\* A request between two of its steps.
LEMMA RequestIs ==
    ASSUME Inv, NEW c \in Clients
    PROVE  /\ req[c] \in Request /\ RequestInv(req[c], db, prov)
           /\ DInv(db, prov) /\ offered \subseteq Attempts
           /\ prov \in [Attempts -> ProviderStatus \cup {"none"}]
           /\ req[c].pc # "idle" => req[c].id \in Attempts
BY DEF Inv, TypeOK

\* begin_payment_creation finds a payment to reuse.
LEMMA BeginExistingOK ==
    ASSUME Inv, NEW c \in Clients, BeginExisting(c)
    PROVE  Inv' /\ KeepsSettled(db, db')
<1> DEFINE p == ReusablePayment(db)
           r == [pc |-> "fetch", id |-> p, seen |-> db.row[p]]
<1>1. /\ DInv(db, prov) /\ db \in Database /\ db' = db
    BY RequestIs DEF BeginExisting, DInv
<1>2. db.last # 0 => db.last \in Attempts
    BY <1>1 DEF Database, PaymentIds, Attempts
<1>3. p \in Attempts
    <2>1. db.latest \in PaymentIds
        BY <1>1 DEF Database
    <2>2. CASE db.latest # NoPayment /\ db.row[db.latest] \in Live
        BY <2>1, <2>2 DEF ReusablePayment, PaymentIds, Attempts, NoPayment
    <2>3. CASE ~(db.latest # NoPayment /\ db.row[db.latest] \in Live)
        BY <1>1, <1>2, <2>3 DEF BeginExisting, ReusablePayment, DInv, AttemptOrder
    <2> QED
        BY <2>2, <2>3
<1>4. db.row \in [Attempts -> Seen]
    BY <1>1 DEF Database, Seen
<1>5. r \in Request
    BY <1>3, <1>4, AttemptsArePayments DEF Request, RequestSteps
<1>6. RequestInv(r, db, prov)
    BY <1>1, <1>3 DEF RequestInv, Claimed, DInv, RowSound
<1> QED
    BY <1>1, <1>5, <1>6, RequestFrame, RequestIs
    DEF BeginExisting, Goto, KeepsAttempts, KeepsSettled

\* begin_payment_creation claims an attempt.
LEMMA BeginClaimOK ==
    ASSUME Inv, NEW c \in Clients, BeginClaim(c)
    PROVE  Inv' /\ KeepsSettled(db, db')
<1> DEFINE n == ClaimedAttempt(db)
           r == [pc |-> "post", id |-> n, seen |-> "none"]
<1>1. /\ DInv(Claim(db), prov) /\ SameOrder(db, Claim(db))
      /\ KeepsAttempts(db, Claim(db)) /\ Claim(db).att[n] # "none"
    BY ClaimOK, RequestIs DEF BeginClaim
<1>2. n \in Attempts
    BY DEF BeginClaim
<1>3. r \in Request
    BY <1>2, AttemptsArePayments DEF Request, RequestSteps, Seen
<1>4. RequestInv(r, Claim(db), prov)
    BY <1>1, <1>2 DEF RequestInv, Final
<1> QED
    BY <1>1, <1>3, <1>4, RequestFrame, RequestIs
    DEF BeginClaim, Goto, KeepsSettled, SameOrder

\* The provider is asked about the payment to reuse, or is down.
LEMMA FetchOK ==
    ASSUME Inv, NEW c \in Clients, FetchExisting(c) \/ FallbackToStored(c)
    PROVE  Inv' /\ KeepsSettled(db, db')
<1>1. req[c].id \in Attempts /\ db' = db
    BY RequestIs DEF FetchExisting, FallbackToStored
<1>2. DInv(db', prov) /\ KeepsAttempts(db, db') /\ KeepsSettled(db, db')
    BY <1>1, RequestIs DEF KeepsAttempts, KeepsSettled
<1>3. CASE FetchExisting(c)
    <2> DEFINE r == [pc |-> "apply", id |-> req[c].id, seen |-> prov[req[c].id]]
    <2>1. r \in Request
        BY <1>1, RequestIs, AttemptsArePayments DEF Request, RequestSteps, Seen
    <2>2. RequestInv(r, db', prov)
        BY <1>1 DEF RequestInv, Claimed
    <2> QED
        BY <1>2, <1>3, <2>1, <2>2, RequestFrame, RequestIs DEF FetchExisting, Goto
<1>4. CASE FallbackToStored(c)
    BY <1>1, <1>2, <1>4, DoneFrame, RequestIs DEF FallbackToStored
<1> QED
    BY <1>3, <1>4

\* _reconcile_existing_payment.
LEMMA ReconcileExistingOK ==
    ASSUME Inv, NEW c \in Clients, ReconcileExisting(c)
    PROVE  Inv' /\ KeepsSettled(db, db')
<1> DEFINE p == req[c].id
           s == req[c].seen
           d == [db EXCEPT !.row[p] = s]
<1>1. /\ p \in Attempts /\ s \in ProviderStatus
      /\ s \in Final => prov[p] = s
    BY RequestIs DEF ReconcileExisting, RequestInv, ProviderStatus, Live
<1>2. DInv(d, prov) /\ d.pay = db.pay /\ d.status = db.status /\ d.att = db.att
    BY <1>1, RequestIs, SetRowOK
<1>3. CASE s \in Active
    <2>1. db' = CompleteFromProvider(d, p) /\ Done(c) /\ offered' = offered \cup {p}
        BY <1>3 DEF ReconcileExisting, Active
    <2>2. /\ DInv(db', prov) /\ KeepsAttempts(d, db') /\ db'.pay = d.pay
        BY <1>1, <1>2, <2>1, CompleteOK DEF SameOrder
    <2>3. KeepsAttempts(db, db') /\ db'.pay = db.pay
        BY <1>2, <2>2 DEF KeepsAttempts
    <2> QED
        BY <1>1, <2>1, <2>2, <2>3, DoneFrame, RequestIs DEF ReconcileExisting, KeepsSettled
<1>4. CASE s = "succeeded"
    <2>1. Done(c) /\ offered' = offered
        BY <1>4 DEF ReconcileExisting, Active
    <2>2. CASE SettleRaises(d)
        <3>1. db' = db
            BY <1>4, <2>2 DEF ReconcileExisting, Active
        <3> QED
            BY <2>1, <3>1, DoneFrame, RequestIs
            DEF ReconcileExisting, KeepsSettled, KeepsAttempts
    <2>3. CASE ~SettleRaises(d)
        <3>1. db' = CompleteFromProvider(Settle(d), p)
            BY <1>4, <2>3 DEF ReconcileExisting, Active
        <3>2. Taken(prov)
            BY <1>1, <1>4 DEF Taken, Final
        <3>3. DInv(Settle(d), prov) /\ Settle(d).pay \in Settled /\ KeepsAttempts(d, Settle(d))
            BY <1>2, <2>3, <3>2, SettleOK
        <3>4. DInv(db', prov) /\ KeepsAttempts(Settle(d), db') /\ db'.pay = Settle(d).pay
            BY <1>1, <3>1, <3>3, CompleteOK DEF SameOrder
        <3>5. KeepsAttempts(db, db')
            BY <1>2, <3>3, <3>4 DEF KeepsAttempts
        <3> QED
            BY <2>1, <3>3, <3>4, <3>5, DoneFrame, RequestIs
            DEF ReconcileExisting, KeepsSettled
    <2> QED
        BY <2>2, <2>3
<1>5. CASE s = "canceled"
    <2> DEFINE r == [pc |-> "again", id |-> p, seen |-> "none"]
    <2>1. /\ db' = d /\ offered' = offered /\ req' = [req EXCEPT ![c] = r]
        BY <1>5 DEF ReconcileExisting, Active, Goto
    <2>2. r \in Request
        BY <1>1, AttemptsArePayments DEF Request, RequestSteps, Seen
    <2>3. RequestInv(r, db', prov)
        BY <1>1 DEF RequestInv, Claimed, Final
    <2>4. KeepsAttempts(db, db')
        BY <1>2, <2>1 DEF KeepsAttempts
    <2> QED
        BY <1>2, <2>1, <2>2, <2>3, <2>4, RequestFrame, RequestIs
        DEF ReconcileExisting, KeepsSettled
<1> QED
    BY <1>3, <1>4, <1>5 DEF ReconcileExisting

\* A step of a request that may also bring the provider's payment into being.
LEMMA PostFrame ==
    ASSUME Inv, NEW c \in Clients, NEW r \in Request,
           req[c].pc = "post", prov' \in {prov, Posted(req[c].id)},
           req' = [req EXCEPT ![c] = r], RequestInv(r, db', prov'),
           DInv(db', prov), KeepsAttempts(db, db'),
           UNCHANGED <<sent, offered, hooks, job>>
    PROVE  Inv'
<1>1. /\ prov \in [Attempts -> ProviderStatus \cup {"none"}]
      /\ req \in [Clients -> Request] /\ req[c].id \in Attempts
    BY DEF Inv, TypeOK
<1>2. prov' \in [Attempts -> ProviderStatus \cup {"none"}]
    BY <1>1 DEF Posted, ProviderStatus, Live, Active
<1>3. KeepsFinal(prov, prov')
    BY <1>1 DEF Posted, KeepsFinal, Final
<1>4. DInv(db', prov')
    BY <1>3, ProviderOK DEF KeepsFinal
<1>5. \A k \in Clients : req'[k] = req[k] \/ RequestInv(req'[k], db', prov')
    BY <1>1
<1>6. \A m \in sent' : prov'[m[1]] # "none"
    BY <1>1, <1>3 DEF Inv, TypeOK, KeepsFinal
<1> QED
    BY <1>1, <1>2, <1>3, <1>4, <1>5, <1>6, FrameOK DEF Inv, TypeOK

\* The provider call of a creation attempt, whatever its outcome.
LEMMA PostOK ==
    ASSUME Inv, NEW c \in Clients, Post(c) \/ PostRetryable(c) \/ PostUncertain(c)
    PROVE  Inv' /\ KeepsSettled(db, db')
<1> DEFINE n == req[c].id
<1>1. /\ n \in Attempts /\ req[c].pc = "post" /\ db.att[n] # "none"
      /\ prov' \in {prov, Posted(n)} /\ prov'[n] \in Seen
      /\ DInv(db, prov)
    BY RequestIs DEF Post, PostRetryable, PostUncertain, RequestInv, Claimed, Posted,
                     Seen, ProviderStatus, Live, Active
<1>2. IdleRequest \in Request /\ RequestInv(IdleRequest, db', prov')
    BY AttemptsArePayments
    DEF IdleRequest, Request, RequestSteps, Seen, RequestInv
<1>3. CASE Post(c)
    <2>1. PICK s \in {"pending", prov'[n]} : Goto(c, "verify", n, s)
        BY <1>3 DEF Post
    <2> DEFINE r == [pc |-> "verify", id |-> n, seen |-> s]
    <2>2. db' = db
        BY <1>3 DEF Post
    <2>3. prov \in [Attempts -> ProviderStatus \cup {"none"}] /\ prov' = Posted(n)
        BY <1>3, RequestIs DEF Post
    <2>4. prov'[n] \in ProviderStatus
        BY <1>1, <2>3 DEF Posted, ProviderStatus, Live, Active
    <2>5. s \in ProviderStatus /\ (s \in Final => prov'[n] = s)
        BY <2>4 DEF ProviderStatus, Live, Active, Final
    <2>6. r \in Request
        BY <1>1, <2>5, AttemptsArePayments DEF Request, RequestSteps, Seen
    <2>7. RequestInv(r, db', prov')
        BY <1>1, <2>2, <2>5 DEF RequestInv
    <2> QED
        BY <1>1, <1>3, <2>1, <2>2, <2>6, <2>7, PostFrame
        DEF Post, Goto, KeepsAttempts, KeepsSettled
<1>4. CASE PostRetryable(c)
    <2>1. db' = MarkRetry(db, n)
        BY <1>4 DEF PostRetryable
    <2>2. DInv(db', prov) /\ db'.pay = db.pay /\ KeepsAttempts(db, db')
        BY <1>1, <2>1, MarkRetryOK DEF SameOrder
    <2> QED
        BY <1>1, <1>2, <1>4, <2>2, PostFrame DEF PostRetryable, Done, KeepsSettled
<1>5. CASE PostUncertain(c)
    BY <1>1, <1>2, <1>5, PostFrame
    DEF PostUncertain, Done, KeepsSettled, KeepsAttempts
<1> QED
    BY <1>3, <1>4, <1>5

\* The created payment is fetched again to verify it.
LEMMA VerifyCreatedOK ==
    ASSUME Inv, NEW c \in Clients, VerifyCreated(c)
    PROVE  Inv' /\ KeepsSettled(db, db')
<1> DEFINE n == req[c].id
           s == req[c].seen
<1>1. /\ n \in Attempts /\ s \in ProviderStatus /\ db.att[n] # "none"
      /\ s \in Final => prov[n] = s
    BY RequestIs DEF VerifyCreated, RequestInv, Claimed
<1>2. PICK pc \in {"finalize", "review"} : Goto(c, pc, n, s)
    BY DEF VerifyCreated
<1> DEFINE r == [pc |-> pc, id |-> n, seen |-> s]
<1>3. r \in Request
    BY <1>1, AttemptsArePayments DEF Request, RequestSteps, Seen
<1>4. RequestInv(r, db, prov)
    BY <1>1 DEF RequestInv
<1> QED
    BY <1>2, <1>3, <1>4, RequestFrame, RequestIs
    DEF VerifyCreated, Goto, KeepsAttempts, KeepsSettled

\* The order is handed to the customer for payment.
LEMMA PaymentCreatedOK ==
    ASSUME NEW d, NEW pv, DInv(d, pv), AwaitingPayment(d)
    PROVE  DInv([d EXCEPT !.status = "payment_created", !.pay = "payment_created"], pv)
<1> DEFINE e == [d EXCEPT !.status = "payment_created", !.pay = "payment_created"]
<1>1. e \in Database
    BY DEF DInv, Database, OrderStatus, OrderPayment
<1>2. /\ e.status = "payment_created" /\ e.pay = "payment_created" /\ e.moves = d.moves
      /\ e.att = d.att /\ e.pid = d.pid /\ e.last = d.last /\ e.leased = d.leased
      /\ e.row = d.row /\ e.cases = d.cases
    BY DEF DInv, Database
<1>3. d.moves = {"reserve"}
    BY DEF DInv, Ledger, AwaitingPayment
<1>4. StatusPair(e) /\ Ledger(e) /\ Sold(e, pv)
    BY <1>2, <1>3 DEF StatusPair, Ledger, Sold, Settled, ReviewPayment
<1>5. AttemptOrder(e) /\ RowSound(e, pv)
    BY <1>2 DEF DInv, AttemptOrder, RowSound
<1> QED
    BY <1>1, <1>2, <1>4, <1>5 DEF DInv, Settled, ReviewPayment

\* finalize_payment_creation, before the payment is settled.
LEMMA FinalizedOK ==
    ASSUME NEW d, NEW pv, NEW n \in Attempts, NEW s \in ProviderStatus,
           DInv(d, pv), d.att[n] # "none", s \in Final => pv[n] = s,
           ~FinalizeRaises(d, n)
    PROVE  /\ DInv(Finalized(d, n, s), pv)
           /\ KeepsSettled(d, Finalized(d, n, s))
           /\ KeepsAttempts(d, Finalized(d, n, s))
<1> DEFINE r == IF d.row[n] \in Final THEN d ELSE RecordPayment(d, n, s)
           closed(o) == CloseAttempt(r, n, o, n)
           late(paid) == ToReview(closed("review_required"), paid, n)
<1>1. CASE d.att[n] = "completed"
    <2>1. Finalized(d, n, s) = d
        BY <1>1 DEF Finalized
    <2> QED
        BY <2>1 DEF KeepsSettled, KeepsAttempts
<1>2. CASE d.att[n] # "completed"
    <2>1. /\ DInv(r, pv) /\ r.pay = d.pay /\ r.status = d.status /\ r.att = d.att
        BY RecordPaymentOK
    <2>2. r.att[n] \in OpenAttempt
        BY <1>2, <2>1 DEF FinalizeRaises, DInv, Database, AttemptStatus
    <2>3. \A o \in {"completed", "abandoned", "review_required"} :
             /\ DInv(closed(o), pv) /\ KeepsAttempts(r, closed(o))
             /\ closed(o).pay = d.pay /\ closed(o).status = d.status
        <3>1. TAKE o \in {"completed", "abandoned", "review_required"}
        <3>2. /\ DInv(closed(o), pv) /\ SameOrder(r, closed(o))
              /\ KeepsAttempts(r, closed(o))
            BY <2>1, <2>2, CloseAttemptOK
        <3> QED
            BY <2>1, <3>2 DEF SameOrder
    <2>4. \A o \in {"completed", "abandoned", "review_required"} :
             KeepsAttempts(d, closed(o)) /\ KeepsSettled(d, closed(o))
        BY <2>1, <2>3 DEF KeepsAttempts, KeepsSettled
    <2>5. ASSUME NEW paid \in BOOLEAN, d.pay \in Settled => paid, paid => Taken(pv)
          PROVE  /\ DInv(late(paid), pv) /\ KeepsSettled(d, late(paid))
                 /\ KeepsAttempts(d, late(paid))
        <3> DEFINE e == closed("review_required")
        <3>1. DInv(e, pv) /\ e.pay = d.pay /\ KeepsAttempts(d, e)
            BY <2>3, <2>4
        <3>2. /\ DInv(ToReview(e, paid, n), pv) /\ KeepsSettled(e, ToReview(e, paid, n))
              /\ KeepsAttempts(e, ToReview(e, paid, n))
            <4> HIDE DEF e
            <4> QED
                BY <2>5, <3>1, ToReviewOK
        <3> QED
            BY <3>1, <3>2 DEF KeepsSettled, KeepsAttempts
    <2>6. CASE d.pay \in Settled
        <3>1. Finalized(d, n, s) \in {late(TRUE), closed("completed")}
            BY <1>2, <2>6 DEF Finalized
        <3>2. Taken(pv)
            BY <2>6 DEF DInv
        <3>3. DInv(late(TRUE), pv) /\ KeepsSettled(d, late(TRUE)) /\ KeepsAttempts(d, late(TRUE))
            BY <2>5, <3>2
        <3> QED
            BY <2>3, <2>4, <3>1, <3>3
    <2>7. CASE d.pay \notin Settled /\ s = "canceled"
        <3>1. Finalized(d, n, s) = closed("abandoned")
            BY <1>2, <2>7 DEF Finalized
        <3> QED
            BY <2>3, <2>4, <3>1
    <2>8. CASE d.pay \notin Settled /\ s # "canceled" /\ ~AwaitingPayment(d)
        <3>1. Finalized(d, n, s) = late(s = "succeeded")
            BY <1>2, <2>8 DEF Finalized
        <3>2. s = "succeeded" => Taken(pv)
            BY DEF Taken, Final
        <3> QED
            BY <2>5, <2>8, <3>1, <3>2
    <2>9. CASE d.pay \notin Settled /\ s # "canceled" /\ AwaitingPayment(d)
        <3> DEFINE e == closed("completed")
                   f == [e EXCEPT !.status = "payment_created", !.pay = "payment_created"]
        <3>1. Finalized(d, n, s) = f
            BY <1>2, <2>9 DEF Finalized
        <3>2. DInv(e, pv) /\ AwaitingPayment(e) /\ KeepsAttempts(d, e)
            BY <2>3, <2>4, <2>9 DEF AwaitingPayment
        <3>3. DInv(f, pv) /\ f.att = e.att
            <4> HIDE DEF e
            <4> QED
                BY <3>2, PaymentCreatedOK DEF DInv, Database
        <3> QED
            BY <2>9, <3>1, <3>2, <3>3 DEF KeepsSettled, KeepsAttempts
    <2> QED
        BY <2>6, <2>7, <2>8, <2>9
<1> QED
    BY <1>1, <1>2

\* finalize_payment_creation, with the settlement of a payment that succeeded.
LEMMA FinalizeOK ==
    ASSUME Inv, NEW c \in Clients, Finalize(c)
    PROVE  Inv' /\ KeepsSettled(db, db')
<1> DEFINE n == req[c].id
           s == req[c].seen
           p == FinalizedPayment(db, n)
           d == Finalized(db, n, s)
           inReview == d.status = "payment_review_required" \/ d.pay \in ReviewPayment
           settles == ~inReview /\ d.row[p] = "succeeded"
<1>1. /\ n \in Attempts /\ s \in ProviderStatus /\ db.att[n] # "none"
      /\ s \in Final => prov[n] = s
      /\ DInv(db, prov)
    BY RequestIs DEF Finalize, RequestInv, Claimed
<1>2. CASE FinalizeRaises(db, n) \/ (settles /\ SettleRaises(d))
    <2> DEFINE r == [pc |-> "review", id |-> n, seen |-> s]
    <2>1. /\ req' = [req EXCEPT ![c] = r] /\ db' = db /\ offered' = offered
          /\ UNCHANGED <<prov, sent, hooks, job>>
        BY <1>2 DEF Finalize, Goto
    <2>2. r \in Request
        BY <1>1, AttemptsArePayments DEF Request, RequestSteps, Seen
    <2>3. RequestInv(r, db, prov)
        BY <1>1 DEF RequestInv
    <2> HIDE DEF r
    <2> QED
        BY <2>1, <2>2, <2>3, RequestFrame, RequestIs DEF KeepsAttempts, KeepsSettled
<1>3. CASE ~(FinalizeRaises(db, n) \/ (settles /\ SettleRaises(d)))
    <2>1. /\ db' = IF settles THEN Settle(d) ELSE d
          /\ offered' \in {offered, offered \cup {p}}
          /\ Done(c)
          /\ UNCHANGED <<prov, sent, hooks, job>>
        BY <1>3 DEF Finalize
    <2>2. p \in Attempts
        BY <1>1 DEF FinalizedPayment, DInv, AttemptOrder
    <2>3. DInv(d, prov) /\ KeepsSettled(db, d) /\ KeepsAttempts(db, d)
        BY <1>1, <1>3, FinalizedOK
    <2> HIDE DEF d, p
    <2>4. DInv(db', prov) /\ KeepsSettled(d, db') /\ KeepsAttempts(d, db')
        <3>1. CASE settles
            <4>1. Taken(prov)
                BY <2>2, <2>3, <3>1 DEF DInv, RowSound, Taken, Final
            <4> QED
                BY <1>3, <2>1, <2>3, <3>1, <4>1, SettleOK DEF KeepsSettled
        <3>2. CASE ~settles
            BY <2>1, <2>3, <3>2 DEF KeepsSettled, KeepsAttempts
        <3> QED
            BY <3>1, <3>2
    <2>5. KeepsSettled(db, db') /\ KeepsAttempts(db, db')
        BY <2>3, <2>4 DEF KeepsSettled, KeepsAttempts
    <2>6. offered' \subseteq Attempts
        BY <2>1, <2>2, RequestIs
    <2> QED
        BY <2>1, <2>4, <2>5, <2>6, DoneFrame
<1> QED
    BY <1>2, <1>3

\* _persist_creation_review.
LEMMA PersistCreationReviewOK ==
    ASSUME Inv, NEW c \in Clients, PersistCreationReview(c)
    PROVE  Inv' /\ KeepsSettled(db, db')
<1> DEFINE n == req[c].id
           paid == req[c].seen = "succeeded" \/ db.pay \in Settled
           e == MarkReview(db, n)
<1>1. /\ n \in Attempts /\ db.att[n] # "none" /\ DInv(db, prov)
      /\ req[c].seen \in Final => prov[n] = req[c].seen
    BY RequestIs DEF PersistCreationReview, RequestInv, Claimed
<1>2. DInv(e, prov) /\ e.pay = db.pay /\ KeepsAttempts(db, e)
    BY <1>1, MarkReviewOK DEF SameOrder
<1>3. paid => Taken(prov)
    BY <1>1 DEF DInv, Taken, Final
<1>4. db' \in {db, ToReview(e, paid, n)}
    BY DEF PersistCreationReview
<1>5. /\ DInv(ToReview(e, paid, n), prov) /\ KeepsSettled(e, ToReview(e, paid, n))
      /\ KeepsAttempts(e, ToReview(e, paid, n))
    <2>1. paid \in BOOLEAN /\ (e.pay \in Settled => paid)
        BY <1>2
    <2> HIDE DEF e, paid
    <2> QED
        BY <1>1, <1>2, <1>3, <2>1, ToReviewOK
<1>6. DInv(db', prov) /\ KeepsSettled(db, db') /\ KeepsAttempts(db, db')
    <2> HIDE DEF e, paid
    <2> QED
        BY <1>1, <1>2, <1>4, <1>5 DEF KeepsSettled, KeepsAttempts
<1> QED
    BY <1>6, DoneFrame, RequestIs DEF PersistCreationReview

\* A request stops anywhere.
LEMMA RequestStopsOK ==
    ASSUME Inv, NEW c \in Clients, RequestStops(c)
    PROVE  Inv' /\ KeepsSettled(db, db')
BY DoneFrame, RequestIs DEF RequestStops, KeepsSettled, KeepsAttempts

-----------------------------------------------------------------------------
(***************************************************************************)
(* Webhook handlers.                                                       *)
(***************************************************************************)

\* An event is recorded, and a case may be opened for its payment.
LEMMA RecordEventOK ==
    ASSUME NEW d, NEW pv, NEW m \in Attempts \X Events, DInv(d, pv)
    PROVE  /\ DInv([d EXCEPT !.processed = @ \cup {m}], pv)
           /\ SameOrder(d, [d EXCEPT !.processed = @ \cup {m}])
           /\ KeepsAttempts(d, [d EXCEPT !.processed = @ \cup {m}])
<1> DEFINE e == [d EXCEPT !.processed = @ \cup {m}]
<1>1. e \in Database
    BY DEF DInv, Database
<1>2. /\ SameOrder(d, e) /\ e.att = d.att /\ e.pid = d.pid /\ e.last = d.last
      /\ e.leased = d.leased
    BY DEF DInv, Database, SameOrder
<1> QED
    BY <1>1, <1>2
    DEF DInv, StatusPair, Ledger, Sold, AttemptOrder, RowSound, SameOrder, KeepsAttempts

\* Opening a review case alone keeps the database sound.
LEMMA OpenCaseOK ==
    ASSUME NEW d, NEW pv, NEW p \in Attempts, DInv(d, pv)
    PROVE  /\ DInv([d EXCEPT !.cases = @ \cup {p}], pv)
           /\ [d EXCEPT !.cases = @ \cup {p}].pay = d.pay
           /\ KeepsAttempts(d, [d EXCEPT !.cases = @ \cup {p}])
<1> DEFINE e == [d EXCEPT !.cases = @ \cup {p}]
<1>1. e \in Database
    BY DEF DInv, Database
<1>2. /\ e.status = d.status /\ e.pay = d.pay /\ e.moves = d.moves /\ e.row = d.row
      /\ e.att = d.att /\ e.pid = d.pid /\ e.last = d.last /\ e.leased = d.leased
      /\ e.cases = d.cases \cup {p}
    BY DEF DInv, Database
<1> QED
    BY <1>1, <1>2
    DEF DInv, StatusPair, Ledger, Sold, AttemptOrder, RowSound, KeepsAttempts

\* What a handler commits, whatever the notification and however late.
LEMMA NotifiedOK ==
    ASSUME NEW d, NEW pv, NEW h \in Hook, DInv(d, pv), HookInv(h, pv)
    PROVE  /\ DInv(Notified(d, h), pv) /\ KeepsSettled(d, Notified(d, h))
           /\ KeepsAttempts(d, Notified(d, h))
<1> DEFINE p == h.id
           m == <<p, h.event>>
           r1 == RecordPayment(d, p, h.seen)
           r2 == CompleteFromProvider(r1, p)
           r == [r2 EXCEPT !.processed = @ \cup {m}]
<1>1. p \in Attempts /\ m \in Attempts \X Events /\ h.seen \in ProviderStatus
    BY DEF Hook
<1>2. /\ DInv(r1, pv) /\ r1.pay = d.pay /\ r1.status = d.status /\ r1.att = d.att
      /\ r1.moves = d.moves
    BY <1>1, RecordPaymentOK DEF HookInv
<1>3. DInv(r2, pv) /\ SameOrder(r1, r2) /\ KeepsAttempts(r1, r2)
    <2> HIDE DEF r1
    <2> QED
        BY <1>1, <1>2, CompleteOK
<1>4. DInv(r, pv) /\ SameOrder(r2, r) /\ KeepsAttempts(r2, r)
    <2> HIDE DEF r2
    <2> QED
        BY <1>1, <1>3, RecordEventOK
<1>5. /\ r.pay = d.pay /\ r.status = d.status /\ r.moves = d.moves
      /\ KeepsAttempts(d, r)
    BY <1>2, <1>3, <1>4 DEF SameOrder, KeepsAttempts
<1>6. CASE m \in d.processed \/ NoticeRaises(d, h)
    <2>1. Notified(d, h) = d
        BY <1>6 DEF Notified
    <2> QED
        BY <2>1 DEF KeepsSettled, KeepsAttempts
<1>7. CASE ~(m \in d.processed \/ NoticeRaises(d, h)) /\ PaidNotice(h)
    <2>1. Notified(d, h) = IF Cancelled(d) THEN ToReview(r, TRUE, p) ELSE Settle(r)
        BY <1>7 DEF Notified, PaidNotice, CanceledNotice
    <2>2. Taken(pv)
        BY <1>1, <1>7 DEF PaidNotice, HookInv, Taken, Final
    <2> HIDE DEF r
    <2>3. CASE Cancelled(d)
        <3>1. /\ DInv(ToReview(r, TRUE, p), pv) /\ KeepsSettled(r, ToReview(r, TRUE, p))
              /\ KeepsAttempts(r, ToReview(r, TRUE, p))
            BY <1>1, <1>4, <2>2, ToReviewOK
        <3> QED
            BY <1>5, <2>1, <2>3, <3>1 DEF KeepsSettled, KeepsAttempts
    <2>4. CASE ~Cancelled(d)
        <3>1. ~SettleRaises(r)
            BY <1>5, <1>7, <2>4 DEF NoticeRaises, SettleRaises, Cancelled
        <3>2. DInv(Settle(r), pv) /\ Settle(r).pay \in Settled /\ KeepsAttempts(r, Settle(r))
            BY <1>4, <2>2, <3>1, SettleOK
        <3> QED
            BY <1>5, <2>1, <2>4, <3>2 DEF KeepsSettled, KeepsAttempts
    <2> QED
        BY <2>3, <2>4
<1>8. CASE ~(m \in d.processed \/ NoticeRaises(d, h)) /\ ~PaidNotice(h) /\ CanceledNotice(d, h)
    <2> DEFINE o == [r EXCEPT !.cases = @ \cup {p}]
    <2>1. Notified(d, h) = IF d.pay \in Settled THEN o
                           ELSE IF CancelRaises(d, "provider") THEN ToReview(r, FALSE, p)
                           ELSE Cancel(r)
        BY <1>8 DEF Notified
    <2> HIDE DEF r
    <2>2. CASE d.pay \in Settled
        <3>1. DInv(o, pv) /\ o.pay = r.pay /\ KeepsAttempts(r, o)
            BY <1>1, <1>4, OpenCaseOK
        <3>2. Notified(d, h) = o
            BY <2>1, <2>2
        <3> HIDE DEF o
        <3> QED
            BY <1>5, <2>2, <3>1, <3>2 DEF KeepsSettled, KeepsAttempts
    <2>3. CASE d.pay \notin Settled /\ CancelRaises(d, "provider")
        <3>1. /\ DInv(ToReview(r, FALSE, p), pv)
              /\ KeepsAttempts(r, ToReview(r, FALSE, p))
            BY <1>1, <1>4, <1>5, <2>3, ToReviewOK
        <3> QED
            BY <1>5, <2>1, <2>3, <3>1 DEF KeepsSettled, KeepsAttempts
    <2>4. CASE d.pay \notin Settled /\ ~CancelRaises(d, "provider")
        <3>1. ~CancelRaises(r, "provider")
            BY <1>5, <2>4 DEF CancelRaises, Cancelled, AwaitingPayment
        <3>2. DInv(Cancel(r), pv) /\ KeepsAttempts(r, Cancel(r))
            BY <1>4, <3>1, CancelOK
        <3> QED
            BY <1>5, <2>1, <2>4, <3>2 DEF KeepsSettled, KeepsAttempts
    <2> QED
        BY <2>2, <2>3, <2>4
<1>9. CASE /\ ~(m \in d.processed \/ NoticeRaises(d, h))
           /\ ~PaidNotice(h) /\ ~CanceledNotice(d, h)
    <2>1. Notified(d, h) = r
        BY <1>9 DEF Notified
    <2> QED
        BY <1>4, <1>5, <2>1 DEF KeepsSettled, KeepsAttempts
<1> QED
    BY <1>6, <1>7, <1>8, <1>9

\* A step that leaves the requests and the provider alone.
LEMMA HandlerFrame ==
    ASSUME Inv, DInv(db', prov), KeepsAttempts(db, db'),
           hooks' \subseteq Hook, \A h \in hooks' : h \in hooks \/ HookInv(h, prov),
           job' \in Job, job' = job \/ JobInv(job', prov),
           UNCHANGED <<prov, sent, offered, req>>
    PROVE  Inv'
BY FrameOK DEF Inv, TypeOK, KeepsFinal

\* A notification is taken up, and committed.
LEMMA HookFetchOK ==
    ASSUME Inv, NEW p \in Attempts, NEW e \in Events, HookFetch(p, e)
    PROVE  Inv' /\ KeepsSettled(db, db')
<1> DEFINE h == [id |-> p, event |-> e, seen |-> prov[p]]
<1>1. prov[p] \in ProviderStatus
    BY DEF Inv, TypeOK, HookFetch
<1>2. h \in Hook /\ HookInv(h, prov)
    BY <1>1 DEF Hook, HookInv
<1> QED
    BY <1>2, HandlerFrame
    DEF HookFetch, Inv, TypeOK, KeepsAttempts, KeepsSettled

\* The webhook handler's transaction keeps the invariant.
LEMMA HookCommitOK ==
    ASSUME Inv, NEW h \in hooks, HookCommit(h)
    PROVE  Inv' /\ KeepsSettled(db, db')
<1>1. h \in Hook /\ HookInv(h, prov) /\ DInv(db, prov)
    BY DEF Inv, TypeOK
<1>2. /\ DInv(db', prov) /\ KeepsSettled(db, db') /\ KeepsAttempts(db, db')
    BY <1>1, NotifiedOK DEF HookCommit
<1> QED
    BY <1>2, HandlerFrame DEF HookCommit, Inv, TypeOK

\* A handler fails.
LEMMA HookFailsOK ==
    ASSUME Inv, NEW h \in hooks, HookFails(h)
    PROVE  Inv' /\ KeepsSettled(db, db')
BY HandlerFrame DEF HookFails, Inv, TypeOK, KeepsAttempts, KeepsSettled

-----------------------------------------------------------------------------
(***************************************************************************)
(* The reconciliation job, manual cancellation, leases and the provider.   *)
(***************************************************************************)

\* The job reads the provider.
LEMMA JobFetchOK ==
    ASSUME Inv, JobFetch
    PROVE  Inv' /\ KeepsSettled(db, db')
<1>1. DInv(db, prov) /\ db.latest \in PaymentIds /\ db.latest # NoPayment
    BY DEF Inv, JobFetch, Reconcilable, DInv, Database
<1>2. db.latest \in Attempts
    BY <1>1 DEF PaymentIds, NoPayment, Attempts
<1>3. prov[db.latest] \in Seen
    BY <1>2 DEF Inv, TypeOK, Seen
<1>4. job' \in Job /\ JobInv(job', prov)
    BY <1>1, <1>2, <1>3 DEF JobFetch, Job, JobInv
<1> QED
    BY <1>1, <1>4, HandlerFrame
    DEF JobFetch, Inv, TypeOK, KeepsAttempts, KeepsSettled

\* A cancellation the job observes never fails: an unsettled order it still
\* looks at is either awaiting payment or cancelled already.
LEMMA ReconcilableCancels ==
    ASSUME NEW d, NEW pv, DInv(d, pv),
           d.pay \in {"pending", "payment_created", "cancelled"}
    PROVE  ~CancelRaises(d, "provider")
BY DEF DInv, StatusPair, CancelRaises, Cancelled, AwaitingPayment, Settled

\* The job commits what it observed.
LEMMA JobApplyOK ==
    ASSUME Inv, JobApply
    PROVE  Inv' /\ KeepsSettled(db, db')
<1> DEFINE p == job.id
           s == job.seen
           d == [db EXCEPT !.row[p] = s]
<1>1. /\ p \in Attempts /\ DInv(db, prov) /\ job \in Job
      /\ s \in Final => prov[p] = s
    BY DEF Inv, TypeOK, JobApply, JobInv
<1>2. IdleJob \in Job /\ JobInv(IdleJob, prov)
    BY AttemptsArePayments DEF IdleJob, Job, Seen, JobInv
<1>3. s \in ProviderStatus =>
         /\ DInv(d, prov) /\ d.pay = db.pay /\ d.status = db.status /\ d.att = db.att
         /\ d.moves = db.moves
    BY <1>1, SetRowOK
<1>4. ASSUME DInv(db', prov), KeepsAttempts(db, db'), job' = IdleJob
      PROVE  Inv'
    BY <1>2, <1>4, HandlerFrame DEF JobApply, Inv, TypeOK
<1>5. CASE ~Reconcilable(db) \/ db.latest # p
    BY <1>1, <1>4, <1>5 DEF JobApply, KeepsAttempts, KeepsSettled
<1>6. CASE Reconcilable(db) /\ db.latest = p
    <2>1. CASE s \in Active
        <3>1. db' = d /\ job' = IdleJob
            BY <1>6, <2>1 DEF JobApply, Active
        <3>2. s \in ProviderStatus
            BY <2>1 DEF ProviderStatus, Live
        <3> QED
            BY <1>3, <1>4, <3>1, <3>2 DEF KeepsAttempts, KeepsSettled
    <2>2. CASE s = "succeeded"
        <3>1. s \in ProviderStatus /\ Taken(prov)
            BY <1>1, <2>2 DEF ProviderStatus, Live, Taken, Final
        <3>2. CASE SettleRaises(d)
            <4>0. Cancelled(d)
                BY <1>1, <1>3, <1>6, <3>1, <3>2
                DEF SettleRaises, Reconcilable, DInv, Sold, Settled
            <4>1. job' = [job EXCEPT !.pc = "persist", !.paid = TRUE] /\ db' = db
                BY <1>6, <2>2, <3>2, <4>0 DEF JobApply, Active
            <4>2. job' \in Job /\ JobInv(job', prov)
                BY <1>1, <2>2, <4>1 DEF Job, JobInv
            <4> QED
                BY <1>1, <4>1, <4>2, HandlerFrame
                DEF JobApply, Inv, TypeOK, KeepsAttempts, KeepsSettled
        <3>3. CASE ~SettleRaises(d)
            <4>1. \/ db' = Settle(d) /\ job' = IdleJob
                  \/ /\ Refusals /\ db' = db
                     /\ job' = [job EXCEPT !.pc = "persist", !.paid = FALSE]
                BY <1>6, <2>2, <3>3 DEF JobApply, Active
            <4>2. /\ DInv(Settle(d), prov) /\ Settle(d).pay \in Settled
                  /\ KeepsAttempts(d, Settle(d))
                BY <1>3, <3>1, <3>3, SettleOK
            <4>3. d.att = db.att
                BY <1>3, <3>1
            <4> HIDE DEF d
            <4>4. CASE db' = Settle(d) /\ job' = IdleJob
                BY <1>4, <4>2, <4>3, <4>4 DEF KeepsAttempts, KeepsSettled
            <4>5. CASE /\ Refusals /\ db' = db
                       /\ job' = [job EXCEPT !.pc = "persist", !.paid = FALSE]
                <5>1. job' \in Job /\ JobInv(job', prov)
                    BY <1>1, <2>2, <4>5 DEF Job, JobInv
                <5> QED
                    BY <1>1, <4>5, <5>1, HandlerFrame
                    DEF JobApply, Inv, TypeOK, KeepsAttempts, KeepsSettled
            <4> QED
                BY <4>1, <4>4, <4>5
        <3> QED
            BY <3>2, <3>3
    <2>3. CASE s = "canceled"
        <3>1. DInv(d, prov) /\ d.pay = db.pay /\ d.att = db.att
            BY <1>3, <2>3 DEF ProviderStatus
        <3>2. ~CancelRaises(d, "provider")
            BY <1>6, <3>1, ReconcilableCancels DEF Reconcilable
        <3>3. db' = Cancel(d) /\ job' = IdleJob
            BY <1>6, <2>3, <3>2 DEF JobApply, Active
        <3> HIDE DEF d
        <3>4. DInv(Cancel(d), prov) /\ KeepsSettled(d, Cancel(d)) /\ KeepsAttempts(d, Cancel(d))
            BY <3>1, <3>2, CancelOK
        <3> QED
            BY <1>4, <3>1, <3>3, <3>4 DEF KeepsAttempts, KeepsSettled
    <2> QED
        BY <1>6, <2>1, <2>2, <2>3 DEF JobApply
<1> QED
    BY <1>5, <1>6

\* _persist_review: the one step that may overwrite a settled status.
LEMMA JobPersistOK ==
    ASSUME Inv, JobPersist
    PROVE  Inv' /\ (KeepsSettled(db, db') \/ Overwritten)
<1> DEFINE p == job.id
           d == [db EXCEPT !.row[p] = job.seen]
<1>1. /\ p \in Attempts /\ DInv(db, prov) /\ job.seen = "succeeded"
      /\ job.paid \in BOOLEAN /\ (job.paid \/ Refusals)
      /\ prov[p] = "succeeded"
    BY DEF Inv, TypeOK, JobPersist, JobInv, Job, Final
<1>2. DInv(d, prov) /\ d.pay = db.pay /\ d.att = db.att
    BY <1>1, SetRowOK DEF ProviderStatus, Live
<1>3. db' = ToReview(d, job.paid, p) /\ job' = IdleJob
    BY DEF JobPersist
<1>4. Taken(prov)
    BY <1>1 DEF Taken
<1> HIDE DEF d
<1>5. /\ DInv(db', prov) /\ KeepsAttempts(d, db')
      /\ db'.pay \in ReviewPayment /\ p \in db'.cases
      /\ job.paid => db'.pay \in Settled
    BY <1>1, <1>2, <1>3, <1>4, ToReviewSafe
<1>6. IdleJob \in Job /\ JobInv(IdleJob, prov)
    BY AttemptsArePayments DEF IdleJob, Job, Seen, JobInv
<1>7. KeepsAttempts(db, db')
    BY <1>2, <1>5 DEF KeepsAttempts
<1>8. KeepsSettled(db, db') \/ Overwritten
    BY <1>1, <1>3, <1>5
    DEF KeepsSettled, Overwritten, JobPersist, ReviewPayment, Settled
<1> QED
    BY <1>3, <1>5, <1>6, <1>7, <1>8, HandlerFrame DEF JobPersist, Inv, TypeOK

\* A run of the job stops.
LEMMA JobStopsOK ==
    ASSUME Inv, JobStops
    PROVE  Inv' /\ KeepsSettled(db, db')
<1>1. IdleJob \in Job /\ JobInv(IdleJob, prov) /\ DInv(db, prov)
    BY AttemptsArePayments DEF IdleJob, Job, Seen, JobInv, Inv
<1> QED
    BY <1>1, HandlerFrame DEF JobStops, Inv, TypeOK, KeepsAttempts, KeepsSettled

\* The owner or an administrator cancels the order.
LEMMA ManualCancelOK ==
    ASSUME Inv, ManualCancel
    PROVE  Inv' /\ KeepsSettled(db, db')
<1>1. DInv(db', prov) /\ KeepsSettled(db, db') /\ KeepsAttempts(db, db')
    BY CancelOK DEF ManualCancel, Inv
<1> QED
    BY <1>1, HandlerFrame DEF ManualCancel, Inv, TypeOK

\* A creation lease runs out.
LEMMA LeaseExpiresOK ==
    ASSUME Inv, NEW n \in Attempts, LeaseExpires(n)
    PROVE  Inv' /\ KeepsSettled(db, db')
<1>1. /\ DInv(db', prov) /\ db'.pay = db.pay /\ db'.att = db.att
    BY LeaseOK DEF LeaseExpires, Inv, SameOrder
<1> QED
    BY <1>1, HandlerFrame
    DEF LeaseExpires, Inv, TypeOK, KeepsAttempts, KeepsSettled

\* The provider moves an unfinished payment.
LEMMA ProviderMovesOK ==
    ASSUME Inv, NEW n \in Attempts, Authorise(n) \/ Succeed(n) \/ Expire(n)
    PROVE  Inv' /\ KeepsSettled(db, db')
<1>1. PICK to \in ProviderStatus, news \in Events : ProviderMoves(n, Active, to, news)
    BY DEF Authorise, Succeed, Expire, ProviderMoves, ProviderStatus, Live, Active, Events
<1>2. prov \in [Attempts -> ProviderStatus \cup {"none"}]
    BY DEF Inv, TypeOK
<1>3. prov' \in [Attempts -> ProviderStatus \cup {"none"}]
    BY <1>1, <1>2 DEF ProviderMoves
<1>4. KeepsFinal(prov, prov')
    BY <1>1, <1>2 DEF ProviderMoves, KeepsFinal, Active, Final, ProviderStatus, Live
<1>5. DInv(db', prov') /\ KeepsAttempts(db, db') /\ KeepsSettled(db, db')
    BY <1>1, <1>4, ProviderOK
    DEF ProviderMoves, Inv, KeepsFinal, KeepsAttempts, KeepsSettled
<1>6. sent' \subseteq Attempts \X Events /\ \A m \in sent' : prov'[m[1]] # "none"
    <2>1. prov'[n] # "none"
        BY <1>1, <1>2 DEF ProviderMoves, ProviderStatus, Live, Active
    <2> QED
        BY <1>1, <1>4, <2>1 DEF ProviderMoves, Inv, TypeOK, KeepsFinal
<1> QED
    BY <1>1, <1>3, <1>4, <1>5, <1>6, FrameOK DEF ProviderMoves, Inv, TypeOK

-----------------------------------------------------------------------------
(***************************************************************************)
(* The theorems.                                                           *)
(***************************************************************************)

\* Every step keeps the invariant, and every step but one the settled status.
LEMMA StepOK ==
    ASSUME Inv, [Next]_vars
    PROVE  Inv' /\ (KeepsSettled(db, db') \/ Overwritten)
<1>1. ASSUME NEW c \in Clients, RequestStep(c)
      PROVE  Inv' /\ KeepsSettled(db, db')
    BY <1>1, BeginExistingOK, BeginClaimOK, FetchOK, ReconcileExistingOK, PostOK,
       VerifyCreatedOK, FinalizeOK, PersistCreationReviewOK, RequestStopsOK
    DEF RequestStep
<1>2. ASSUME NEW n \in Attempts,
             LeaseExpires(n) \/ Authorise(n) \/ Succeed(n) \/ Expire(n)
      PROVE  Inv' /\ KeepsSettled(db, db')
    BY <1>2, LeaseExpiresOK, ProviderMovesOK
<1>3. ASSUME NEW p \in Attempts, NEW e \in Events, HookFetch(p, e)
      PROVE  Inv' /\ KeepsSettled(db, db')
    BY <1>3, HookFetchOK
<1>4. ASSUME NEW h \in hooks, HookCommit(h) \/ HookFails(h)
      PROVE  Inv' /\ KeepsSettled(db, db')
    BY <1>4, HookCommitOK, HookFailsOK
<1>5. CASE JobStep
    BY <1>5, JobFetchOK, JobApplyOK, JobPersistOK, JobStopsOK DEF JobStep
<1>6. CASE ManualCancel
    BY <1>6, ManualCancelOK
<1>7. CASE UNCHANGED vars
    BY <1>7 DEF vars, Inv, TypeOK, DInv, RequestInv, HookInv, JobInv, KeepsSettled
<1> QED
    BY <1>1, <1>2, <1>3, <1>4, <1>5, <1>6, <1>7 DEF Next

\* The inductive invariant holds in every reachable state.
THEOREM Invariance == Spec => []Inv
<1>1. Inv /\ [Next]_vars => Inv'
    BY StepOK
<1> QED
    BY <1>1, InitOK, PTL DEF Spec

\* Every actor's state stays within its type.
THEOREM TypeCorrect == Spec => []TypeOK
<1>1. Inv => TypeOK
    BY DEF Inv
<1> QED
    BY <1>1, Invariance, PTL

\* An order is settled only on money the provider took (settle_paid_order is
\* reached from the request, the webhook and the job with stale answers).
THEOREM PaidIsBackedAlways == Spec => []PaidIsBacked
<1>1. Inv => PaidIsBacked
    BY DEF Inv, DInv, Taken, PaidIsBacked
<1> QED
    BY <1>1, Invariance, PTL

\* Sold stock belongs to a settled order (commit_reservations_to_sold against
\* every later write of payment_status), or to one whose refused settlement is
\* in review, with a case for money the provider took (_persist_review).
THEOREM SoldIsPaidOrReviewedAlways == Spec => []SoldIsPaidOrReviewed
<1>1. Inv => SoldIsPaidOrReviewed
    BY DEF Inv, DInv, Sold, SoldIsPaidOrReviewed
<1> QED
    BY <1>1, Invariance, PTL

\* The movement ledger follows the order's status.
THEOREM ReservationMatchesStatusAlways == Spec => []ReservationMatchesStatus
<1>1. Inv => ReservationMatchesStatus
    BY DEF Inv, DInv, Ledger, ReservationMatchesStatus
<1> QED
    BY <1>1, Invariance, PTL

\* An order in payment review has a review case.
THEOREM ReviewHasCaseAlways == Spec => []ReviewHasCase
<1>1. Inv => ReviewHasCase
    BY DEF Inv, DInv, ReviewHasCase
<1> QED
    BY <1>1, Invariance, PTL

\* No transaction runs into a constraint of payment_creation_attempts.
THEOREM AttemptRowsAlways == Spec => []AttemptRows
<1>1. Inv => AttemptRows
    BY DEF Inv, DInv, AttemptOrder, AttemptRows, NoPayment, Attempts
<1> QED
    BY <1>1, Invariance, PTL

\* No step of any actor takes the settled status from the order, but for the
\* job's review of a settlement that was refused to it (_persist_review does
\* not look at the status it overwrites).
THEOREM SettledUnlessOverwrittenAlways == Spec => SettledUnlessOverwritten
<1>1. Inv /\ [Next]_vars => [db.pay \in Settled => db'.pay \in Settled \/ Overwritten]_vars
    BY StepOK DEF KeepsSettled
<1> QED
    BY <1>1, Invariance, PTL DEF Spec, SettledUnlessOverwritten

-----------------------------------------------------------------------------
(***************************************************************************)
(* The links to pay, and NoDoubleCharge.                                   *)
(*                                                                         *)
(* The argument: a payment the database or a customer knows of can take    *)
(* money only if it belongs to the newest attempt, which it has closed     *)
(* under its own id.  begin_payment_creation claims a new attempt only     *)
(* once that payment's row says "canceled", and such a row is right.  A    *)
(* payment whose attempt was closed under another payment's id is live at  *)
(* most as long as nobody knows of it.                                     *)
(***************************************************************************)

\* The database has a row of the payment, or a customer has a link to it.
Known(d, off, n) == d.row[n] # "none" \/ n \in off

LinkInv(d, pv, off) ==
    \A n \in Attempts :
        /\ Known(d, off, n) => pv[n] # "none"
        /\ Known(d, off, n) /\ pv[n] \in Live =>
              /\ n = d.last
              /\ d.att[n] \in {"completed", "review_required"}
              /\ d.pid[n] = n
        /\ d.att[n] = "abandoned" => pv[n] = "canceled"

RequestLinks(r, d, pv) ==
    /\ r.pc \in {"fetch", "apply"} => d.row[r.id] # "none"
    /\ r.pc \in {"verify", "finalize", "review"} => pv[r.id] # "none"

\* Only a cancellation is notified of a payment nobody has a link to.
SentLinks(m, pv, off) == m[1] \in off \/ pv[m[1]] = "canceled"
HookLinks(h, off) == h.id \in off \/ h.seen = "canceled"
JobLinks(j, d) == j.pc # "idle" => d.row[j.id] # "none"

Links ==
    /\ LinkInv(db, prov, offered)
    /\ \A c \in Clients : RequestLinks(req[c], db, prov)
    /\ \A m \in sent : SentLinks(m, prov, offered)
    /\ \A h \in hooks : HookLinks(h, offered)
    /\ JobLinks(job, db)

\* Rows are never deleted, and the provider's payments only move forward.
KeepsRows(d, e) == \A n \in Attempts : d.row[n] # "none" => e.row[n] # "none"

MovesOn(pv, pw) ==
    \A n \in Attempts : \/ pw[n] = pv[n]
                        \/ pv[n] = "none" /\ pw[n] = "pending"
                        \/ pv[n] \in Active /\ pw[n] \in ProviderStatus

\* What the invariant reads of the database.
SameRows(d, e) ==
    e.row = d.row /\ e.att = d.att /\ e.pid = d.pid /\ e.last = d.last

-----------------------------------------------------------------------------
(***************************************************************************)
(* The domain functions preserve it.                                       *)
(***************************************************************************)

\* A function that leaves rows and attempts alone.
LEMMA SameRowsOK ==
    ASSUME NEW d, NEW e, NEW pv, NEW off, LinkInv(d, pv, off), SameRows(d, e)
    PROVE  LinkInv(e, pv, off) /\ KeepsRows(d, e)
BY DEF LinkInv, SameRows, KeepsRows, Known

\* The functions that do.
LEMMA StatusFunctions ==
    ASSUME NEW d \in Database, NEW paid, NEW p, NEW m
    PROVE  /\ SameRows(d, Settle(d))
           /\ SameRows(d, Cancel(d))
           /\ SameRows(d, ToReview(d, paid, p))
           /\ SameRows(d, [d EXCEPT !.processed = @ \cup {m}])
           /\ SameRows(d, [d EXCEPT !.cases = @ \cup {p}])
           /\ SameRows(d, [d EXCEPT !.leased = @ \ {m}])
BY DEF Settle, Cancel, ToReview, SameRows, Database

\* A row of a known payment, or of one that cannot take money, is written.
LEMMA RowLinks ==
    ASSUME NEW d \in Database, NEW e, NEW pv, NEW off, NEW p \in Attempts,
           NEW s \in ProviderStatus,
           LinkInv(d, pv, off), Known(d, off, p) \/ pv[p] = "canceled",
           e.row = [d.row EXCEPT ![p] = s], e.att = d.att, e.pid = d.pid, e.last = d.last
    PROVE  LinkInv(e, pv, off) /\ KeepsRows(d, e)
<1>1. d.row \in [Attempts -> ProviderStatus \cup {"none"}]
    BY DEF Database
<1>2. KeepsRows(d, e)
    BY <1>1 DEF KeepsRows, ProviderStatus, Live, Active
<1>3. \A n \in Attempts : Known(e, off, n) => Known(d, off, n) \/ pv[n] = "canceled"
    BY <1>1 DEF Known
<1>4. "canceled" \notin Live /\ "canceled" # "none"
    BY DEF Live, Active
<1> QED
    BY <1>2, <1>3, <1>4 DEF LinkInv

\* The link to a known payment is handed out.
LEMMA OfferLinks ==
    ASSUME NEW d, NEW pv, NEW off, NEW p \in Attempts,
           LinkInv(d, pv, off), Known(d, off, p)
    PROVE  LinkInv(d, pv, off \cup {p})
BY DEF LinkInv, Known

\* An open attempt, the newest one, is closed; its row may have been written.
LEMMA CloseLinks ==
    ASSUME NEW d, NEW r \in Database, NEW pv, NEW off,
           NEW n \in Attempts, NEW p \in Attempts,
           NEW o \in {"completed", "abandoned", "review_required"},
           DInv(d, pv), LinkInv(d, pv, off), d.att[n] \in OpenAttempt,
           r.att = d.att, r.pid = d.pid, r.last = d.last,
           \A m \in Attempts \ {n} : r.row[m] = d.row[m],
           d.row[n] # "none" => r.row[n] # "none",
           Known(r, off, n) => pv[n] # "none",
           Known(r, off, n) /\ pv[n] \in Live => p = n,
           o = "abandoned" => pv[n] = "canceled"
    PROVE  /\ LinkInv(CloseAttempt(r, n, o, p), pv, off)
           /\ KeepsRows(d, CloseAttempt(r, n, o, p))
<1> DEFINE e == CloseAttempt(r, n, o, p)
<1>1. /\ e.row = r.row /\ e.last = d.last
      /\ e.att = [d.att EXCEPT ![n] = o] /\ e.pid = [d.pid EXCEPT ![n] = p]
    BY DEF CloseAttempt, Database
<1>2. d.att \in [Attempts -> AttemptStatus] /\ d.pid \in [Attempts -> PaymentIds]
    BY DEF DInv, Database
<1>3. n = d.last
    BY DEF DInv, AttemptOrder
<1>4. "canceled" \notin Live
    BY DEF Live, Active
<1> HIDE DEF e
<1>5. KeepsRows(d, e)
    BY <1>1 DEF KeepsRows
<1>6. ASSUME NEW m \in Attempts
      PROVE  /\ Known(e, off, m) => pv[m] # "none"
             /\ Known(e, off, m) /\ pv[m] \in Live =>
                   /\ m = e.last
                   /\ e.att[m] \in {"completed", "review_required"}
                   /\ e.pid[m] = m
             /\ e.att[m] = "abandoned" => pv[m] = "canceled"
    <2>1. CASE m = n
        BY <1>1, <1>2, <1>3, <1>4, <2>1 DEF Known
    <2>2. CASE m # n
        BY <1>1, <1>2, <2>2 DEF LinkInv, Known
    <2> QED
        BY <2>1, <2>2
<1>7. LinkInv(e, pv, off)
    BY <1>6 DEF LinkInv
<1> QED
    BY <1>5, <1>7 DEF e

\* complete_payment_creation_from_provider may close the newest attempt under
\* another payment's id, but only while nobody knows of its own payment.
LEMMA CompleteLinks ==
    ASSUME NEW d, NEW pv, NEW off, NEW p \in Attempts,
           DInv(d, pv), LinkInv(d, pv, off)
    PROVE  /\ LinkInv(CompleteFromProvider(d, p), pv, off)
           /\ KeepsRows(d, CompleteFromProvider(d, p))
<1>1. CASE \A n \in Attempts : d.att[n] \notin OpenAttempt
    BY <1>1 DEF CompleteFromProvider, KeepsRows
<1>2. CASE \E n \in Attempts : d.att[n] \in OpenAttempt
    <2>1. PICK n \in Attempts : d.att[n] \in OpenAttempt
        BY <1>2
    <2>2. NewestOpen(d) = n
        BY <2>1, NewestOpenIs
    <2>3. CASE d.att[n] = "review_required" /\ d.pid[n] # p
        BY <2>1, <2>2, <2>3 DEF CompleteFromProvider, KeepsRows
    <2>4. CASE ~(d.att[n] = "review_required" /\ d.pid[n] # p)
        <3>1. CompleteFromProvider(d, p) = CloseAttempt(d, n, "completed", p)
            BY <2>1, <2>2, <2>4 DEF CompleteFromProvider
        <3>2. /\ Known(d, off, n) => pv[n] # "none"
              /\ Known(d, off, n) /\ pv[n] \in Live => p = n
            BY <2>1, <2>4 DEF LinkInv, OpenAttempt, Retryable
        <3> QED
            BY <2>1, <3>1, <3>2, CloseLinks DEF DInv
    <2> QED
        BY <2>3, <2>4
<1> QED
    BY <1>1, <1>2

\* An attempt that stays open changes how it is open.
LEMMA ReopenLinks ==
    ASSUME NEW d, NEW e, NEW pv, NEW off, NEW n \in Attempts, NEW o \in Retryable,
           DInv(d, pv), LinkInv(d, pv, off), d.att[n] \in Retryable,
           e.att = [d.att EXCEPT ![n] = o],
           e.row = d.row, e.pid = d.pid, e.last = d.last
    PROVE  LinkInv(e, pv, off) /\ KeepsRows(d, e)
<1>1. d.att \in [Attempts -> AttemptStatus]
    BY DEF DInv, Database
<1> QED
    BY <1>1 DEF LinkInv, Known, KeepsRows, Retryable

\* mark_payment_creation_retry_required.
LEMMA MarkRetryLinks ==
    ASSUME NEW d, NEW pv, NEW off, NEW n \in Attempts,
           DInv(d, pv), LinkInv(d, pv, off), d.att[n] # "none"
    PROVE  LinkInv(MarkRetry(d, n), pv, off) /\ KeepsRows(d, MarkRetry(d, n))
<1>1. CASE d.att[n] \in {"completed", "abandoned", "review_required"}
    BY <1>1 DEF MarkRetry, KeepsRows
<1>2. CASE d.att[n] \notin {"completed", "abandoned", "review_required"}
    <2> DEFINE e == MarkRetry(d, n)
    <2>1. /\ e.att = [d.att EXCEPT ![n] = "retry_required"]
          /\ e.row = d.row /\ e.pid = d.pid /\ e.last = d.last
        BY <1>2 DEF MarkRetry, DInv, Database
    <2>2. d.att[n] \in Retryable /\ "retry_required" \in Retryable
        BY <1>2 DEF DInv, Database, AttemptStatus, OpenAttempt, Retryable
    <2> HIDE DEF e
    <2>3. LinkInv(e, pv, off) /\ KeepsRows(d, e)
        BY <2>1, <2>2, ReopenLinks
    <2> QED
        BY <2>3 DEF e
<1> QED
    BY <1>1, <1>2

\* mark_payment_creation_review_required, of a payment the provider has.
LEMMA MarkReviewLinks ==
    ASSUME NEW d, NEW pv, NEW off, NEW n \in Attempts,
           DInv(d, pv), LinkInv(d, pv, off), d.att[n] # "none", pv[n] # "none"
    PROVE  LinkInv(MarkReview(d, n), pv, off) /\ KeepsRows(d, MarkReview(d, n))
<1>1. CASE d.att[n] \in {"completed", "abandoned"}
    BY <1>1 DEF MarkReview, KeepsRows
<1>2. CASE d.att[n] \notin {"completed", "abandoned"}
    <2>1. d.att[n] \in OpenAttempt /\ d \in Database
        BY <1>2 DEF DInv, Database, AttemptStatus
    <2>2. MarkReview(d, n) = CloseAttempt(d, n, "review_required", n)
        BY <1>2 DEF MarkReview
    <2> QED
        BY <2>1, <2>2, CloseLinks
<1> QED
    BY <1>1, <1>2

\* begin_payment_creation claims a new attempt only once the newest known
\* payment can no longer take money.
LEMMA ClaimLinks ==
    ASSUME NEW d, NEW pv, NEW off, DInv(d, pv), LinkInv(d, pv, off),
           ~BeginRaises(d), ReusablePayment(d) = NoPayment,
           ClaimedAttempt(d) \in Attempts
    PROVE  LinkInv(Claim(d), pv, off) /\ KeepsRows(d, Claim(d))
<1> DEFINE n == ClaimedAttempt(d)
           e == Claim(d)
<1>1. /\ e.att = [d.att EXCEPT ![n] = "creating"] /\ e.last = n
      /\ e.row = d.row /\ e.pid = d.pid
      /\ d.att \in [Attempts -> AttemptStatus]
      /\ d.row \in [Attempts -> ProviderStatus \cup {"none"}]
      /\ d.last \in PaymentIds
    BY DEF Claim, DInv, Database
<1> HIDE DEF e
<1>2. CASE d.last # 0 /\ d.att[d.last] \in Retryable
    <2>1. n = d.last /\ "creating" \in Retryable
        BY <1>2 DEF ClaimedAttempt, Retryable
    <2> HIDE DEF n
    <2>2. LinkInv(e, pv, off) /\ KeepsRows(d, e)
        BY <1>1, <1>2, <2>1, ReopenLinks DEF n
    <2> QED
        BY <2>2 DEF e
<1>3. CASE ~(d.last # 0 /\ d.att[d.last] \in Retryable)
    <2>1. n = d.last + 1
        BY <1>3 DEF ClaimedAttempt
    <2>2. n # d.last
        BY <1>1, <2>1 DEF PaymentIds
    <2>3. \A m \in Attempts : ~(Known(d, off, m) /\ pv[m] \in Live)
        <3> SUFFICES ASSUME NEW m \in Attempts, Known(d, off, m), pv[m] \in Live
                     PROVE  FALSE
            OBVIOUS
        <3>1. m = d.last /\ d.att[m] \in {"completed", "review_required"} /\ d.pid[m] = m
            BY DEF LinkInv
        <3>2. d.last # 0
            BY <3>1 DEF Attempts
        <3>3. d.att[m] = "completed" /\ d.row[m] # "none"
            BY <3>1, <3>2 DEF BeginRaises
        <3>4. d.row[m] \notin Live
            BY <3>1, <3>2, <3>3 DEF ReusablePayment, NoPayment
        <3>5. d.row[m] = "canceled"
            BY <1>1, <3>3, <3>4 DEF ProviderStatus
        <3>6. pv[m] = "canceled"
            BY <3>5 DEF DInv, RowSound, Final
        <3> QED
            BY <3>6 DEF Live, Active
    <2>4. KeepsRows(d, e)
        BY <1>1 DEF KeepsRows
    <2>5. LinkInv(e, pv, off)
        BY <1>1, <2>3 DEF LinkInv, Known
    <2> QED
        BY <2>4, <2>5 DEF e
<1> QED
    BY <1>2, <1>3

\* The provider moves on.
LEMMA ProviderLinks ==
    ASSUME NEW d, NEW pv, NEW pw, NEW off, LinkInv(d, pv, off), MovesOn(pv, pw)
    PROVE  LinkInv(d, pw, off)
BY DEF LinkInv, MovesOn, ProviderStatus, Live, Active

-----------------------------------------------------------------------------
(***************************************************************************)
(* The actions.                                                            *)
(***************************************************************************)

\* The parts of a step that nobody else can disturb.
LEMMA LinksFrame ==
    ASSUME Inv, Links,
           LinkInv(db', prov', offered'), KeepsRows(db, db'), MovesOn(prov, prov'),
           offered \subseteq offered',
           \A m \in sent' : m \in sent \/ SentLinks(m, prov', offered'),
           \A h \in hooks' : h \in hooks \/ HookLinks(h, offered'),
           \A c \in Clients : req'[c] = req[c] \/ RequestLinks(req'[c], db', prov'),
           job' = job \/ JobLinks(job', db')
    PROVE  Links'
<1>1. \A c \in Clients : RequestLinks(req'[c], db', prov')
    <2> SUFFICES ASSUME NEW c \in Clients, req'[c] = req[c]
                 PROVE  RequestLinks(req[c], db', prov')
        OBVIOUS
    <2>1. RequestLinks(req[c], db, prov) /\ (req[c].pc # "idle" => req[c].id \in Attempts)
        BY DEF Links, Inv, TypeOK
    <2> QED
        BY <2>1 DEF RequestLinks, KeepsRows, MovesOn, ProviderStatus, Live, Active
<1>2. \A m \in sent' : SentLinks(m, prov', offered')
    <2> SUFFICES ASSUME NEW m \in sent PROVE SentLinks(m, prov', offered')
        OBVIOUS
    <2>1. m[1] \in Attempts /\ SentLinks(m, prov, offered)
        BY DEF Links, Inv, TypeOK
    <2> QED
        BY <2>1 DEF SentLinks, MovesOn, Active
<1>3. \A h \in hooks' : HookLinks(h, offered')
    BY DEF Links, HookLinks
<1>4. JobLinks(job', db')
    BY DEF Links, JobLinks, Inv, TypeOK, KeepsRows
<1> QED
    BY <1>1, <1>2, <1>3, <1>4 DEF Links

\* A step of a request towards the database.
LEMMA RequestLinksFrame ==
    ASSUME Inv, Links, NEW c \in Clients, NEW r,
           req' = [req EXCEPT ![c] = r],
           LinkInv(db', prov, offered'), KeepsRows(db, db'), RequestLinks(r, db', prov),
           offered \subseteq offered',
           UNCHANGED <<prov, sent, hooks, job>>
    PROVE  Links'
<1>1. req \in [Clients -> Request] /\ MovesOn(prov, prov')
    BY DEF Inv, TypeOK, MovesOn
<1>2. \A k \in Clients : req'[k] = req[k] \/ RequestLinks(req'[k], db', prov')
    BY <1>1
<1> QED
    BY <1>1, <1>2, LinksFrame

\* A request that ends keeps the links, having nothing left to observe.
LEMMA DoneLinks ==
    ASSUME Inv, Links, NEW c \in Clients, Done(c),
           LinkInv(db', prov, offered'), KeepsRows(db, db'),
           offered \subseteq offered',
           UNCHANGED <<prov, sent, hooks, job>>
    PROVE  Links'
<1>1. RequestLinks(IdleRequest, db', prov)
    BY DEF RequestLinks, IdleRequest
<1> QED
    BY <1>1, RequestLinksFrame DEF Done

\* What holds of a request between two of its steps.
LEMMA RequestHas ==
    ASSUME Inv, Links, NEW c \in Clients
    PROVE  /\ db \in Database /\ DInv(db, prov) /\ LinkInv(db, prov, offered)
           /\ RequestInv(req[c], db, prov) /\ RequestLinks(req[c], db, prov)
BY DEF Inv, DInv, Links

\* begin_payment_creation.
LEMMA BeginLinks ==
    ASSUME Inv, Links, NEW c \in Clients, BeginExisting(c) \/ BeginClaim(c)
    PROVE  Links'
<1>1. CASE BeginExisting(c)
    <2> DEFINE p == ReusablePayment(db)
               r == [pc |-> "fetch", id |-> p, seen |-> db.row[p]]
    <2>1. db.row[p] \in Live
        BY <1>1 DEF BeginExisting, ReusablePayment
    <2>2. RequestLinks(r, db, prov)
        BY <2>1 DEF RequestLinks, Live, Active
    <2> QED
        BY <1>1, <2>2, RequestLinksFrame, RequestHas DEF BeginExisting, Goto, KeepsRows
<1>2. CASE BeginClaim(c)
    <2> DEFINE r == [pc |-> "post", id |-> ClaimedAttempt(db), seen |-> "none"]
    <2>1. RequestLinks(r, db', prov)
        BY DEF RequestLinks
    <2>2. LinkInv(db', prov, offered) /\ KeepsRows(db, db')
        BY <1>2, ClaimLinks, RequestHas DEF BeginClaim
    <2> QED
        BY <1>2, <2>1, <2>2, RequestLinksFrame DEF BeginClaim, Goto
<1> QED
    BY <1>1, <1>2

\* The provider is asked about a payment to reuse, or its stored link is given.
LEMMA FetchLinks ==
    ASSUME Inv, Links, NEW c \in Clients, FetchExisting(c) \/ FallbackToStored(c)
    PROVE  Links'
<1>1. /\ req[c].id \in Attempts /\ db.row[req[c].id] # "none" /\ db' = db
    BY RequestHas DEF FetchExisting, FallbackToStored, RequestInv, RequestLinks
<1>2. CASE FetchExisting(c)
    <2> DEFINE r == [pc |-> "apply", id |-> req[c].id, seen |-> prov[req[c].id]]
    <2>1. RequestLinks(r, db, prov)
        BY <1>1 DEF RequestLinks
    <2> QED
        BY <1>1, <1>2, <2>1, RequestLinksFrame, RequestHas
        DEF FetchExisting, Goto, KeepsRows
<1>3. CASE FallbackToStored(c)
    <2>1. LinkInv(db, prov, offered \cup {req[c].id})
        BY <1>1, OfferLinks, RequestHas DEF Known
    <2> QED
        BY <1>1, <1>3, <2>1, DoneLinks DEF FallbackToStored, KeepsRows
<1> QED
    BY <1>2, <1>3

\* _reconcile_existing_payment.
LEMMA ReconcileLinks ==
    ASSUME Inv, Links, NEW c \in Clients, ReconcileExisting(c)
    PROVE  Links'
<1> DEFINE p == req[c].id
           s == req[c].seen
           d == [db EXCEPT !.row[p] = s]
<1>1. /\ p \in Attempts /\ s \in ProviderStatus /\ db.row[p] # "none"
      /\ s \in Final => prov[p] = s
    BY RequestHas DEF ReconcileExisting, RequestInv, RequestLinks, ProviderStatus, Live
<1>2. DInv(d, prov) /\ d.row[p] # "none" /\ d \in Database
    BY <1>1, RequestHas, SetRowOK DEF DInv, Database, ProviderStatus, Live, Active
<1>3. LinkInv(d, prov, offered) /\ KeepsRows(db, d)
    <2>1. /\ d.row = [db.row EXCEPT ![p] = s]
          /\ d.att = db.att /\ d.pid = db.pid /\ d.last = db.last
        BY RequestHas DEF Database
    <2> HIDE DEF d
    <2> QED
        BY <1>1, <2>1, RequestHas, RowLinks DEF Known
<1>4. CASE s \in Active
    <2>1. db' = CompleteFromProvider(d, p) /\ Done(c) /\ offered' = offered \cup {p}
        BY <1>4 DEF ReconcileExisting, Active
    <2> HIDE DEF d
    <2>2. LinkInv(db', prov, offered) /\ KeepsRows(d, db')
        BY <1>1, <1>2, <1>3, <2>1, CompleteLinks
    <2>3. LinkInv(db', prov, offered') /\ KeepsRows(db, db')
        BY <1>1, <1>2, <1>3, <2>1, <2>2, OfferLinks DEF Known, KeepsRows
    <2> QED
        BY <2>1, <2>3, DoneLinks DEF ReconcileExisting
<1>5. CASE s = "succeeded"
    <2>1. Done(c) /\ offered' = offered
        BY <1>5 DEF ReconcileExisting, Active
    <2>2. CASE SettleRaises(d)
        <3>1. db' = db
            BY <1>5, <2>2 DEF ReconcileExisting, Active
        <3> QED
            BY <2>1, <3>1, DoneLinks, RequestHas DEF ReconcileExisting, KeepsRows
    <2>3. CASE ~SettleRaises(d)
        <3>1. db' = CompleteFromProvider(Settle(d), p)
            BY <1>5, <2>3 DEF ReconcileExisting, Active
        <3> HIDE DEF d
        <3>2. DInv(Settle(d), prov)
            BY <1>1, <1>2, <1>5, <2>3, SettleOK DEF Taken, Final
        <3>3. LinkInv(Settle(d), prov, offered) /\ KeepsRows(d, Settle(d))
            BY <1>2, <1>3, StatusFunctions, SameRowsOK
        <3>4. LinkInv(db', prov, offered) /\ KeepsRows(Settle(d), db')
            BY <1>1, <3>1, <3>2, <3>3, CompleteLinks
        <3>5. KeepsRows(db, db')
            BY <1>3, <3>3, <3>4 DEF KeepsRows
        <3> QED
            BY <2>1, <3>4, <3>5, DoneLinks DEF ReconcileExisting
    <2> QED
        BY <2>2, <2>3
<1>6. CASE s = "canceled"
    <2> DEFINE r == [pc |-> "again", id |-> p, seen |-> "none"]
    <2>1. db' = d /\ offered' = offered /\ req' = [req EXCEPT ![c] = r]
        BY <1>6 DEF ReconcileExisting, Active, Goto
    <2>2. RequestLinks(r, db', prov)
        BY DEF RequestLinks
    <2> QED
        BY <1>3, <2>1, <2>2, RequestLinksFrame DEF ReconcileExisting
<1> QED
    BY <1>4, <1>5, <1>6 DEF ReconcileExisting

\* The provider call of a creation attempt.
LEMMA PostLinks ==
    ASSUME Inv, Links, NEW c \in Clients, Post(c) \/ PostRetryable(c) \/ PostUncertain(c)
    PROVE  Links'
<1> DEFINE n == req[c].id
<1>1. /\ n \in Attempts /\ db.att[n] # "none" /\ prov' \in {prov, Posted(n)}
      /\ UNCHANGED <<sent, offered, hooks, job>>
      /\ DInv(db, prov) /\ LinkInv(db, prov, offered)
      /\ req \in [Clients -> Request]
      /\ prov \in [Attempts -> ProviderStatus \cup {"none"}]
    BY RequestHas
    DEF Post, PostRetryable, PostUncertain, RequestInv, Claimed, Inv, TypeOK
<1>2. MovesOn(prov, prov')
    BY <1>1 DEF Posted, MovesOn
<1>3. PICK r : req' = [req EXCEPT ![c] = r] /\ RequestLinks(r, db', prov')
    <2>1. CASE Post(c)
        <3>1. PICK s : Goto(c, "verify", n, s)
            BY <2>1 DEF Post
        <3> DEFINE r == [pc |-> "verify", id |-> n, seen |-> s]
        <3>2. prov'[n] # "none"
            BY <1>1, <2>1 DEF Post, Posted
        <3>3. RequestLinks(r, db', prov')
            BY <3>2 DEF RequestLinks
        <3> QED
            BY <3>1, <3>3 DEF Goto
    <2>2. CASE PostRetryable(c) \/ PostUncertain(c)
        <3>1. RequestLinks(IdleRequest, db', prov')
            BY DEF RequestLinks, IdleRequest
        <3> QED
            BY <2>2, <3>1 DEF PostRetryable, PostUncertain, Done
    <2> QED
        BY <2>1, <2>2
<1>4. \A k \in Clients : req'[k] = req[k] \/ RequestLinks(req'[k], db', prov')
    BY <1>1, <1>3
<1>5. LinkInv(db', prov, offered) /\ KeepsRows(db, db')
    <2>1. db' \in {db, MarkRetry(db, n)}
        BY DEF Post, PostRetryable, PostUncertain
    <2> QED
        BY <1>1, <2>1, MarkRetryLinks DEF KeepsRows
<1>6. LinkInv(db', prov', offered')
    BY <1>1, <1>2, <1>5, ProviderLinks
<1> QED
    BY <1>1, <1>2, <1>4, <1>5, <1>6, LinksFrame

\* The created payment is verified.
LEMMA VerifyLinks ==
    ASSUME Inv, Links, NEW c \in Clients, VerifyCreated(c)
    PROVE  Links'
<1> DEFINE n == req[c].id
           s == req[c].seen
<1>1. PICK pc \in {"finalize", "review"} : Goto(c, pc, n, s)
    BY DEF VerifyCreated
<1> DEFINE r == [pc |-> pc, id |-> n, seen |-> s]
<1>2. RequestLinks(r, db, prov)
    BY RequestHas DEF VerifyCreated, RequestLinks
<1> QED
    BY <1>1, <1>2, RequestLinksFrame, RequestHas DEF VerifyCreated, Goto, KeepsRows

\* finalize_payment_creation, before the payment is settled: its payment has a
\* row afterwards.
LEMMA FinalizedLinks ==
    ASSUME NEW d, NEW pv, NEW off, NEW n \in Attempts, NEW s \in ProviderStatus,
           DInv(d, pv), LinkInv(d, pv, off),
           d.att[n] # "none", pv[n] # "none", s \in Final => pv[n] = s,
           ~FinalizeRaises(d, n)
    PROVE  /\ LinkInv(Finalized(d, n, s), pv, off)
           /\ KeepsRows(d, Finalized(d, n, s))
           /\ FinalizedPayment(d, n) \in Attempts
           /\ Finalized(d, n, s).row[FinalizedPayment(d, n)] # "none"
<1> DEFINE r == IF d.row[n] \in Final THEN d ELSE RecordPayment(d, n, s)
           closed(o) == CloseAttempt(r, n, o, n)
<1>1. CASE d.att[n] = "completed"
    <2>1. /\ Finalized(d, n, s) = d
          /\ FinalizedPayment(d, n) = d.pid[n] /\ d.row[d.pid[n]] # "none"
          /\ d.pid[n] \in Attempts
        BY <1>1 DEF Finalized, FinalizedPayment, FinalizeRaises, DInv, AttemptOrder
    <2> QED
        BY <2>1 DEF KeepsRows
<1>2. CASE d.att[n] # "completed"
    <2>1. FinalizedPayment(d, n) = n
        BY <1>2 DEF FinalizedPayment
    <2>2. d \in Database /\ DInv(r, pv)
        BY RecordPaymentOK DEF DInv
    <2>3. /\ r \in Database /\ r.att = d.att /\ r.pid = d.pid /\ r.last = d.last
          /\ \A m \in Attempts \ {n} : r.row[m] = d.row[m]
          /\ r.row[n] # "none"
        BY <2>2 DEF DInv, RecordPayment, Database, Final, ProviderStatus, Live, Active
    <2>4. d.att[n] \in OpenAttempt
        BY <1>2, <2>2 DEF FinalizeRaises, Database, AttemptStatus
    <2> HIDE DEF r
    <2>5. \A o \in {"completed", "abandoned", "review_required"} :
             (o = "abandoned" => s = "canceled") =>
                 /\ closed(o) \in Database /\ closed(o).row[n] # "none"
                 /\ LinkInv(closed(o), pv, off) /\ KeepsRows(d, closed(o))
        <3> SUFFICES ASSUME NEW o \in {"completed", "abandoned", "review_required"},
                            o = "abandoned" => s = "canceled"
                     PROVE  /\ closed(o) \in Database /\ closed(o).row[n] # "none"
                            /\ LinkInv(closed(o), pv, off) /\ KeepsRows(d, closed(o))
            OBVIOUS
        <3>1. closed(o) \in Database /\ closed(o).row = r.row
            BY <2>2, <2>3, <2>4, CloseAttemptOK DEF DInv, SameOrder
        <3>2. o = "abandoned" => pv[n] = "canceled"
            BY DEF Final
        <3>3. LinkInv(closed(o), pv, off) /\ KeepsRows(d, closed(o))
            BY <2>3, <2>4, <3>2, CloseLinks
        <3> QED
            BY <2>3, <3>1, <3>3
    <2>6. PICK o \in {"completed", "abandoned", "review_required"}, paid \in BOOLEAN :
             /\ o = "abandoned" => s = "canceled"
             /\ SameRows(closed(o), Finalized(d, n, s))
        <3> DEFINE e == closed("review_required")
                   f == closed("completed")
        <3>1. e \in Database /\ f \in Database
            BY <2>5
        <3>2. /\ SameRows(e, ToReview(e, TRUE, n)) /\ SameRows(e, ToReview(e, FALSE, n))
            <4> HIDE DEF e
            <4> QED
                BY <3>1, StatusFunctions
        <3>3. SameRows(f, [f EXCEPT !.status = "payment_created", !.pay = "payment_created"])
            <4> HIDE DEF f
            <4> QED
                BY <3>1 DEF SameRows, Database
        <3>4. SameRows(f, f) /\ SameRows(closed("abandoned"), closed("abandoned"))
            BY DEF SameRows
        <3>5. CASE d.pay \in Settled /\ s = "canceled"
            <4>1. Finalized(d, n, s) = ToReview(e, TRUE, n)
                BY <1>2, <3>5 DEF Finalized, r
            <4> QED
                BY <3>2, <4>1
        <3>6. CASE d.pay \in Settled /\ s # "canceled"
            <4>1. Finalized(d, n, s) = f
                BY <1>2, <3>6 DEF Finalized, r
            <4> QED
                BY <3>4, <4>1
        <3>7. CASE d.pay \notin Settled /\ s = "canceled"
            <4>1. Finalized(d, n, s) = closed("abandoned")
                BY <1>2, <3>7 DEF Finalized, r
            <4> QED
                BY <3>4, <3>7, <4>1
        <3>8. CASE d.pay \notin Settled /\ s # "canceled" /\ ~AwaitingPayment(d)
            <4>1. Finalized(d, n, s) = ToReview(e, s = "succeeded", n)
                BY <1>2, <3>8 DEF Finalized, r
            <4>2. (s = "succeeded") \in {TRUE, FALSE}
                OBVIOUS
            <4> HIDE DEF e
            <4>3. SameRows(e, ToReview(e, s = "succeeded", n))
                BY <3>1, StatusFunctions
            <4> QED
                BY <4>1, <4>3 DEF e
        <3>9. CASE d.pay \notin Settled /\ s # "canceled" /\ AwaitingPayment(d)
            <4>1. Finalized(d, n, s)
                  = [f EXCEPT !.status = "payment_created", !.pay = "payment_created"]
                BY <1>2, <3>9 DEF Finalized, r
            <4> QED
                BY <3>3, <4>1
        <3> QED
            BY <3>5, <3>6, <3>7, <3>8, <3>9
    <2>7. /\ LinkInv(closed(o), pv, off) /\ KeepsRows(d, closed(o))
          /\ closed(o).row[n] # "none"
        BY <2>5, <2>6
    <2>8. LinkInv(Finalized(d, n, s), pv, off) /\ Finalized(d, n, s).row = closed(o).row
        BY <2>6, <2>7, SameRowsOK DEF SameRows
    <2> QED
        BY <2>1, <2>7, <2>8 DEF KeepsRows
<1> QED
    BY <1>1, <1>2

\* finalize_payment_creation.
LEMMA FinalizeLinks ==
    ASSUME Inv, Links, NEW c \in Clients, Finalize(c)
    PROVE  Links'
<1> DEFINE n == req[c].id
           s == req[c].seen
           p == FinalizedPayment(db, n)
           d == Finalized(db, n, s)
           inReview == d.status = "payment_review_required" \/ d.pay \in ReviewPayment
           settles == ~inReview /\ d.row[p] = "succeeded"
<1>1. /\ n \in Attempts /\ s \in ProviderStatus /\ db.att[n] # "none"
      /\ s \in Final => prov[n] = s
      /\ prov[n] # "none"
    BY RequestHas DEF Finalize, RequestInv, RequestLinks, Claimed
<1>2. CASE FinalizeRaises(db, n) \/ (settles /\ SettleRaises(d))
    <2> DEFINE r == [pc |-> "review", id |-> n, seen |-> s]
    <2>1. /\ req' = [req EXCEPT ![c] = r] /\ db' = db /\ offered' = offered
          /\ UNCHANGED <<prov, sent, hooks, job>>
        BY <1>2 DEF Finalize, Goto
    <2>2. RequestLinks(r, db, prov)
        BY <1>1 DEF RequestLinks
    <2> HIDE DEF r
    <2> QED
        BY <2>1, <2>2, RequestLinksFrame, RequestHas DEF KeepsRows
<1>3. CASE ~(FinalizeRaises(db, n) \/ (settles /\ SettleRaises(d)))
    <2>1. /\ db' \in {Settle(d), d}
          /\ offered' \in {offered, offered \cup {p}}
          /\ Done(c)
          /\ UNCHANGED <<prov, sent, hooks, job>>
        BY <1>3 DEF Finalize
    <2>2. /\ LinkInv(d, prov, offered) /\ KeepsRows(db, d)
          /\ p \in Attempts /\ d.row[p] # "none"
        BY <1>1, <1>3, RequestHas, FinalizedLinks
    <2>3. d \in Database
        BY <1>1, <1>3, RequestHas, FinalizedOK DEF DInv
    <2> HIDE DEF d, p
    <2>4. SameRows(d, db')
        BY <2>1, <2>3, StatusFunctions DEF SameRows
    <2>5. LinkInv(db', prov, offered) /\ KeepsRows(d, db')
        BY <2>2, <2>4, SameRowsOK
    <2>6. LinkInv(db', prov, offered')
        BY <2>1, <2>2, <2>4, <2>5, OfferLinks DEF SameRows, Known
    <2>7. KeepsRows(db, db')
        BY <2>2, <2>5 DEF KeepsRows
    <2>8. offered \subseteq offered'
        BY <2>1
    <2> QED
        BY <2>1, <2>6, <2>7, <2>8, DoneLinks
<1> QED
    BY <1>2, <1>3

\* _persist_creation_review.
LEMMA PersistCreationReviewLinks ==
    ASSUME Inv, Links, NEW c \in Clients, PersistCreationReview(c)
    PROVE  Links'
<1> DEFINE n == req[c].id
           paid == req[c].seen = "succeeded" \/ db.pay \in Settled
           e == MarkReview(db, n)
<1>1. n \in Attempts /\ db.att[n] # "none" /\ prov[n] # "none"
    BY RequestHas DEF PersistCreationReview, RequestInv, RequestLinks, Claimed
<1>2. /\ LinkInv(e, prov, offered) /\ KeepsRows(db, e) /\ e \in Database
    BY <1>1, RequestHas, MarkReviewLinks, MarkReviewOK DEF DInv
<1>3. db' \in {db, ToReview(e, paid, n)}
    BY DEF PersistCreationReview
<1>4. LinkInv(db', prov, offered) /\ KeepsRows(db, db')
    <2> HIDE DEF e, paid
    <2>1. LinkInv(ToReview(e, paid, n), prov, offered) /\ KeepsRows(e, ToReview(e, paid, n))
        BY <1>2, StatusFunctions, SameRowsOK
    <2> QED
        BY <1>2, <1>3, <2>1, RequestHas DEF KeepsRows
<1> QED
    BY <1>4, DoneLinks DEF PersistCreationReview

\* A step that leaves the requests and the provider alone.
LEMMA HandlerLinks ==
    ASSUME Inv, Links, LinkInv(db', prov, offered), KeepsRows(db, db'),
           \A h \in hooks' : h \in hooks \/ HookLinks(h, offered),
           job' = job \/ JobLinks(job', db'),
           UNCHANGED <<prov, sent, offered, req>>
    PROVE  Links'
<1>1. MovesOn(prov, prov')
    BY DEF MovesOn
<1> QED
    BY <1>1, LinksFrame

\* What a webhook handler commits.
LEMMA NotifiedLinks ==
    ASSUME NEW d, NEW pv, NEW off, NEW h \in Hook,
           DInv(d, pv), HookInv(h, pv), HookLinks(h, off), LinkInv(d, pv, off)
    PROVE  LinkInv(Notified(d, h), pv, off) /\ KeepsRows(d, Notified(d, h))
<1> DEFINE p == h.id
           m == <<p, h.event>>
           r1 == RecordPayment(d, p, h.seen)
           r2 == CompleteFromProvider(r1, p)
           r == [r2 EXCEPT !.processed = @ \cup {m}]
<1>1. p \in Attempts /\ h.seen \in ProviderStatus /\ d \in Database
    BY DEF Hook, DInv
<1>2. DInv(r1, pv)
    BY <1>1, RecordPaymentOK DEF HookInv
<1>3. LinkInv(r1, pv, off) /\ KeepsRows(d, r1)
    <2>1. /\ r1.row = [d.row EXCEPT ![p] = h.seen]
          /\ r1.att = d.att /\ r1.pid = d.pid /\ r1.last = d.last
        BY <1>1 DEF RecordPayment, Database
    <2>2. Known(d, off, p) \/ pv[p] = "canceled"
        BY DEF HookLinks, HookInv, Final, Known
    <2> HIDE DEF r1
    <2> QED
        BY <1>1, <2>1, <2>2, RowLinks
<1>4. LinkInv(r2, pv, off) /\ KeepsRows(d, r2) /\ DInv(r2, pv)
    <2> HIDE DEF r1
    <2> QED
        BY <1>1, <1>2, <1>3, CompleteLinks, CompleteOK DEF KeepsRows
<1>5. SameRows(r2, r) /\ DInv(r, pv)
    <2>1. m \in Attempts \X Events
        BY DEF Hook
    <2> HIDE DEF r2
    <2> QED
        BY <1>1, <1>4, <2>1, StatusFunctions, RecordEventOK DEF DInv
<1>6. \E x, y : Notified(d, h) \in {d, r, ToReview(r, x, y), Settle(r), Cancel(r),
                                    [r EXCEPT !.cases = @ \cup {y}]}
    <2>1. Notified(d, h) \in {d, r, ToReview(r, TRUE, p), ToReview(r, FALSE, p), Settle(r),
                              Cancel(r), [r EXCEPT !.cases = @ \cup {p}]}
        BY DEF Notified
    <2> QED
        BY <2>1
<1>7. Notified(d, h) = d \/ SameRows(r2, Notified(d, h))
    <2>1. PICK x, y : Notified(d, h) \in {d, r, ToReview(r, x, y), Settle(r), Cancel(r),
                                          [r EXCEPT !.cases = @ \cup {y}]}
        BY <1>6
    <2> HIDE DEF r, r2
    <2>2. r \in Database
        BY <1>5 DEF DInv
    <2>3. /\ SameRows(r, ToReview(r, x, y)) /\ SameRows(r, Settle(r))
          /\ SameRows(r, Cancel(r)) /\ SameRows(r, [r EXCEPT !.cases = @ \cup {y}])
        BY <2>2, StatusFunctions
    <2> QED
        BY <1>5, <2>1, <2>3 DEF SameRows
<1> HIDE DEF r2
<1>8. CASE SameRows(r2, Notified(d, h))
    BY <1>4, <1>8, SameRowsOK DEF KeepsRows
<1> QED
    BY <1>7, <1>8 DEF KeepsRows

\* A notification is taken up and committed.
LEMMA HookStepLinks ==
    ASSUME Inv, Links,
           \/ \E p \in Attempts, e \in Events : HookFetch(p, e)
           \/ \E h \in hooks : HookCommit(h) \/ HookFails(h)
    PROVE  Links'
<1>1. DInv(db, prov) /\ LinkInv(db, prov, offered)
    BY DEF Inv, Links
<1>2. CASE \E p \in Attempts, e \in Events : HookFetch(p, e)
    <2>1. PICK p \in Attempts, e \in Events : HookFetch(p, e)
        BY <1>2
    <2>2. SentLinks(<<p, e>>, prov, offered)
        BY <2>1 DEF HookFetch, Links
    <2>3. HookLinks([id |-> p, event |-> e, seen |-> prov[p]], offered)
        BY <2>2 DEF SentLinks, HookLinks
    <2> QED
        BY <1>1, <2>1, <2>3, HandlerLinks DEF HookFetch, KeepsRows
<1>3. CASE \E h \in hooks : HookCommit(h)
    <2>1. PICK h \in hooks : HookCommit(h)
        BY <1>3
    <2>2. h \in Hook /\ HookInv(h, prov) /\ HookLinks(h, offered)
        BY DEF Inv, TypeOK, Links
    <2>3. LinkInv(db', prov, offered) /\ KeepsRows(db, db')
        BY <1>1, <2>1, <2>2, NotifiedLinks DEF HookCommit
    <2> QED
        BY <2>1, <2>3, HandlerLinks DEF HookCommit
<1>4. CASE \E h \in hooks : HookFails(h)
    BY <1>1, <1>4, HandlerLinks DEF HookFails, KeepsRows
<1> QED
    BY <1>2, <1>3, <1>4

\* The reconciliation job.
LEMMA JobLinksOK ==
    ASSUME Inv, Links, JobStep
    PROVE  Links'
<1>1. DInv(db, prov) /\ LinkInv(db, prov, offered) /\ db \in Database
    BY DEF Inv, DInv, Links
<1>2. JobLinks(IdleJob, db')
    BY DEF JobLinks, IdleJob
<1>3. CASE JobFetch
    <2>1. db' = db /\ job'.id = db.latest /\ db.row[db.latest] \in Live
        BY <1>3 DEF JobFetch, Reconcilable
    <2>2. JobLinks(job', db')
        BY <2>1 DEF JobLinks, Live, Active
    <2> QED
        BY <1>1, <1>3, <2>1, <2>2, HandlerLinks DEF JobFetch, KeepsRows
<1>4. CASE JobApply \/ JobPersist
    <2> DEFINE p == job.id
               s == job.seen
               d == [db EXCEPT !.row[p] = s]
    <2>1. p \in Attempts /\ db.row[p] # "none" /\ JobInv(job, prov)
        BY <1>4 DEF JobApply, JobPersist, Inv, TypeOK, Links, JobLinks
    <2>2. \/ db' = db
          \/ /\ s \in ProviderStatus
             /\ db' \in {d, Settle(d), Cancel(d), ToReview(d, job.paid, p)}
        BY <1>4, <2>1 DEF JobApply, JobPersist, JobInv, ProviderStatus, Live
    <2>3. job' \in {IdleJob, [job EXCEPT !.pc = "persist", !.paid = Cancelled(d)],
                    [job EXCEPT !.pc = "persist", !.paid = FALSE]}
        BY <1>4 DEF JobApply, JobPersist
    <2>4. s \in ProviderStatus =>
             d \in Database /\ LinkInv(d, prov, offered) /\ KeepsRows(db, d)
        <3>1. /\ d.row = [db.row EXCEPT ![p] = s]
              /\ d.att = db.att /\ d.pid = db.pid /\ d.last = db.last
            BY <1>1 DEF Database
        <3>2. s \in ProviderStatus => d \in Database
            BY <1>1, <2>1 DEF Database
        <3> HIDE DEF d
        <3> QED
            BY <1>1, <2>1, <3>1, <3>2, RowLinks DEF Known
    <2>5. LinkInv(db', prov, offered) /\ KeepsRows(db, db')
        <3>1. CASE db' = db
            BY <1>1, <3>1 DEF KeepsRows
        <3>2. CASE /\ s \in ProviderStatus
                   /\ db' \in {d, Settle(d), Cancel(d), ToReview(d, job.paid, p)}
            <4>1. d \in Database /\ LinkInv(d, prov, offered) /\ KeepsRows(db, d)
                BY <2>4, <3>2
            <4> HIDE DEF d
            <4>2. SameRows(d, db')
                BY <3>2, <4>1, StatusFunctions DEF SameRows
            <4> QED
                BY <4>1, <4>2, SameRowsOK DEF KeepsRows
        <3> QED
            BY <2>2, <3>1, <3>2
    <2>6. JobLinks(job', db')
        <3>1. job' = IdleJob \/ job'.id = job.id
            BY <2>3 DEF Inv, TypeOK, Job
        <3> QED
            BY <1>2, <2>1, <2>5, <3>1 DEF JobLinks, KeepsRows
    <2> QED
        BY <1>4, <2>5, <2>6, HandlerLinks DEF JobApply, JobPersist
<1>5. CASE JobStops
    BY <1>1, <1>2, <1>5, HandlerLinks DEF JobStops, KeepsRows
<1> QED
    BY <1>3, <1>4, <1>5 DEF JobStep

\* Manual cancellation and a lease that runs out.
LEMMA OtherLinks ==
    ASSUME Inv, Links, ManualCancel \/ \E n \in Attempts : LeaseExpires(n)
    PROVE  Links'
<1>1. LinkInv(db, prov, offered) /\ db \in Database
    BY DEF Inv, DInv, Links
<1>2. SameRows(db, db')
    BY <1>1, StatusFunctions DEF ManualCancel, LeaseExpires
<1> QED
    BY <1>1, <1>2, SameRowsOK, HandlerLinks DEF ManualCancel, LeaseExpires

\* The provider moves an unfinished payment.
LEMMA ProviderStepLinks ==
    ASSUME Inv, Links, NEW n \in Attempts, Authorise(n) \/ Succeed(n) \/ Expire(n)
    PROVE  Links'
<1>1. PICK to \in ProviderStatus, news \in Events :
         ProviderMoves(n, Active, to, news) /\ (n \in offered \/ to = "canceled")
    BY DEF Authorise, Succeed, Expire, ProviderMoves, ProviderStatus, Live, Active, Events
<1>2. prov \in [Attempts -> ProviderStatus \cup {"none"}]
    BY DEF Inv, TypeOK
<1>3. MovesOn(prov, prov')
    BY <1>1, <1>2 DEF ProviderMoves, MovesOn
<1>4. LinkInv(db', prov', offered') /\ KeepsRows(db, db')
    BY <1>1, <1>3, ProviderLinks DEF ProviderMoves, Links, KeepsRows
<1>5. SentLinks(<<n, news>>, prov', offered')
    BY <1>1, <1>2 DEF ProviderMoves, SentLinks
<1> QED
    BY <1>1, <1>3, <1>4, <1>5, LinksFrame DEF ProviderMoves

-----------------------------------------------------------------------------
(***************************************************************************)
(* The theorems.                                                           *)
(***************************************************************************)

\* Initially nobody knows of any payment.
LEMMA InitLinks == Init => Links
BY DEF Init, Links, LinkInv, Known, RequestLinks, SentLinks, HookLinks, JobLinks,
       IdleRequest, IdleJob

\* Every step keeps what is known of the payments.
LEMMA LinksStep ==
    ASSUME Inv, Links, [Next]_vars
    PROVE  Links'
<1>1. ASSUME NEW c \in Clients, RequestStep(c) PROVE Links'
    <2>1. CASE RequestStops(c)
        BY <2>1, DoneLinks, RequestHas DEF RequestStops, KeepsRows
    <2> QED
        BY <1>1, <2>1, BeginLinks, FetchLinks, ReconcileLinks, PostLinks, VerifyLinks,
           FinalizeLinks, PersistCreationReviewLinks
        DEF RequestStep
<1>2. ASSUME NEW n \in Attempts, Authorise(n) \/ Succeed(n) \/ Expire(n) PROVE Links'
    BY <1>2, ProviderStepLinks
<1>3. CASE JobStep
    BY <1>3, JobLinksOK
<1>4. CASE UNCHANGED vars
    BY <1>4 DEF vars, Links
<1> QED
    BY <1>1, <1>2, <1>3, <1>4, HookStepLinks, OtherLinks DEF Next

\* What is known of the payments holds in every reachable state.
THEOREM LinksInvariance == Spec => []Links
<1>1. Inv /\ Links /\ [Next]_vars => Links'
    BY LinksStep
<1> QED
    BY <1>1, InitLinks, Invariance, PTL DEF Spec

\* However requests, retries, webhooks and the job interleave, a customer never
\* holds links to two payments that can both take money: begin_payment_creation
\* gives a new attempt out only when the last known payment is dead.
THEOREM NoDoubleChargeAlways == Spec => []NoDoubleCharge
<1>1. TypeOK /\ Links => NoDoubleCharge
    BY DEF TypeOK, NoDoubleCharge, Links, LinkInv, Known
<1> QED
    BY <1>1, TypeCorrect, LinksInvariance, PTL

=============================================================================
