------------------------------- MODULE Pilot --------------------------------
(***************************************************************************)
(* The controlled pilot: the row that opens checkout for the first orders  *)
(* only, the slots it gives them, the signed control file its operators    *)
(* keep, and what stops it.                                                *)
(*                                                                         *)
(* A version of the control file stands for its signed content, so its id  *)
(* is its SHA-256.  Admission, releases, allowlist, worker liveness and    *)
(* queue checks are one outcome: such a check may fail at any time.        *)
(* Every transaction on the runtime row locks it; the two that hold the    *)
(* lock over several steps are the checkout and the guard around the call  *)
(* that creates a payment at the provider.                                 *)
(***************************************************************************)
EXTENDS Naturals, Sequences, FiniteSets

CONSTANTS
    Orders,         \* orders a checkout may create
    MaxOrders,      \* slots of the pilot: 20
    Critical,       \* scenarios whose failure stops the pilot
    Operators,      \* processes that record a scenario
    MaxVersions,    \* bound: versions of the control file
    NoOrder, Free, None

ASSUME MaxOrdersAssumption == MaxOrders \in Nat \ {0}
ASSUME CriticalAssumption == Critical \subseteq 1..MaxOrders
ASSUME FreshAssumption == NoOrder \notin Orders \cup {"open", "fail"}

VARIABLES
    row,            \* pilot_runtime_state
    slot,           \* pilot_order_slots: the order of each sequence
    review,         \* pilot orders whose money awaits an operator
    lock,           \* who holds the row's lock over several steps
    sent,           \* orders for which a payment was asked of the provider,
                    \* once or repeatedly
    file,           \* the control file
    minted,         \* versions created so far
    writer,         \* what each operator's process is about to save
    arming,         \* what the arm command read on the host
    backup          \* the database backup of the last deployment

database == <<row, slot, review>>
control == <<file, minted, writer>>
vars == <<row, slot, review, lock, sent, file, minted, writer, arming, backup>>

Scenarios == 1..MaxOrders
Status == {"closed", "active", "stopped", "completed"}
Verdicts == {"open", "fail"} \cup Orders
Versions == [id : Nat, past : Seq(Nat), verdict : [Scenarios -> Verdicts]]
Rows == [status : Status, accepted : 0..MaxOrders, anchor : Versions \cup {None}]
Holders == [kind : {"checkout", "payment"}, order : Orders, read : Versions]
Drafts == [base : Versions, next : [Scenarios -> Verdicts]]
ASSUME NoneAssumption == None \notin Versions

Taken == {n \in Scenarios : slot[n] # NoOrder}
Admitted == {slot[n] : n \in Taken}

\* Types, and what check_pilot_runtime_integrity.py and the tables demand.
TypeOK ==
    /\ row \in Rows
    /\ slot \in [Scenarios -> Orders \cup {NoOrder}]
    /\ review \subseteq Orders /\ sent \subseteq Orders
    /\ lock \in Holders \cup {Free}
    /\ file \in Versions
    /\ minted \in Nat
    /\ writer \in [Operators -> Drafts \cup {None}]
    /\ arming \in Versions \cup {None}
    /\ backup \in [row : Rows, slot : [Scenarios -> Orders \cup {NoOrder}],
                   review : SUBSET Orders] \cup {None}
    /\ Taken = 1..row.accepted
    /\ \A m, n \in Taken : slot[m] = slot[n] => m = n
    /\ row.status = "closed" => row.accepted = 0
    /\ row.status = "active" => row.accepted < MaxOrders
    /\ row.status = "completed" => row.accepted = MaxOrders

NewFile(id) == [id |-> id, past |-> <<>>, verdict |-> [n \in Scenarios |-> "open"]]

Init ==
    /\ row = [status |-> "closed", accepted |-> 0, anchor |-> None]
    /\ slot = [n \in Scenarios |-> NoOrder]
    /\ review = {} /\ sent = {}
    /\ lock = Free
    /\ file = NewFile(1) /\ minted = 1
    /\ writer = [w \in Operators |-> None]
    /\ arming = None
    /\ backup = None

-----------------------------------------------------------------------------
(* The control file.                                                       *)

\* validate_anchor_transition: v is the anchored version or one of its
\* descendants.
Descends(v, anchor) ==
    \/ anchor = None
    \/ v.id = anchor.id
    \/ /\ Len(v.past) > Len(anchor.past)
       /\ v.past[Len(anchor.past) + 1] = anchor.id

\* validate_state: a failed critical scenario makes the decision STOP.
SaysStop(verdict) == \E n \in Critical : verdict[n] = "fail"

Passed(verdict) == {n \in Scenarios : verdict[n] \in Orders}

\* validate_pilot_database_evidence: what passed did so with the order that
\* holds the slot of that number.
EvidenceHolds(verdict) ==
    /\ \A n \in Passed(verdict) : slot[n] = verdict[n]
    /\ Passed(verdict) # {} => row.status # "closed"

\* command_record up to the database check, on a file read without the lock.
\* The other results, running and blocked, count like todo.
RecordReads(w, n, v) ==
    /\ writer[w] = None
    /\ LET next == [file.verdict EXCEPT ![n] = v]
       IN /\ EvidenceHolds(next)
          /\ writer' = [writer EXCEPT ![w] = [base |-> file, next |-> next]]
    /\ UNCHANGED <<database, lock, sent, file, minted, arming, backup>>

\* save_state: under the file's lock, and only onto the version that was read.
RecordSaves(w) ==
    /\ writer[w] # None
    /\ IF file = writer[w].base
       THEN /\ minted < MaxVersions
            /\ minted' = minted + 1
            /\ file' = [id |-> minted', past |-> Append(file.past, file.id),
                        verdict |-> writer[w].next]
       ELSE UNCHANGED <<file, minted>>
    /\ writer' = [writer EXCEPT ![w] = None]
    /\ UNCHANGED <<database, lock, sent, arming, backup>>

\* command_init --force: a new file, a new lineage.
InitAnew ==
    /\ minted < MaxVersions
    /\ minted' = minted + 1
    /\ file' = NewFile(minted')
    /\ UNCHANGED <<database, lock, sent, writer, arming, backup>>

\* Versions of which somebody may still have a copy: the one the row is anchored
\* to, the one it was when the backup was made, and those the commands have read.
Copies ==
    ({row.anchor, arming} \cup {writer[w].base : w \in {x \in Operators : writer[x] # None}}
        \cup {b.row.anchor : b \in {backup} \ {None}}) \ {None}

\* Outside the commands, a copy is put back in the place of the file.
PutBack ==
    /\ file' \in Copies
    /\ UNCHANGED <<database, lock, sent, minted, writer, arming, backup>>

-----------------------------------------------------------------------------
(* The runtime row.                                                        *)

\* Variant: the row's lock is not waited for.
UnlockedAlways == TRUE

\* SELECT ... FOR UPDATE of the runtime row gets through.
Unlocked == lock = Free

Stopped(r) == IF r.status \in {"active", "completed"}
              THEN [r EXCEPT !.status = "stopped"] ELSE r

\* What validate_runtime_files says of the control file.
FileHolds == Descends(file, row.anchor) /\ ~SaysStop(file.verdict)

\* _verify_runtime_safety, for the checks that are modelled.
Safe ==
    /\ FileHolds
    /\ review \cap Admitted = {}
    /\ EvidenceHolds(file.verdict)

\* Variant: the last order admitted need not have passed.
ContinuationBehind ==
    row.accepted > 0 => 1..(row.accepted - 1) \subseteq Passed(file.verdict)

\* is_pilot_sequence_continuation_ready.
ContinuationReady ==
    row.accepted > 0 => Passed(file.verdict) = 1..row.accepted

\* acquire_pilot_checkout finds the row active and every check well; it keeps
\* the lock until the checkout's transaction ends.
CheckoutStarts(o) ==
    /\ Unlocked
    /\ row.status = "active"
    /\ Safe /\ ContinuationReady
    /\ row.accepted < MaxOrders
    /\ o \notin Admitted
    /\ lock' = [kind |-> "checkout", order |-> o, read |-> file]
    /\ UNCHANGED <<database, sent, control, arming, backup>>

\* record_pilot_order and the commit.
CheckoutCommits ==
    /\ lock # Free
    /\ lock.kind = "checkout"
    /\ LET n == row.accepted + 1
       IN /\ slot' = [slot EXCEPT ![n] = lock.order]
          /\ row' = [status |-> IF n = MaxOrders THEN "completed" ELSE row.status,
                     accepted |-> n, anchor |-> lock.read]
    /\ lock' = Free
    /\ UNCHANGED <<review, sent, control, arming, backup>>

\* The checkout, or the call to the provider, ends without a commit: an error,
\* a timeout, a process that dies.
RollsBack ==
    /\ lock # Free
    /\ lock' = Free
    /\ UNCHANGED <<database, sent, control, arming, backup>>

\* assert_pilot_new_payment_attempt_allowed, with the lock kept for the call.
PaymentStarts(o) ==
    /\ o \in Admitted
    /\ Unlocked
    /\ row.status \in {"active", "completed"}
    /\ Safe
    /\ lock' = [kind |-> "payment", order |-> o, read |-> file]
    /\ UNCHANGED <<database, sent, control, arming, backup>>

\* create_yookassa_payment posts, perhaps not for the first time.
PaymentPosts ==
    /\ lock # Free
    /\ lock.kind = "payment"
    /\ sent' = sent \cup {lock.order}
    /\ UNCHANGED <<database, lock, control, arming, backup>>

PaymentCommits ==
    /\ lock # Free
    /\ lock.kind = "payment" /\ lock.order \in sent
    /\ row' = [row EXCEPT !.anchor = lock.read]
    /\ lock' = Free
    /\ UNCHANGED <<slot, review, sent, control, arming, backup>>

\* A checkout of an active pilot, or a payment of an admitted order, meets a
\* check that fails: one that is modelled, or any other.  It stops the pilot.
\* The two checks that a checkout makes last, of the allowlist and of the number
\* of slots, find the row on its new anchor already, and the stop commits both.
AutoStop ==
    /\ Unlocked
    /\ row.status = "active" \/ (row.status = "completed" /\ Admitted # {})
    /\ \/ row' = Stopped(row)
       \/ /\ row.status = "active" /\ Safe /\ ContinuationReady
          /\ row' = [Stopped(row) EXCEPT !.anchor = file]
    /\ UNCHANGED <<slot, review, lock, sent, control, arming, backup>>

\* _internal_stop, which leaves a completed pilot alone.
OperatorStops ==
    /\ Unlocked
    /\ row.status = "active"
    /\ row' = [row EXCEPT !.status = "stopped"]
    /\ UNCHANGED <<slot, review, lock, sent, control, arming, backup>>

-----------------------------------------------------------------------------
(* Arming: the host reads the control file, the backend applies.           *)

ArmReads ==
    /\ arming = None
    /\ ~SaysStop(file.verdict)
    /\ arming' = file
    /\ UNCHANGED <<database, lock, sent, control, backup>>

\* Variant: the row's anchor is not compared with the new one.
MayArmAnywhere ==
    \/ row.status \in {"closed", "active"}
    \/ row.status = "stopped" /\ row.accepted < MaxOrders

\* The row may take the anchor that was read; of a stopped one, if the operator
\* asked to resume.
MayArm ==
    \/ row.status = "closed"
    \/ row.status = "active" /\ Descends(arming, row.anchor)
    \/ /\ row.status = "stopped"
       /\ row.accepted < MaxOrders
       /\ Descends(arming, row.anchor)

\* _internal_apply_arm: a file that changed since, or anything else amiss, and
\* nothing is armed.  Of a closed row, the run and its clock start here.
ArmApplies ==
    /\ arming # None
    /\ Unlocked
    /\ \/ /\ MayArm
          /\ file = arming
          /\ ~SaysStop(file.verdict)
          /\ \A n \in Passed(file.verdict) : slot[n] = file.verdict[n]
          /\ row' = [row EXCEPT !.status = "active", !.anchor = arming]
       \/ UNCHANGED row
    /\ arming' = None
    /\ UNCHANGED <<slot, review, lock, sent, control, backup>>

-----------------------------------------------------------------------------
(* The rest of the shop.                                                   *)

\* An order's money needs an operator, and the pilot stops with it:
\* stop_pilot_for_order in the same transaction.
ReviewOpens(o) ==
    /\ o \in Admitted \ review
    /\ Unlocked
    /\ review' = review \cup {o}
    /\ row' = Stopped(row)
    /\ UNCHANGED <<slot, lock, sent, control, arming, backup>>

\* The payment job and the refund job park their order without the pilot.
ReviewOpensQuietly(o) ==
    /\ o \in Admitted \ review
    /\ review' = review \cup {o}
    /\ UNCHANGED <<row, slot, lock, sent, control, arming, backup>>

ReviewCloses(o) ==
    /\ o \in review
    /\ review' = review \ {o}
    /\ UNCHANGED <<row, slot, lock, sent, control, arming, backup>>

\* trip_pilot_circuit_breaker, after the transaction that failed was rolled
\* back, and enforce_terminal_provider_command_pilot_stop, after the order's
\* MoySklad command failed for good.
Trips(o) ==
    /\ o \in Admitted
    /\ Unlocked
    /\ row.status \in {"active", "completed"}
    /\ row' = Stopped(row)
    /\ UNCHANGED <<slot, review, lock, sent, control, arming, backup>>

\* The stop that rollback.sh runs on what it restores.
Halted(r) == IF r.status = "active" THEN [r EXCEPT !.status = "stopped"] ELSE r

\* backup_postgres.sh, which deploy_production.sh runs some time after it has
\* stopped the pilot (OperatorStops): one snapshot of the committed rows, kept
\* as it will be restored.
BackUp ==
    /\ backup = None
    /\ backup' = [row |-> Halted(row), slot |-> slot, review |-> review]
    /\ UNCHANGED <<database, lock, sent, control, arming>>

\* rollback.sh: the services are down, the database goes back, the control
\* file stays, and the restored row is stopped before the services start.
Rollback ==
    /\ backup # None
    /\ row' = backup.row
    /\ slot' = backup.slot
    /\ review' = backup.review
    /\ lock' = Free
    /\ UNCHANGED <<sent, control, arming, backup>>

-----------------------------------------------------------------------------
Operator ==
    \/ \E w \in Operators :
          \/ \E n \in Scenarios, v \in Verdicts : RecordReads(w, n, v)
          \/ RecordSaves(w)
    \/ InitAnew
    \/ PutBack
    \/ OperatorStops
    \/ ArmReads
    \/ ArmApplies
    \/ BackUp
    \/ Rollback

Shop ==
    \/ \E o \in Orders :
          \/ CheckoutStarts(o)
          \/ PaymentStarts(o)
          \/ ReviewOpens(o)
          \/ ReviewOpensQuietly(o)
          \/ ReviewCloses(o)
          \/ Trips(o)
    \/ CheckoutCommits
    \/ PaymentPosts
    \/ PaymentCommits
    \/ RollsBack
    \/ AutoStop

Next == Operator \/ Shop

Spec == Init /\ [][Next]_vars

-----------------------------------------------------------------------------
\* No payment is asked of the provider while the pilot is stopped or was never
\* opened: whoever stops it waits for the call that is under way
\* (pilot_payment_guard.py:27).
StopHoldsPayments ==
    [][sent' # sent => row.status \in {"active", "completed"}]_vars

\* The pilot is sequential: an order is admitted only when every order before
\* it has been signed as passed, with the order of that slot, in the version
\* of the control file that the row is anchored to from then on, and that
\* version does not say STOP (pilot_sequence_safety.py:9).
OneAtATime ==
    [][row'.accepted > row.accepted =>
          /\ row'.accepted = row.accepted + 1
          /\ row.status = "active"
          /\ \A n \in Taken : row'.anchor.verdict[n] = slot[n]
          /\ ~SaysStop(row'.anchor.verdict)]_vars

\* The row never accepts an older version of the control file, nor one of
\* another lineage, whether the file was begun anew, a copy was put back or the
\* row was stopped and armed again; only the database that a rollback restores
\* has an older anchor (pilot_control_chain.py:68).
AnchorAdvances ==
    [][\/ row'.anchor = row.anchor
       \/ row'.anchor # None /\ Descends(row'.anchor, row.anchor)
       \/ /\ backup # None
          /\ row' = backup.row /\ slot' = backup.slot /\ review' = backup.review]_vars

=============================================================================
