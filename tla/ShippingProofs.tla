--------------------------- MODULE ShippingProofs ---------------------------
(***************************************************************************)
(* Proofs about Shipping for any number of lines, workers, attempts,       *)
(* faults and reviews.                                                     *)
(*                                                                         *)
(* Two arguments that hardly meet.  What leaves the warehouse was picked   *)
(* and booked, because a task that is ready stays so and a booking that is *)
(* sent stays sent.  And a carrier is booked once for each time something  *)
(* answers for it, because every worker that can still book has been       *)
(* allowed for: by the command itself, by a lease that ran out, or by an   *)
(* accepted booking whose error the job tries again.                       *)
(***************************************************************************)
EXTENDS Shipping, FiniteSetTheorems, TLAPS

CommandRow == [status : CommandStatus, token : Workers \cup {NoWorker},
               attempts : 0..(MaxAttempts + MaxReviews), lapsed : BOOLEAN]
OrderRow == [status : OrderStatus, payment : PaymentStatus,
             delivery : DeliveryStatus]
ShipmentRow == [status : ShipmentStatus \cup {"none"}, mode : Mode,
                again : BOOLEAN]

\* Attempts are bounded, and a command that can get another has not reached
\* the bound.
AttemptsFit(k) ==
    /\ command[k].attempts <= MaxAttempts + reviews
    /\ command[k].status \in {"none", "pending", "processing"} =>
          command[k].attempts < MaxAttempts + reviews

Prepared ==
    /\ ShipmentIsPrepared
    /\ order.delivery = "ready" => task = "ready"
    /\ task \in {"packed", "ready"} => picked = Lines

\* A live booking that is reported, or about to be, exists.
ReportsAreReal ==
    shipment.mode = "live" =>
        /\ command["booking"].status = "sent" => bookings > 0
        /\ \A w \in Workers :
              /\ worker[w].on = "booking"
              /\ worker[w].at = "answered"
              /\ worker[w].outcome = "sent"
              => bookings > 0

\* Nobody books before there is a shipment.
BookingFollows ==
    /\ shipment.status = "none" =>
          /\ command["booking"].status = "none"
          /\ \A w \in Workers : worker[w].at # "idle" => worker[w].on # "booking"
    /\ \A w \in Workers : worker[w].at = "ready" => worker[w].on # "booking"

Booked == ShippedIsBooked /\ ReportsAreReal /\ BookingFollows

\* Worker w can book, or return the booking to the queue undone.
MayBook(w) ==
    /\ worker[w].on = "booking"
    /\ \/ worker[w].at = "claimed"
       \/ /\ worker[w].at = "answered" /\ worker[w].outcome = "retry"
          /\ Holds(w)

\* It can book although the booking is no longer its own.
Strays(w) ==
    worker[w].on = "booking" /\ worker[w].at = "claimed" /\ ~Holds(w)

Bookers == {w \in Workers : MayBook(w)}
Stray == {w \in Workers : Strays(w)}

\* The booking can come to a worker without a new decision.
Owed == IF command["booking"].status \in {"none", "pending"} THEN 1 ELSE 0

Credit ==
    /\ bookings + Cardinality(Bookers) + Owed <= 1 + reclaims + unheard
    /\ Cardinality(Stray) <= reclaims

IInv == /\ TypeOK /\ Prepared /\ Booked /\ Credit /\ RefundIsShown
        /\ \A k \in Commands : AttemptsFit(k)

-----------------------------------------------------------------------------
(* Counting.                                                               *)

LEMMA Counted ==
    /\ IsFiniteSet(Bookers) /\ Cardinality(Bookers) \in Nat
    /\ IsFiniteSet(Stray) /\ Cardinality(Stray) \in Nat
BY WorkersAssumption, FS_Subset, FS_CardinalityType DEF Bookers, Stray

LEMMA CountedNext ==
    /\ IsFiniteSet(Bookers)' /\ Cardinality(Bookers)' \in Nat
    /\ IsFiniteSet(Stray)' /\ Cardinality(Stray)' \in Nat
BY WorkersAssumption, FS_Subset, FS_CardinalityType DEF Bookers, Stray

LEMMA AtMostOneMore ==
    ASSUME NEW S, NEW T, NEW x, IsFiniteSet(S), T \subseteq S \cup {x}
    PROVE  Cardinality(T) <= Cardinality(S) + 1
<1>1. Cardinality(S) \in Nat
  BY FS_CardinalityType
<1>2. /\ IsFiniteSet(S \cup {x})
      /\ \/ Cardinality(S \cup {x}) = Cardinality(S)
         \/ Cardinality(S \cup {x}) = Cardinality(S) + 1
  BY FS_AddElement
<1>3. /\ Cardinality(T) \in Nat /\ Cardinality(S \cup {x}) \in Nat
      /\ Cardinality(T) <= Cardinality(S \cup {x})
  BY <1>2, FS_Subset, FS_CardinalityType
<1> QED
  BY <1>1, <1>2, <1>3

LEMMA OneFewer ==
    ASSUME NEW S, NEW T, NEW x \in S, IsFiniteSet(S), T \subseteq S \ {x}
    PROVE  Cardinality(T) + 1 <= Cardinality(S)
<1>1. /\ IsFiniteSet(S \ {x})
      /\ Cardinality(S \ {x}) = Cardinality(S) - 1
      /\ Cardinality(S) \in Nat
  BY FS_RemoveElement, FS_CardinalityType
<1>2. Cardinality(T) \in Nat /\ Cardinality(T) <= Cardinality(S \ {x})
  BY <1>1, FS_Subset, FS_CardinalityType
<1> QED
  BY <1>1, <1>2

\* No worker gets to book, and what is booked is tried again.
LEMMA NoNewBooker ==
    ASSUME TypeOK, Credit,
           \A v \in Workers : /\ MayBook(v)' => MayBook(v)
                              /\ Strays(v)' => Strays(v),
           \/ bookings' = bookings /\ unheard' = unheard
           \/ bookings' = bookings + 1 /\ unheard' = unheard + 1,
           reclaims' = reclaims, Owed' <= Owed
    PROVE  Credit'
<1>1. Bookers' \subseteq Bookers /\ Stray' \subseteq Stray
  BY DEF Bookers, Stray
<1>2. /\ Cardinality(Bookers)' <= Cardinality(Bookers)
      /\ Cardinality(Stray)' <= Cardinality(Stray)
  BY <1>1, Counted, FS_Subset
<1>3. /\ bookings \in Nat /\ reclaims \in Nat /\ unheard \in Nat
      /\ Owed \in Nat /\ Owed' \in Nat
  BY DEF TypeOK, Owed
<1>4. bookings + Cardinality(Bookers) + Owed <= 1 + reclaims + unheard
  BY DEF Credit
<1>5. /\ Cardinality(Bookers) \in Nat /\ Cardinality(Bookers)' \in Nat
      /\ Cardinality(Stray) \in Nat /\ Cardinality(Stray)' \in Nat
  BY Counted, CountedNext
<1>6. bookings' + Cardinality(Bookers)' + Owed' <= 1 + reclaims + unheard'
  <2>1. CASE bookings' = bookings /\ unheard' = unheard
    BY <1>2, <1>3, <1>4, <1>5, <2>1
  <2>2. CASE bookings' = bookings + 1 /\ unheard' = unheard + 1
    BY <1>2, <1>3, <1>4, <1>5, <2>2
  <2> QED
    BY <2>1, <2>2
<1>7. Cardinality(Stray)' <= reclaims
  BY <1>2, <1>3, <1>5 DEF Credit
<1> QED
  BY <1>6, <1>7 DEF Credit

LEMMA Balance ==
    ASSUME NEW b \in Nat, NEW c \in Nat, NEW o \in Nat, NEW r \in Nat,
           NEW b1 \in Nat, NEW c1 \in Nat, NEW o1 \in Nat,
           b + c + o <= 1 + r, c1 + 1 <= c, b1 + o1 <= b + o + 1
    PROVE  b1 + c1 + o1 <= 1 + r
OBVIOUS

\* Worker w is done booking, or gives the booking back.
LEMMA BookerLeaves ==
    ASSUME TypeOK, Credit, NEW w \in Workers, MayBook(w), ~MayBook(w)',
           \A v \in Workers : /\ MayBook(v)' => MayBook(v)
                              /\ Strays(v)' => Strays(v),
           bookings' \in Nat, reclaims' = reclaims, unheard' = unheard,
           bookings' + Owed' <= bookings + Owed + 1
    PROVE  Credit'
<1>1. /\ Bookers' \subseteq Bookers \ {w} /\ w \in Bookers
      /\ Stray' \subseteq Stray
  BY DEF Bookers, Stray
<1>2. /\ Cardinality(Bookers)' + 1 <= Cardinality(Bookers)
      /\ Cardinality(Stray)' <= Cardinality(Stray)
  BY <1>1, Counted, OneFewer, FS_Subset
<1>3. /\ bookings \in Nat /\ reclaims \in Nat /\ unheard \in Nat
      /\ Owed \in Nat /\ Owed' \in Nat
  BY DEF TypeOK, Owed
<1>4. /\ bookings' + Cardinality(Bookers)' + Owed' <= 1 + reclaims' + unheard'
      /\ Cardinality(Stray)' <= reclaims'
  <2>1. bookings + Cardinality(Bookers) + Owed <= 1 + (reclaims + unheard)
    BY <1>3, Counted DEF Credit
  <2>2. Cardinality(Stray) <= reclaims
    BY DEF Credit
  <2>3. /\ Cardinality(Bookers) \in Nat /\ Cardinality(Bookers)' \in Nat
        /\ Cardinality(Stray) \in Nat /\ Cardinality(Stray)' \in Nat
    BY Counted, CountedNext
  <2>4. bookings' + Cardinality(Bookers)' + Owed' <= 1 + (reclaims + unheard)
    <3>1. reclaims + unheard \in Nat
      BY <1>3
    <3> QED
      BY <1>2, <1>3, <2>1, <2>3, <3>1, Balance
  <2> QED
    BY <1>2, <2>2, <2>3, <2>4, <1>3
<1> QED
  BY <1>4 DEF Credit

-----------------------------------------------------------------------------
LEMMA InitHolds == Init => IInv
<1> SUFFICES ASSUME Init PROVE IInv
  OBVIOUS
<1>1. TypeOK
  <2>1. command \in [Commands -> CommandRow]
    BY LimitsAssumption DEF Init, Row, CommandRow, CommandStatus
  <2>2. worker \in [Workers -> WorkerRecord]
    BY DEF Init, Idle, WorkerRecord, Commands, Documents
  <2>3. order \in OrderRow /\ shipment \in ShipmentRow
    BY DEF Init, OrderRow, ShipmentRow, OrderStatus, PaymentStatus,
           DeliveryStatus, Mode
  <2>4. /\ setup \in Setups /\ task \in TaskStatus /\ picked \in SUBSET Lines
        /\ refund \in {"none", "requested", "processing", "failed"}
    BY DEF Init, TaskStatus
  <2>5. refunded \in BOOLEAN
    BY Zenon DEF Init
  <2>6. /\ bookings \in Nat /\ documents \in SUBSET Documents
        /\ reclaims \in Nat /\ unheard \in Nat
        /\ faults \in 0..MaxFaults /\ reviews \in 0..MaxReviews
    BY LimitsAssumption DEF Init
  <2> QED
    BY <2>1, <2>2, <2>3, <2>4, <2>5, <2>6
    DEF TypeOK, CommandRow, OrderRow, ShipmentRow
<1>2. Prepared
  <2>1. /\ shipment.status = "none" /\ order.delivery = "not_started"
        /\ task = "new"
    BY DEF Init
  <2> QED
    BY <2>1 DEF Prepared, ShipmentIsPrepared
<1>3. Booked
  BY DEF Init, Booked, ShippedIsBooked, ReportsAreReal, BookingFollows, Idle,
         Row, Commands
<1>4. Credit
  <2>1. Bookers = {} /\ Stray = {}
    <3>1. \A w \in Workers : worker[w].at = "idle"
      BY DEF Init, Idle
    <3> QED
      BY <3>1 DEF Bookers, Stray, MayBook, Strays
  <2>2. bookings = 0 /\ reclaims = 0 /\ unheard = 0 /\ Owed \in {0, 1}
    BY DEF Init, Owed
  <2> QED
    BY <2>1, <2>2, FS_EmptySet DEF Credit
<1>5. \A k \in Commands : AttemptsFit(k)
  BY LimitsAssumption DEF Init, AttemptsFit, Row
<1>6. RefundIsShown
  BY DEF Init, RefundIsShown
<1> QED
  BY <1>1, <1>2, <1>3, <1>4, <1>5, <1>6 DEF IInv

-----------------------------------------------------------------------------
(* Requests and refunds.                                                   *)

\* What a request does to the provider commands.
LEMMA CommandsAfterRequest ==
    ASSUME IInv, UNCHANGED Jobs,
           UNCHANGED command \/ \E k \in Commands : command' = Enqueued(k)
    PROVE  /\ command' \in [Commands -> CommandRow]
           /\ \A k \in Commands : AttemptsFit(k)'
           /\ \A k \in Commands :
                 \/ command'[k] = command[k]
                 \/ command[k].status = "none" /\ command'[k].status = "pending"
           /\ Credit'
<1>1. command \in [Commands -> CommandRow]
  BY DEF IInv, TypeOK, CommandRow
<1>2. Row("pending") \in CommandRow /\ Row("pending").attempts = 0
      /\ Row("pending").status = "pending"
  BY LimitsAssumption DEF Row, CommandRow, CommandStatus
<1>3. /\ command' \in [Commands -> CommandRow]
      /\ \A k \in Commands :
            \/ command'[k] = command[k]
            \/ command[k].status = "none" /\ command'[k] = Row("pending")
  <2>1. CASE UNCHANGED command
    BY <1>1, <2>1
  <2>2. ASSUME NEW k \in Commands, command' = Enqueued(k)
        PROVE  <1>3!1 /\ <1>3!2
    BY <1>1, <1>2, <2>2 DEF Enqueued
  <2> QED
    BY <2>1, <2>2
<1>4. reviews' = reviews /\ reviews \in Nat
  BY LimitsAssumption DEF Jobs, IInv, TypeOK
<1>5. ASSUME NEW k \in Commands PROVE AttemptsFit(k)'
  <2>1. CASE command'[k] = command[k]
    BY <1>4, <2>1 DEF IInv, AttemptsFit
  <2>2. CASE command'[k] = Row("pending")
    BY <1>2, <1>4, <2>2, LimitsAssumption DEF AttemptsFit
  <2> QED
    BY <1>3, <2>1, <2>2
<1>6. Credit'
  <2>1. ASSUME NEW v \in Workers
        PROVE  (MayBook(v)' => MayBook(v)) /\ (Strays(v)' => Strays(v))
    <3>1. worker'[v] = worker[v] /\ worker[v].on \in Commands
      BY DEF Jobs, IInv, TypeOK, WorkerRecord
    <3>2. Holds(v)' <=> Holds(v)
      BY <1>2, <1>3, <3>1 DEF Holds
    <3> QED
      BY <3>1, <3>2 DEF MayBook, Strays
  <2>2. Owed' <= Owed
    BY <1>2, <1>3 DEF Owed, Commands
  <2> QED
    <3>1. bookings' = bookings /\ reclaims' = reclaims /\ unheard' = unheard
      BY DEF Jobs
    <3> QED
      BY <2>1, <2>2, <3>1, NoNewBooker DEF IInv
<1> QED
  BY <1>2, <1>3, <1>5, <1>6

\* The rest of a request's business.
LEMMA RequestKeeps ==
    ASSUME IInv, UNCHANGED Jobs,
           UNCHANGED command \/ \E k \in Commands : command' = Enqueued(k),
           order' \in OrderRow, shipment' \in ShipmentRow, refunded' \in BOOLEAN,
           refund' \in {"none", "requested", "processing", "failed"},
           task' \in TaskStatus, picked' \in SUBSET Lines,
           Prepared', ShippedIsBooked', RefundIsShown',
           \/ shipment.status # "none" /\ shipment'.status # "none"
              /\ shipment'.mode = shipment.mode
           \/ UNCHANGED shipment /\ command'["booking"] = command["booking"]
           \/ shipment.status = "none" /\ shipment'.status # "none"
    PROVE  IInv'
<1>1. /\ command' \in [Commands -> CommandRow]
      /\ \A k \in Commands : AttemptsFit(k)'
      /\ \A k \in Commands :
            \/ command'[k] = command[k]
            \/ command[k].status = "none" /\ command'[k].status = "pending"
      /\ Credit'
  BY CommandsAfterRequest
<1>2. TypeOK'
  BY <1>1 DEF Jobs, IInv, TypeOK, CommandRow, OrderRow, ShipmentRow
<1>3. "booking" \in Commands /\ UNCHANGED <<worker, bookings>>
  BY DEF Commands, Jobs
<1>4. ReportsAreReal'
  BY <1>1, <1>3 DEF IInv, Booked, ReportsAreReal, BookingFollows
<1>5. BookingFollows'
  BY <1>1, <1>3 DEF IInv, Booked, BookingFollows
<1> QED
  BY <1>1, <1>2, <1>4, <1>5 DEF IInv, Booked

LEMMA UpdateTaskKeeps ==
    ASSUME IInv, NEW s \in TaskStatus, UpdateTask(s)
    PROVE  IInv'
<1>1. /\ task \in TaskStatus /\ s \in Transitions[task] /\ task' = s
      /\ UNCHANGED <<refund, refunded, picked, shipment, command>> /\ UNCHANGED Jobs
  BY DEF UpdateTask, IInv, TypeOK
<1>2. /\ task # "ready" /\ (s = "ready" => task = "packed")
  BY <1>1 DEF Transitions, TaskStatus
<1>3. s = "packed" => picked = Lines
  BY DEF UpdateTask
<1>4. order' \in OrderRow /\ (order'.delivery = "ready" => s = "ready")
  BY DEF UpdateTask, IInv, TypeOK, OrderRow, OrderStatus, DeliveryStatus
<1>5. shipment.status = "none"
  BY <1>2 DEF IInv, Prepared, ShipmentIsPrepared
<1>6. Prepared'
  BY <1>1, <1>2, <1>3, <1>4, <1>5 DEF IInv, Prepared, ShipmentIsPrepared
<1>7. ShippedIsBooked'
  BY <1>1, <1>5 DEF ShippedIsBooked
<1>8. RefundIsShown'
  BY <1>1 DEF UpdateTask, Assemblable, IInv, RefundIsShown
<1> QED
  BY <1>1, <1>4, <1>6, <1>7, <1>8, RequestKeeps DEF IInv, TypeOK, ShipmentRow

LEMMA EditPicklistKeeps ==
    ASSUME IInv, NEW line \in Lines, EditPicklist(line)
    PROVE  IInv'
<1>1. /\ UNCHANGED <<order, refund, refunded, task, shipment, command>>
      /\ UNCHANGED Jobs /\ picked' \in SUBSET Lines
      /\ task \notin {"packed", "ready"}
  BY DEF EditPicklist, IInv, TypeOK
<1>2. Prepared'
  BY <1>1 DEF IInv, Prepared, ShipmentIsPrepared
<1>3. ShippedIsBooked'
  BY <1>1 DEF IInv, Booked, ShippedIsBooked, Jobs
<1>4. RefundIsShown'
  BY <1>1 DEF IInv, RefundIsShown
<1> QED
  BY <1>1, <1>2, <1>3, <1>4, RequestKeeps DEF IInv, TypeOK, OrderRow, ShipmentRow

LEMMA CreateShipmentKeeps ==
    ASSUME IInv, NEW mode \in Mode, CreateShipment(mode)
    PROVE  IInv'
<1>1. /\ UNCHANGED <<order, refund, refunded, task, picked>> /\ UNCHANGED Jobs
      /\ order.delivery = "ready" /\ shipment.status = "none"
      /\ order.status = "ready"
      /\ shipment' = [shipment EXCEPT !.status = "created", !.mode = mode]
      /\ command' = command \/ command' = Enqueued("booking")
  BY DEF CreateShipment
<1>2. shipment' \in ShipmentRow /\ shipment'.status = "created"
  BY <1>1 DEF IInv, TypeOK, ShipmentRow, ShipmentStatus
<1>3. Prepared'
  BY <1>1, <1>2 DEF IInv, Prepared, ShipmentIsPrepared
<1>4. ShippedIsBooked'
  BY <1>2 DEF ShippedIsBooked
<1>5. UNCHANGED command \/ \E k \in Commands : command' = Enqueued(k)
  BY <1>1 DEF Commands
<1>6. RefundIsShown'
  BY <1>1 DEF IInv, TypeOK, ShipmentRow, RefundIsShown
<1> QED
  BY <1>1, <1>2, <1>3, <1>4, <1>5, <1>6, RequestKeeps DEF IInv, TypeOK, OrderRow

\* A shipment that exists moves on, with the order.
LEMMA MovesKeeps ==
    ASSUME IInv, NEW status \in OrderStatus, NEW to \in ShipmentStatus \ {"created"},
           Moves(status, to), shipment.status # "none",
           shipment.status = "created" => BookingReady,
           \/ status = order.status \/ order.status \in {"ready", "shipped"}
           \/ shipment.status = "delivery_failed" /\ to = "shipped",
           command' = command \/ command' = Enqueued("demand")
    PROVE  IInv'
<1>1. /\ UNCHANGED <<refund, refunded, task, picked>> /\ UNCHANGED Jobs
      /\ shipment' = [shipment EXCEPT
            !.status = to,
            !.again = @ \/ (shipment.status = "delivery_failed" /\ to = "shipped")]
      /\ order' = [order EXCEPT !.status = status, !.delivery = to]
  BY DEF Moves
<1>2. /\ shipment' \in ShipmentRow /\ shipment'.status = to
      /\ shipment'.mode = shipment.mode
  BY <1>1 DEF IInv, TypeOK, ShipmentRow
<1>3. order' \in OrderRow /\ order'.delivery = to /\ to # "ready"
  BY <1>1 DEF IInv, TypeOK, OrderRow, DeliveryStatus, ShipmentStatus
<1>4. Prepared'
  BY <1>1, <1>2, <1>3 DEF IInv, Prepared, ShipmentIsPrepared
<1>5. command'["booking"] = command["booking"]
  BY DEF Enqueued, IInv, TypeOK, Commands, Documents
<1>6. ShippedIsBooked'
  <2> SUFFICES ASSUME shipment.mode # "manual"
               PROVE  /\ command["booking"].status = "sent"
                      /\ shipment.mode = "live" => bookings > 0
    BY <1>1, <1>2, <1>5 DEF ShippedIsBooked, Jobs
  <2>1. CASE shipment.status = "created"
    BY <2>1 DEF BookingReady, IInv, Booked, ReportsAreReal
  <2>2. CASE shipment.status # "created"
    BY <2>2 DEF IInv, Booked, ShippedIsBooked
  <2> QED
    BY <2>1, <2>2
<1>7. UNCHANGED command \/ \E k \in Commands : command' = Enqueued(k)
  BY DEF Commands, Documents
<1>8. shipment'.status # "none"
  BY <1>2 DEF ShipmentStatus
<1>9. RefundIsShown'
  <2>1. /\ shipment'.again \in BOOLEAN
        /\ shipment.again => shipment'.again
        /\ shipment.status = "delivery_failed" /\ to = "shipped" => shipment'.again
    BY <1>1 DEF IInv, TypeOK
  <2>2. /\ order'.status = status /\ order'.payment = order.payment
        /\ refund' = refund
    BY <1>1 DEF IInv, TypeOK
  <2> QED
    BY <2>1, <2>2 DEF IInv, RefundIsShown
<1> QED
  BY <1>1, <1>2, <1>3, <1>4, <1>6, <1>7, <1>8, <1>9, RequestKeeps DEF IInv, TypeOK

LEMMA TransitionShipmentKeeps == ASSUME IInv, TransitionShipment PROVE IInv'
<1>1. order.status \in OrderStatus
  BY DEF IInv, TypeOK
<1>2. CASE Ship
  BY <1>2, MovesKeeps DEF Ship, OrderStatus, ShipmentStatus
<1>3. CASE Deliver
  BY <1>3, MovesKeeps DEF Deliver, OrderStatus, ShipmentStatus
<1>4. ASSUME NEW from \in {"shipped", "delivery_failed", "returning"},
             NEW to \in {"delivery_failed", "returning", "returned_to_sender"},
             DeliveryGoes(from, to)
      PROVE  IInv'
  BY <1>1, <1>4, MovesKeeps DEF DeliveryGoes, ShipmentStatus
<1> QED
  BY <1>2, <1>3, <1>4 DEF TransitionShipment

LEMMA RefundStepKeeps == ASSUME IInv, RefundStep PROVE IInv'
<1>1. UNCHANGED <<task, picked, shipment, command>> /\ UNCHANGED Jobs
  BY DEF RefundStep, CreateReturn, ApproveReturn, RefundPending, RefundEnds, OnlyOrder
<1>2. /\ order' \in OrderRow /\ order'.delivery = order.delivery
      /\ refund' \in {"none", "requested", "processing", "failed"}
  <2>1. order \in OrderRow
    BY DEF IInv, TypeOK, OrderRow
  <2>2. CASE CreateReturn \/ ApproveReturn \/ RefundPending
    BY <2>1, <2>2 DEF CreateReturn, ApproveReturn, RefundPending, OrderRow,
       OrderStatus, PaymentStatus
  <2>3. ASSUME NEW status \in {"full", "partial", "failed"}, RefundEnds(status)
        PROVE  /\ order' \in OrderRow /\ order'.delivery = order.delivery
               /\ refund' \in {"none", "requested", "processing", "failed"}
    BY <2>1, <2>3 DEF RefundEnds, OrderRow, OrderStatus, PaymentStatus
  <2> QED
    BY <2>2, <2>3 DEF RefundStep
<1>3. refunded' \in BOOLEAN
  <2>1. refunded \in BOOLEAN
    BY DEF IInv, TypeOK
  <2>2. CASE UNCHANGED refunded
    BY <2>1, <2>2
  <2>3. ASSUME NEW status \in {"full", "partial", "failed"}, RefundEnds(status)
        PROVE  refunded' \in BOOLEAN
    BY <2>3, Zenon DEF RefundEnds
  <2> QED
    BY <2>2, <2>3, Zenon DEF RefundStep, CreateReturn, ApproveReturn, RefundPending
<1>4. Prepared'
  BY <1>1, <1>2 DEF IInv, Prepared, ShipmentIsPrepared
<1>5. ShippedIsBooked'
  BY <1>1 DEF IInv, Booked, ShippedIsBooked, Jobs
<1>6. RefundIsShown'
  <2>1. CASE CreateReturn \/ ApproveReturn \/ RefundPending
    BY <1>1, <2>1 DEF CreateReturn, ApproveReturn, RefundPending, IInv, TypeOK,
       RefundIsShown
  <2>2. ASSUME NEW status \in {"full", "partial", "failed"}, RefundEnds(status)
        PROVE  RefundIsShown'
    BY <2>2 DEF RefundEnds, IInv, TypeOK, RefundIsShown
  <2> QED
    BY <2>1, <2>2 DEF RefundStep
<1> QED
  BY <1>1, <1>2, <1>3, <1>4, <1>5, <1>6, RequestKeeps DEF IInv, TypeOK, ShipmentRow

-----------------------------------------------------------------------------
(* Workers.                                                                *)

\* A step that leaves the order, its task and its shipment alone.
LEMMA WorkerKeeps ==
    ASSUME IInv, UNCHANGED Business,
           command' \in [Commands -> CommandRow],
           worker' \in [Workers -> WorkerRecord],
           bookings' \in Nat, documents' \in SUBSET Documents, reclaims' \in Nat,
           unheard' \in Nat, faults' \in 0..MaxFaults, reviews' \in 0..MaxReviews,
           \A k \in Commands : AttemptsFit(k)',
           bookings > 0 => bookings' > 0,
           command["booking"].status = "sent" => command'["booking"].status = "sent",
           ReportsAreReal', BookingFollows', Credit'
    PROVE  IInv'
<1>1. TypeOK'
  BY DEF IInv, TypeOK, Business, CommandRow
<1>2. Prepared'
  BY DEF IInv, Prepared, ShipmentIsPrepared, Business
<1>3. ShippedIsBooked'
  BY DEF IInv, Booked, ShippedIsBooked, Business
<1>4. RefundIsShown'
  BY DEF IInv, RefundIsShown, Business
<1> QED
  BY <1>1, <1>2, <1>3, <1>4 DEF IInv, Booked

LEMMA Typed ==
    ASSUME IInv
    PROVE  /\ command \in [Commands -> CommandRow]
           /\ worker \in [Workers -> WorkerRecord]
           /\ bookings \in Nat /\ documents \in SUBSET Documents
           /\ reclaims \in Nat /\ unheard \in Nat
           /\ faults \in 0..MaxFaults /\ reviews \in 0..MaxReviews
           /\ "booking" \in Commands /\ "booking" \notin Documents
           /\ NoWorker \notin Workers
           /\ MaxAttempts \in Nat \ {0} /\ MaxFaults \in Nat /\ MaxReviews \in Nat
BY NamesAssumption, LimitsAssumption
DEF IInv, TypeOK, CommandRow, Commands, Documents

\* A worker that takes command k, of whatever kind.
LEMMA ClaimCredit ==
    ASSUME IInv, NEW w \in Workers, Claim(w, "booking")
    PROVE  Credit'
<1> USE Typed
<1>1. /\ command'["booking"].status = "processing"
      /\ command'["booking"].token = w
      /\ worker[w].at = "idle"
      /\ worker'[w].on = "booking"
      /\ bookings' = bookings /\ unheard' = unheard
      /\ \A v \in Workers \ {w} : worker'[v] = worker[v]
  BY DEF Claim, Idle, CommandRow
<1>2. ~Strays(w)' /\ Owed' = 0
  BY <1>1 DEF Strays, Holds, Owed
<1>3. Bookers' \subseteq Bookers \cup {w}
  <2>1. ASSUME NEW v \in Workers \ {w} PROVE MayBook(v)' => MayBook(v)
    BY <1>1 DEF MayBook, Holds
  <2> QED
    BY <2>1 DEF Bookers
<1>4. Cardinality(Bookers)' <= Cardinality(Bookers) + 1
  BY <1>3, Counted, AtMostOneMore
<1>5. CASE command["booking"].status = "pending"
  <2>1. Stray' \subseteq Stray
    <3>1. ASSUME NEW v \in Workers, Strays(v)' PROVE Strays(v)
      BY <1>1, <1>2, <1>5, <3>1 DEF Strays, Holds
    <3> QED
      BY <3>1 DEF Stray
  <2>2. Owed = 1 /\ reclaims' = reclaims
    BY <1>5 DEF Owed, Claim
  <2>3. Cardinality(Stray)' <= Cardinality(Stray)
    BY <2>1, Counted, FS_Subset
  <2> QED
    BY <1>1, <1>2, <1>4, <2>2, <2>3, Counted, CountedNext DEF IInv, Credit
<1>6. CASE command["booking"].status = "processing"
  <2> DEFINE old == command["booking"].token
  <2>1. Stray' \subseteq Stray \cup {old}
    <3>1. ASSUME NEW v \in Workers, Strays(v)', v # old PROVE Strays(v)
      BY <1>1, <1>2, <3>1 DEF Strays, Holds
    <3> QED
      BY <3>1 DEF Stray
  <2>2. Owed = 0 /\ reclaims' = reclaims + 1
    BY <1>6 DEF Owed, Claim
  <2>3. Cardinality(Stray)' <= Cardinality(Stray) + 1
    BY <2>1, Counted, AtMostOneMore
  <2> QED
    BY <1>1, <1>2, <1>4, <2>2, <2>3, Counted, CountedNext DEF IInv, Credit
<1> QED
  BY <1>5, <1>6 DEF Claim

LEMMA ClaimKeeps ==
    ASSUME IInv, NEW w \in Workers, NEW k \in Commands, Claim(w, k)
    PROVE  IInv'
<1> USE Typed
<1>1. /\ worker[w].at = "idle"
      /\ worker'[w] = [at |-> "claimed", on |-> k, outcome |-> "retry"]
      /\ \A v \in Workers \ {w} : worker'[v] = worker[v]
      /\ worker' \in [Workers -> WorkerRecord]
  BY DEF Claim, Idle, WorkerRecord
<1>2. /\ command' \in [Commands -> CommandRow]
      /\ command'[k].status = "processing"
      /\ command'[k].attempts = command[k].attempts
      /\ command[k].status \in {"pending", "processing"}
      /\ \A j \in Commands \ {k} : command'[j] = command[j]
  BY DEF Claim, CommandRow, CommandStatus
<1>3. UNCHANGED Business /\ UNCHANGED <<bookings, documents, unheard, faults, reviews>>
  BY DEF Claim
<1>4. \A j \in Commands : AttemptsFit(j)'
  BY <1>2, <1>3 DEF IInv, AttemptsFit
<1>5. reclaims' \in Nat
  BY DEF Claim
<1>6. shipment' = shipment
  BY <1>3 DEF Business
<1>7. ReportsAreReal'
  BY <1>1, <1>2, <1>3, <1>6 DEF IInv, Booked, ReportsAreReal
<1>8. BookingFollows'
  BY <1>1, <1>2, <1>6 DEF IInv, Booked, BookingFollows
<1>9. Credit'
  <2>1. CASE k = "booking"
    BY <2>1, ClaimCredit
  <2>2. CASE k # "booking"
    <3>1. reclaims' = reclaims /\ Owed' <= Owed
      BY <1>2, <2>2 DEF Claim, Owed
    <3>2. ASSUME NEW v \in Workers
          PROVE  (MayBook(v)' => MayBook(v)) /\ (Strays(v)' => Strays(v))
      BY <1>1, <1>2, <2>2 DEF MayBook, Strays, Holds
    <3> QED
      BY <1>3, <3>1, <3>2, NoNewBooker DEF IInv, TypeOK
  <2> QED
    BY <2>1, <2>2
<1>10. command["booking"].status = "sent" => command'["booking"].status = "sent"
  BY <1>2
<1> QED
  BY <1>1, <1>2, <1>3, <1>4, <1>5, <1>7, <1>8, <1>9, <1>10, WorkerKeeps

LEMMA BookKeeps ==
    ASSUME IInv, NEW w \in Workers, Book(w)
    PROVE  IInv'
<1> USE Typed
<1>1. /\ worker[w].at = "claimed" /\ worker[w].on = "booking"
      /\ UNCHANGED Business
      /\ UNCHANGED <<command, documents, reclaims, faults, reviews>>
  BY DEF Book
<1>2. PICK outcome \in {"sent", "retry", "review"} :
         /\ Answered(w, outcome)
         /\ bookings' = bookings \/ bookings' = bookings + 1
         /\ outcome # "retry" => unheard' = unheard
         /\ outcome = "retry" =>
               unheard' = IF Holds(w) THEN unheard + bookings' - bookings ELSE unheard
         /\ outcome = "sent" =>
               \/ shipment.mode = "sandbox"
               \/ bookings' = bookings + 1
  BY DEF Book, TimesOut
<1>3. /\ worker' \in [Workers -> WorkerRecord]
      /\ worker'[w].at = "answered" /\ worker'[w].on = "booking"
      /\ worker'[w].outcome = outcome
      /\ \A v \in Workers \ {w} : worker'[v] = worker[v]
  BY <1>1, <1>2 DEF Answered, WorkerRecord
<1>4. /\ bookings' \in Nat /\ (bookings > 0 => bookings' > 0)
      /\ unheard' \in Nat
  BY <1>2
<1>5. \A k \in Commands : AttemptsFit(k)'
  BY <1>1 DEF IInv, AttemptsFit
<1>6. shipment' = shipment
  BY <1>1 DEF Business
<1>7. ReportsAreReal'
  BY <1>1, <1>2, <1>3, <1>4, <1>6 DEF IInv, Booked, ReportsAreReal
<1>8. BookingFollows'
  BY <1>1, <1>3, <1>6 DEF IInv, Booked, BookingFollows
<1>9. Credit'
  <2>1. MayBook(w)
    BY <1>1 DEF MayBook
  <2>2. ASSUME NEW v \in Workers
        PROVE  (MayBook(v)' => MayBook(v)) /\ (Strays(v)' => Strays(v))
    <3>1. CASE v = w
      BY <1>3, <2>1, <3>1 DEF Strays
    <3>2. CASE v # w
      BY <1>1, <1>3, <3>2 DEF MayBook, Strays, Holds
    <3> QED
      BY <3>1, <3>2
  <2>3. Owed' = Owed /\ Owed \in Nat
    BY <1>1 DEF Owed
  <2>4. CASE outcome = "retry" /\ Holds(w)
    <3>1. \/ bookings' = bookings /\ unheard' = unheard
          \/ bookings' = bookings + 1 /\ unheard' = unheard + 1
      BY <1>2, <2>4
    <3>2. Owed' <= Owed
      BY <2>3
    <3> QED
      BY <1>1, <2>2, <3>1, <3>2, NoNewBooker DEF IInv
  <2>5. CASE outcome # "retry" \/ ~Holds(w)
    <3>1. ~MayBook(w)'
      BY <1>1, <1>3, <2>5 DEF MayBook, Holds
    <3>2. bookings' + Owed' <= bookings + Owed + 1
      BY <1>2, <2>3
    <3>3. unheard' = unheard
      BY <1>2, <2>5
    <3> QED
      BY <1>1, <1>4, <2>1, <2>2, <3>1, <3>2, <3>3, BookerLeaves DEF IInv
  <2> QED
    BY <2>4, <2>5
<1> QED
  BY <1>1, <1>3, <1>4, <1>5, <1>7, <1>8, <1>9, WorkerKeeps

\* A step of worker w that books nothing and leaves the commands alone.
LEMMA QuietKeeps ==
    ASSUME IInv, NEW w \in Workers, UNCHANGED Business,
           UNCHANGED <<command, bookings, reclaims, unheard, reviews>>,
           documents' \in SUBSET Documents, faults' \in 0..MaxFaults,
           worker' \in [Workers -> WorkerRecord],
           \A v \in Workers \ {w} : worker'[v] = worker[v],
           worker'[w].at = "idle" \/ worker'[w].on # "booking"
    PROVE  IInv'
<1> USE Typed
<1>1. shipment' = shipment
  BY DEF Business
<1>2. \A k \in Commands : AttemptsFit(k)'
  BY DEF IInv, AttemptsFit
<1>3. ReportsAreReal'
  BY <1>1 DEF IInv, Booked, ReportsAreReal
<1>4. BookingFollows'
  BY <1>1 DEF IInv, Booked, BookingFollows
<1>5. ASSUME NEW v \in Workers
      PROVE  (MayBook(v)' => MayBook(v)) /\ (Strays(v)' => Strays(v))
  <2>1. CASE v = w
    BY <2>1 DEF MayBook, Strays
  <2>2. CASE v # w
    BY <2>2 DEF MayBook, Strays, Holds
  <2> QED
    BY <2>1, <2>2
<1>6. Owed' <= Owed
  BY DEF Owed
<1>7. Credit'
  BY <1>5, <1>6, NoNewBooker DEF IInv
<1> QED
  BY <1>2, <1>3, <1>4, <1>7, WorkerKeeps

LEMMA PrepareKeeps ==
    ASSUME IInv, NEW w \in Workers, Prepare(w)
    PROVE  IInv'
<1> USE Typed
<1>1. /\ worker' \in [Workers -> WorkerRecord]
      /\ worker'[w].on = worker[w].on
      /\ \A v \in Workers \ {w} : worker'[v] = worker[v]
  BY DEF Prepare, Answered, WorkerRecord
<1> QED
  BY <1>1, QuietKeeps DEF Prepare

LEMMA PostKeeps ==
    ASSUME IInv, NEW w \in Workers, Post(w)
    PROVE  IInv'
<1> USE Typed
<1>1. /\ worker' \in [Workers -> WorkerRecord]
      /\ worker'[w].on = worker[w].on
      /\ \A v \in Workers \ {w} : worker'[v] = worker[v]
  BY DEF Post, Answered, WorkerRecord
<1>2. worker[w].on # "booking" /\ worker[w].on \in Documents
  <2>1. worker[w].on # "booking"
    BY DEF Post, IInv, Booked, BookingFollows
  <2>2. worker[w] \in WorkerRecord
    OBVIOUS
  <2> QED
    BY <2>1, <2>2 DEF WorkerRecord, Commands
<1>3. documents' \in SUBSET Documents
  BY <1>2 DEF Post
<1> QED
  BY <1>1, <1>2, <1>3, QuietKeeps DEF Post

LEMMA CrashKeeps ==
    ASSUME IInv, NEW w \in Workers, Crash(w)
    PROVE  IInv'
<1> USE Typed
<1>1. /\ worker' \in [Workers -> WorkerRecord]
      /\ worker'[w].at = "idle"
      /\ \A v \in Workers \ {w} : worker'[v] = worker[v]
  BY DEF Crash, Idle, WorkerRecord, Commands, Documents
<1>2. faults' \in 0..MaxFaults
  BY DEF Crash
<1> QED
  BY <1>1, <1>2, QuietKeeps DEF Crash

LEMMA LeaseExpiresKeeps ==
    ASSUME IInv, NEW k \in Commands, LeaseExpires(k)
    PROVE  IInv'
<1> USE Typed
<1>1. /\ UNCHANGED Business
      /\ UNCHANGED <<worker, bookings, documents, reclaims, unheard, reviews>>
      /\ faults' \in 0..MaxFaults
  BY DEF LeaseExpires
<1>2. /\ command' \in [Commands -> CommandRow]
      /\ \A j \in Commands : /\ command'[j].status = command[j].status
                             /\ command'[j].token = command[j].token
                             /\ command'[j].attempts = command[j].attempts
  BY DEF LeaseExpires, CommandRow
<1>3. \A j \in Commands : AttemptsFit(j)'
  BY <1>1, <1>2 DEF IInv, AttemptsFit
<1>4. shipment' = shipment
  BY <1>1 DEF Business
<1>5. ReportsAreReal'
  BY <1>1, <1>2, <1>4 DEF IInv, Booked, ReportsAreReal
<1>6. BookingFollows'
  BY <1>1, <1>2, <1>4 DEF IInv, Booked, BookingFollows
<1>7. ASSUME NEW v \in Workers
      PROVE  (MayBook(v)' => MayBook(v)) /\ (Strays(v)' => Strays(v))
  <2>1. worker[v].on \in Commands
    BY DEF WorkerRecord
  <2>2. Holds(v)' <=> Holds(v)
    BY <1>1, <1>2, <2>1 DEF Holds
  <2> QED
    BY <1>1, <2>2 DEF MayBook, Strays
<1>8. Owed' <= Owed
  BY <1>2 DEF Owed
<1>9. Credit'
  BY <1>1, <1>7, <1>8, NoNewBooker DEF IInv
<1> QED
  BY <1>1, <1>2, <1>3, <1>5, <1>6, <1>9, WorkerKeeps

\* What an outcome makes of a command that is being processed.
LEMMA RowAfter ==
    ASSUME NEW row \in CommandRow, reviews \in 0..MaxReviews,
           row.attempts < MaxAttempts + reviews
    PROVE  /\ Sent(row) \in CommandRow /\ Sent(row).status = "sent"
           /\ Sent(row).attempts <= MaxAttempts + reviews
           /\ Reviewed(row) \in CommandRow /\ Reviewed(row).status = "review_required"
           /\ Reviewed(row).attempts <= MaxAttempts + reviews
           /\ Failed(row) \in CommandRow /\ Failed(row).status \in {"failed", "pending"}
           /\ Failed(row).attempts <= MaxAttempts + reviews
           /\ Failed(row).status = "pending" =>
                 Failed(row).attempts < MaxAttempts + reviews
<1>1. /\ row.attempts \in 0..(MaxAttempts + MaxReviews)
      /\ row.attempts + 1 \in 0..(MaxAttempts + MaxReviews)
      /\ row.attempts + 1 <= MaxAttempts + reviews
      /\ row.attempts + 1 < MaxAttempts => row.attempts + 1 < MaxAttempts + reviews
  BY LimitsAssumption DEF CommandRow
<1>2. /\ Sent(row) \in CommandRow /\ Sent(row).status = "sent"
      /\ Sent(row).attempts = row.attempts
  BY DEF Sent, CommandRow, CommandStatus
<1>3. /\ Reviewed(row) \in CommandRow /\ Reviewed(row).status = "review_required"
      /\ Reviewed(row).attempts = row.attempts + 1
  BY <1>1 DEF Reviewed, CommandRow, CommandStatus
<1>4. /\ Failed(row) \in CommandRow
      /\ Failed(row).attempts = row.attempts + 1
      /\ \/ Failed(row).status = "failed"
         \/ Failed(row).status = "pending" /\ ~(row.attempts + 1 >= MaxAttempts)
  BY <1>1 DEF Failed, CommandRow, CommandStatus
<1> QED
  BY <1>1, <1>2, <1>3, <1>4, LimitsAssumption

\* The outcome of worker w reaches its command, unless another has it.
LEMMA RecordKeeps ==
    ASSUME IInv, NEW w \in Workers, Record(w)
    PROVE  IInv'
<1> USE Typed
<1>0. PICK k \in Commands : k = worker[w].on
  BY DEF WorkerRecord
<1>1. /\ worker' \in [Workers -> WorkerRecord] /\ worker'[w].at = "idle"
      /\ \A v \in Workers \ {w} : worker'[v] = worker[v]
      /\ worker[w].at = "answered"
      /\ UNCHANGED Business
      /\ UNCHANGED <<bookings, documents, reclaims, unheard, faults, reviews>>
  BY DEF Record, Idle, WorkerRecord, Commands, Documents
<1>2. k = worker[w].on /\ worker[w].outcome \in {"sent", "retry", "review"}
  BY <1>0 DEF WorkerRecord
<1>3. CASE ~Holds(w)
  <2>1. command' = command
    BY <1>3 DEF Record
  <2> QED
    BY <1>1, <2>1, QuietKeeps
<1>4. CASE Holds(w)
  <2>1. /\ command[k].status = "processing" /\ command[k].token = w
        /\ command[k].attempts < MaxAttempts + reviews
    BY <1>2, <1>4 DEF Holds, IInv, AttemptsFit
  <2>2. /\ command' \in [Commands -> CommandRow]
        /\ \A j \in Commands \ {k} : command'[j] = command[j]
        /\ command'[k].status # "processing"
        /\ AttemptsFit(k)'
        /\ command'[k].status = "sent" => worker[w].outcome = "sent"
        /\ command'[k].status = "pending" => worker[w].outcome = "retry"
        /\ command'[k].status # "none"
    <3>1. command[k] \in CommandRow /\ reviews' = reviews
      BY <1>1, <1>2
    <3>2. \E row \in {Sent(command[k]), Reviewed(command[k]), Failed(command[k])} :
             /\ command' = [command EXCEPT ![k] = row]
             /\ row = Sent(command[k]) => worker[w].outcome = "sent"
             /\ row = Failed(command[k]) => worker[w].outcome = "retry"
      <4>1. CASE worker[w].outcome = "sent"
        <5>1. command' = [command EXCEPT ![k] = Sent(command[k])]
          BY <1>2, <1>4, <4>1 DEF Record
        <5>2. Sent(command[k]) # Failed(command[k])
          BY <3>1, RowAfter, <2>1
        <5> QED
          BY <4>1, <5>1, <5>2
      <4>2. CASE worker[w].outcome = "review"
        <5>1. command' = [command EXCEPT ![k] = Reviewed(command[k])]
          BY <1>2, <1>4, <4>2 DEF Record
        <5>2. Reviewed(command[k]) \notin {Sent(command[k]), Failed(command[k])}
          BY <3>1, RowAfter, <2>1
        <5> QED
          BY <5>1, <5>2
      <4>3. CASE worker[w].outcome = "retry"
        <5>1. command' = [command EXCEPT ![k] = Failed(command[k])]
          BY <1>2, <1>4, <4>3 DEF Record
        <5>2. Sent(command[k]) # Failed(command[k])
          BY <3>1, RowAfter, <2>1
        <5> QED
          BY <4>3, <5>1, <5>2
      <4> QED
        BY <1>2, <4>1, <4>2, <4>3
    <3>3. PICK row \in {Sent(command[k]), Reviewed(command[k]), Failed(command[k])} :
             /\ command' = [command EXCEPT ![k] = row]
             /\ row = Sent(command[k]) => worker[w].outcome = "sent"
             /\ row = Failed(command[k]) => worker[w].outcome = "retry"
      BY <3>2
    <3>4. /\ row \in CommandRow
          /\ row.status \notin {"processing", "none"}
          /\ row.status = "sent" => row = Sent(command[k])
          /\ row.status = "pending" =>
                row = Failed(command[k]) /\ row.attempts < MaxAttempts + reviews
          /\ row.attempts <= MaxAttempts + reviews
      BY <2>1, <3>1, RowAfter
    <3>5. /\ command'[k] = row /\ command' \in [Commands -> CommandRow]
          /\ \A j \in Commands \ {k} : command'[j] = command[j]
      BY <1>2, <3>3, <3>4
    <3>6. AttemptsFit(k)'
      BY <3>1, <3>4, <3>5 DEF AttemptsFit
    <3> QED
      BY <3>3, <3>4, <3>5, <3>6
  <2>3. \A j \in Commands : AttemptsFit(j)'
    BY <1>1, <2>2 DEF IInv, AttemptsFit
  <2>4. shipment' = shipment
    BY <1>1 DEF Business
  <2>5. ReportsAreReal'
    BY <1>1, <1>2, <2>2, <2>4 DEF IInv, Booked, ReportsAreReal
  <2>6. BookingFollows'
    BY <1>1, <2>1, <2>2, <2>4 DEF IInv, Booked, BookingFollows
  <2>7. ASSUME NEW v \in Workers
        PROVE  (MayBook(v)' => MayBook(v)) /\ (Strays(v)' => Strays(v))
    <3>1. CASE v = w
      BY <1>1, <3>1 DEF MayBook, Strays
    <3>2. CASE v # w
      BY <1>1, <2>1, <2>2, <3>2 DEF MayBook, Strays, Holds
    <3> QED
      BY <3>1, <3>2
  <2>8. Credit'
    <3>1. Owed \in {0, 1} /\ Owed' \in {0, 1}
      BY DEF Owed
    <3>2. CASE Owed' <= Owed
      BY <1>1, <2>7, <3>2, NoNewBooker DEF IInv
    <3>3. CASE ~(Owed' <= Owed)
      <4>1. k = "booking" /\ worker[w].outcome = "retry"
        BY <2>2, <3>3 DEF Owed
      <4>2. MayBook(w) /\ ~MayBook(w)'
        BY <1>1, <1>2, <1>4, <4>1 DEF MayBook
      <4>3. bookings' + Owed' <= bookings + Owed + 1
        BY <1>1, <3>1
      <4> QED
        BY <1>1, <2>7, <4>2, <4>3, BookerLeaves DEF IInv
    <3> QED
      BY <3>2, <3>3
  <2>9. command["booking"].status = "sent" => command'["booking"].status = "sent"
    BY <2>1, <2>2
  <2> QED
    BY <1>1, <2>2, <2>3, <2>5, <2>6, <2>8, <2>9, WorkerKeeps
<1> QED
  BY <1>3, <1>4

\* An operator decides: whoever can still book has lost its lease, and the
\* claim that took it allowed for one more.
LEMMA ReconcileKeeps == ASSUME IInv, Reconcile PROVE IInv'
<1> USE Typed
<1>1. /\ UNCHANGED Business
      /\ UNCHANGED <<worker, bookings, documents, reclaims, unheard, faults>>
      /\ command["booking"].status = "review_required"
      /\ \/ command' = [command EXCEPT !["booking"].status = "sent"]
            /\ bookings > 0 /\ reviews' = reviews
         \/ command' = [command EXCEPT !["booking"].status = "pending"]
            /\ bookings = 0 /\ reviews' = reviews + 1 /\ reviews' \in 0..MaxReviews
  BY DEF Reconcile
<1>2. /\ command' \in [Commands -> CommandRow]
      /\ \A k \in Commands : command'[k].attempts = command[k].attempts
      /\ \A k \in Commands \ {"booking"} : command'[k] = command[k]
      /\ \/ command'["booking"].status = "sent" /\ bookings > 0
         \/ command'["booking"].status = "pending" /\ bookings = 0
            /\ reviews' = reviews + 1
  BY <1>1 DEF CommandRow, CommandStatus
<1>3. \A k \in Commands : AttemptsFit(k)'
  BY <1>1, <1>2 DEF IInv, AttemptsFit, CommandRow
<1>4. shipment' = shipment
  BY <1>1 DEF Business
<1>5. ReportsAreReal'
  BY <1>1, <1>2, <1>4 DEF IInv, Booked, ReportsAreReal
<1>6. BookingFollows'
  BY <1>1, <1>2, <1>4 DEF IInv, Booked, BookingFollows
<1>7. ASSUME NEW v \in Workers
      PROVE  /\ Strays(v)' => Strays(v)
             /\ MayBook(v)' => Strays(v)
             /\ MayBook(v)' => MayBook(v)
  BY <1>1, <1>2 DEF MayBook, Strays, Holds
<1>8. Credit'
  <2>1. CASE command'["booking"].status = "sent"
    <3>1. Owed' <= Owed
      BY <2>1 DEF Owed
    <3> QED
      BY <1>1, <1>7, <3>1, NoNewBooker DEF IInv
  <2>2. CASE command'["booking"].status = "pending"
    <3>1. Bookers' \subseteq Stray /\ Stray' \subseteq Stray
      BY <1>7 DEF Bookers, Stray
    <3>2. /\ Cardinality(Bookers)' <= Cardinality(Stray)
          /\ Cardinality(Stray)' <= Cardinality(Stray)
      BY <3>1, Counted, FS_Subset
    <3>3. /\ Owed' = 1 /\ bookings' = 0
          /\ reclaims' = reclaims /\ unheard' = unheard
      BY <1>1, <1>2, <2>2 DEF Owed
    <3>4. Cardinality(Stray) <= reclaims
      BY DEF IInv, Credit
    <3> QED
      BY <3>2, <3>3, <3>4, Counted, CountedNext DEF Credit
  <2> QED
    BY <1>2, <2>1, <2>2
<1>9. reviews' \in 0..MaxReviews
  BY <1>1
<1> QED
  BY <1>1, <1>2, <1>3, <1>5, <1>6, <1>8, <1>9, WorkerKeeps

-----------------------------------------------------------------------------
LEMMA StutterKeeps == ASSUME IInv, UNCHANGED vars PROVE IInv'
BY DEF IInv, TypeOK, Prepared, ShipmentIsPrepared, Booked, ShippedIsBooked,
       ReportsAreReal, BookingFollows, Credit, Bookers, Stray, MayBook, Strays,
       Holds, Owed, AttemptsFit, RefundIsShown, vars

LEMMA StepKeeps == ASSUME IInv, [Next]_vars PROVE IInv'
<1>1. CASE Requests
  BY <1>1, UpdateTaskKeeps, EditPicklistKeeps, CreateShipmentKeeps,
     TransitionShipmentKeeps DEF Requests
<1>2. CASE RefundStep
  BY <1>2, RefundStepKeeps
<1>3. ASSUME NEW w \in Workers, WorkerStep(w) \/ Crash(w) PROVE IInv'
  BY <1>3, ClaimKeeps, BookKeeps, PrepareKeeps, PostKeeps, RecordKeeps,
     CrashKeeps DEF WorkerStep
<1>4. ASSUME NEW k \in Commands, LeaseExpires(k) PROVE IInv'
  BY <1>4, LeaseExpiresKeeps
<1>5. CASE Reconcile
  BY <1>5, ReconcileKeeps
<1>6. CASE UNCHANGED vars
  BY <1>6, StutterKeeps
<1> QED
  BY <1>1, <1>2, <1>3, <1>4, <1>5, <1>6 DEF Next

\* The induction: every state the installation reaches satisfies IInv.
THEOREM Invariance == Spec => []IInv
<1>1. Init => IInv
  BY InitHolds
<1>2. IInv /\ [Next]_vars => IInv'
  BY StepKeeps
<1> QED
  BY <1>1, <1>2, PTL DEF Spec

\* The statuses, the leases and the attempts of the provider commands keep
\* their types (models.py, provider_commands.py:51).
THEOREM TypeCorrect == Spec => []TypeOK
<1>1. IInv => TypeOK
  BY DEF IInv
<1> QED
  BY <1>1, Invariance, PTL

\* What is handed to a carrier was picked in full, and the order says where it
\* is, for any order and any history of refunds (fulfillment.py:92).
THEOREM ShipmentIsPreparedAlways == Spec => []ShipmentIsPrepared
<1>1. IInv => ShipmentIsPrepared
  BY DEF IInv, Prepared
<1> QED
  BY <1>1, Invariance, PTL

\* What left the warehouse was booked, with any number of workers, crashes and
\* reviews (delivery_providers.py:73).
THEOREM ShippedIsBookedAlways == Spec => []ShippedIsBooked
<1>1. IInv => ShippedIsBooked
  BY DEF IInv, Booked
<1> QED
  BY <1>1, Invariance, PTL

\* The carrier holds at most one booking more than leases that ran out and
\* accepted bookings whose error was tried again, however many workers, retries,
\* crashes and reviews (delivery_provider_jobs.py:55, 124).
THEOREM BookingsAnsweredForAlways == Spec => []BookingsAnsweredFor
<1>1. IInv => BookingsAnsweredFor
  <2> SUFFICES ASSUME IInv PROVE BookingsAnsweredFor
    OBVIOUS
  <2>1. /\ bookings \in Nat /\ reclaims \in Nat /\ unheard \in Nat
        /\ Owed \in Nat
    BY DEF IInv, TypeOK, Owed
  <2> QED
    BY <2>1, Counted DEF IInv, Credit, BookingsAnsweredFor
<1> QED
  BY <1>1, Invariance, PTL

\* A refund under way and a full refund stay visible in the order's status,
\* whatever its task and its shipment do, until a failed delivery is tried again
\* (fulfillment.py:146).
THEOREM RefundIsShownAlways == Spec => []RefundIsShown
<1>1. IInv => RefundIsShown
  BY DEF IInv
<1> QED
  BY <1>1, Invariance, PTL
=============================================================================
