-------------------------- MODULE ReverseLogistics --------------------------
(***************************************************************************)
(* Goods that come back: the physical cases of one order, from their       *)
(* authorization to inspection and to the end of quarantine, the stock     *)
(* they put back, and the documents the provider worker creates for them   *)
(* in MoySklad.                                                            *)
(*                                                                         *)
(* Every request locks the order first, so all cases of an order serialize *)
(* and each request is one action.  A request repeated with its            *)
(* idempotency key finds its event and changes nothing; it is left out, as *)
(* are its error answers.  The lease of a provider command is the subject  *)
(* of module Shipping: here one action is one attempt of the worker.       *)
(*                                                                         *)
(* Its proofs stand beside those of Refunds: names that both would use     *)
(* start with Goods here.                                                  *)
(***************************************************************************)
EXTENDS OrderMoney, FiniteSets, SequencesExt

CONSTANTS
    Cases,          \* return requests that may get a physical case
    Lines,          \* 1..n, the lines of the order
    Sales,          \* the orders to consider: quantity and gross of each line,
                    \* and what the merchandise was sold for
    Moves           \* reclassification events, in the order of their ids

ASSUME CasesAssumption == IsFiniteSet(Cases) /\ Cases \subseteq Nat
ASSUME MovesAssumption == IsFiniteSet(Moves)
ASSUME LinesAssumption == IsFiniteSet(Lines) /\ Lines = 1..Cardinality(Lines)
\* A line of which nothing was ordered has no money; an order with fewer lines
\* has the last ones.
ASSUME SalesAssumption ==
    \A s \in Sales : /\ s.quantity \in [Lines -> Nat]
                     /\ s.gross \in [Lines -> Nat]
                     /\ \A l \in Lines : s.quantity[l] = 0 => s.gross[l] = 0
                     /\ s.gross[Cardinality(Lines)] > 0
                     /\ s.target \in 0..RestOf(s.gross, 1)

VARIABLES
    sale,           \* fixed: the order
    defective,      \* fixed: the stored breakdown of its money does not add up
    status,         \* of each case
    item,           \* quantities of each line of each case
    evidence,       \* sums of the inspection events, by disposition
    completed,      \* cases in the order in which their inspection ended
    restocked,      \* units of each line put back in stock
    demand,         \* MoySklad has the order's demand
    command,        \* the command of each case and disposition
    payload,        \* money its commands carry for each line
    documents,      \* sales returns that MoySklad holds
    move            \* quarantine moves, with their command

goodsVars == <<sale, defective, status, item, evidence, completed, restocked, demand,
          command, payload, documents, move>>

CaseStatus == {"none", "authorized", "in_transit", "received", "inspected"}
CommandStatus == {"none", "pending", "sent", "failed", "review_required"}
Quantities == [authorized : Nat, received : Nat, inspected : Nat,
               resalable : Nat, damaged : Nat, quarantine : Nat]
Counts == [Dispositions -> Nat]
Targets == {"resalable", "damaged"}
MoveRecord == [kase : Cases, line : Lines, quantity : Nat, target : Targets,
               status : CommandStatus, exists : BOOLEAN]
NoMove == [status |-> "none"]
NothingGiven == [l \in Lines |-> 0]

GoodsTypeOK ==
    /\ sale \in Sales
    /\ defective \in BOOLEAN
    /\ status \in [Cases -> CaseStatus]
    /\ item \in [Cases -> [Lines -> Quantities]]
    /\ evidence \in [Cases -> [Lines -> Counts]]
    /\ completed \in Seq(Cases)
    /\ restocked \in [Lines -> Nat]
    /\ demand \in BOOLEAN
    /\ command \in [Cases -> [Dispositions -> CommandStatus]]
    /\ payload \in [Cases -> [Lines -> Nat]]
    /\ documents \in SUBSET (Cases \X Dispositions)
    /\ move \in [Moves -> MoveRecord \cup {NoMove}]

NoCounts == [d \in Dispositions |-> 0]

GoodsInit ==
    /\ sale \in Sales
    /\ defective \in BOOLEAN
    /\ status = [c \in Cases |-> "none"]
    /\ item = [c \in Cases |-> [l \in Lines |->
                 [authorized |-> 0, received |-> 0, inspected |-> 0,
                  resalable |-> 0, damaged |-> 0, quarantine |-> 0]]]
    /\ evidence = [c \in Cases |-> [l \in Lines |-> NoCounts]]
    /\ completed = <<>>
    /\ restocked = [l \in Lines |-> 0]
    /\ demand = FALSE
    /\ command = [c \in Cases |-> [d \in Dispositions |-> "none"]]
    /\ payload = [c \in Cases |-> NothingGiven]
    /\ documents = {}
    /\ move = [m \in Moves |-> NoMove]

-----------------------------------------------------------------------------
(* Money.                                                                  *)

\* What is left of line l, in units and cents, after each of these cases, if
\* they were inspected as its says.
LineLeft(order, its, l) ==
    LET left[i \in 0..Len(order)] ==
            IF i = 0 THEN [units |-> sale.quantity[l],
                           cents |-> NetLines(sale.gross, sale.target)[l]]
            ELSE LET was == left[i - 1]
                     back == its[order[i]][l].inspected
                 IN IF back = 0 THEN was
                    ELSE [units |-> was.units - back,
                          cents |-> was.cents - Share(was.cents, back, was.units)]
    IN left

\* Variant: the cases share in the order of their ids.
AllocationById(order, its, c) ==
    LET byId == SetToSortSeq(ToSet(order), <)
        i == CHOOSE i \in DOMAIN byId : byId[i] = c
    IN [l \in Lines |-> LineLeft(byId, its, l)[i - 1].cents
                        - LineLeft(byId, its, l)[i].cents]

\* _build_physical_return_allocation: the money of case c, which shares after
\* the cases that were completed before it.
Allocation(order, its, c) ==
    LET i == CHOOSE i \in DOMAIN order : order[i] = c
    IN [l \in Lines |-> LineLeft(order, its, l)[i - 1].cents
                        - LineLeft(order, its, l)[i].cents]

-----------------------------------------------------------------------------
(* Requests about a case.                                                  *)

\* _refresh_case.
Refreshed(c, its) ==
    LET total(field) == SumFunction([l \in Lines |-> its[c][l][field]])
    IN CASE total("inspected") = total("authorized") -> "inspected"
         [] total("inspected") # total("authorized")
            /\ total("received") = total("authorized") -> "received"
         [] OTHER -> IF status[c] = "in_transit" THEN "in_transit" ELSE "authorized"

\* Variant: sibling cases do not count.
AuthorizedNowhere(c, l) == 0

\* _authorized_elsewhere.
AuthorizedElsewhere(c, l) ==
    SumFunction([other \in Cases \ {c} |-> item[other][l].authorized])

Orders == UNCHANGED <<sale, defective, demand, documents>>

Counting(counts, field, n) == [counts EXCEPT ![field] = @ + n]

\* The first request creates the case.
Authorize(c, l, n) ==
    /\ status[c] \in {"none", "authorized"}
    /\ item[c][l].authorized = 0
    /\ AuthorizedElsewhere(c, l) + n <= sale.quantity[l]
    /\ item' = [item EXCEPT ![c][l].authorized = n]
    /\ status' = [status EXCEPT ![c] = Refreshed(c, item')]
    /\ UNCHANGED <<evidence, completed, restocked, command, payload, move>>
    /\ Orders

MarkInTransit(c) ==
    /\ status[c] = "authorized"
    /\ status' = [status EXCEPT ![c] = "in_transit"]
    /\ UNCHANGED <<item, evidence, completed, restocked, command, payload, move>>
    /\ Orders

Receive(c, l, n) ==
    /\ status[c] \in {"in_transit", "received"}
    /\ item[c][l].received + n <= item[c][l].authorized
    /\ item' = [item EXCEPT ![c][l].received = @ + n]
    /\ status' = [status EXCEPT ![c] = Refreshed(c, item')]
    /\ UNCHANGED <<evidence, completed, restocked, command, payload, move>>
    /\ Orders

Inspected(c, d) == SumFunction([l \in Lines |-> evidence'[c][l][d]])

\* enqueue_moysklad_physical_sales_return, when c's inspection has ended: one
\* command for each disposition, or one that carries the money's defect.
EnqueueReturns(c) ==
    /\ payload' = [payload EXCEPT ![c] =
                      IF defective THEN NothingGiven
                      ELSE Allocation(completed', item', c)]
    /\ command' = [command EXCEPT ![c] = [d \in Dispositions |->
                      IF (IF defective THEN d = "resalable" ELSE Inspected(c, d) > 0)
                      THEN "pending" ELSE "none"]]

Inspect(c, l, n, d) ==
    /\ status[c] \in {"received", "inspected"}
    /\ item[c][l].inspected + n <= item[c][l].received
    /\ item' = [item EXCEPT ![c][l] = Counting(Counting(@, "inspected", n), d, n)]
    /\ evidence' = [evidence EXCEPT ![c][l][d] = @ + n]
    /\ restocked' = IF d = "resalable" THEN [restocked EXCEPT ![l] = @ + n]
                    ELSE restocked
    /\ status' = [status EXCEPT ![c] = Refreshed(c, item')]
    /\ IF status'[c] = "inspected"
       THEN completed' = Append(completed, c) /\ EnqueueReturns(c)
       ELSE UNCHANGED <<completed, command, payload>>
    /\ UNCHANGED move
    /\ Orders

\* Variant: a receipt that was asked for is good enough.
ReceiptAskedFor(c) == command[c]["quarantine"] # "none"

\* _require_provider_quarantine_receipt.
ReceiptConfirmed(c) == command[c]["quarantine"] = "sent"

\* Variant: what was resolved before is not subtracted.
InspectedInQuarantine(c, l) == evidence[c][l]["quarantine"]

InQuarantine(c, l) == item[c][l].quarantine

\* resolve_quarantine_item and enqueue_moysklad_quarantine_move, which refuses
\* a variant without a MoySklad id and takes the resolution back with it.
ResolveQuarantine(c, l, n, d, m) ==
    /\ ReceiptConfirmed(c)
    /\ status[c] = "inspected"
    /\ n <= InQuarantine(c, l)
    /\ move[m].status = "none"
    /\ item' = [item EXCEPT ![c][l] = Counting(Counting(@, "quarantine", -n), d, n)]
    /\ restocked' = IF d = "resalable" THEN [restocked EXCEPT ![l] = @ + n]
                    ELSE restocked
    /\ move' = [move EXCEPT ![m] = [kase |-> c, line |-> l, quantity |-> n,
                                    target |-> d, status |-> "pending",
                                    exists |-> FALSE]]
    /\ UNCHANGED <<status, evidence, completed, command, payload>>
    /\ Orders

-----------------------------------------------------------------------------
(* The provider worker.                                                    *)

Warehouse == UNCHANGED <<sale, defective, status, item, evidence, completed,
                         restocked, payload>>

DemandSent ==
    /\ ~demand
    /\ demand' = TRUE
    /\ UNCHANGED <<command, documents, move>>
    /\ Warehouse

\* _prepare_physical_return_snapshot: the evidence still is what the command's
\* money was computed from.
EvidenceHolds(c) ==
    /\ ~defective
    /\ payload[c] = Allocation(completed, item, c)
    /\ \A l \in Lines : SumFunction([d \in Dispositions |-> item[c][l][d]])
                            = item[c][l].inspected

\* One attempt to export a sales return.  Without the demand it can only be
\* tried again, until the attempts are used up; a mapping may be missing, an
\* answer ambiguous or an error retried, and a worker may die after MoySklad
\* has created the document: the row is then claimed and sent again, and the
\* syncId finds the document.
ExportReturn(c, d) ==
    /\ command[c][d] = "pending"
    /\ \/ /\ EvidenceHolds(c) /\ demand
          /\ documents' = documents \cup {<<c, d>>}
          /\ \E outcome \in {"sent", "review_required", "pending"} :
                command' = [command EXCEPT ![c][d] = outcome]
       \/ /\ EvidenceHolds(c)
          /\ command' = [command EXCEPT ![c][d] = "failed"]
          /\ UNCHANGED documents
       \/ /\ command' = [command EXCEPT ![c][d] = "review_required"]
          /\ UNCHANGED documents
    /\ UNCHANGED <<demand, move>>
    /\ Warehouse

\* One attempt to export a quarantine move.
ExportMove(m) ==
    /\ move[m].status = "pending"
    /\ \/ \E outcome \in {"sent", "review_required", "pending"} :
             move' = [move EXCEPT ![m].status = outcome, ![m].exists = TRUE]
       \/ \E outcome \in {"failed", "review_required"} :
             move' = [move EXCEPT ![m].status = outcome]
    /\ UNCHANGED <<demand, command, documents>>
    /\ Warehouse

-----------------------------------------------------------------------------
Units == UNION {1..sale.quantity[l] : l \in Lines}

Request(c) ==
    \/ MarkInTransit(c)
    \/ \E l \in Lines, n \in Units :
          \/ Authorize(c, l, n)
          \/ Receive(c, l, n)
          \/ \E d \in Dispositions : Inspect(c, l, n, d)
          \/ \E d \in Targets, m \in Moves : ResolveQuarantine(c, l, n, d, m)

Worker ==
    \/ \E c \in Cases, d \in Dispositions : ExportReturn(c, d)
    \/ \E m \in Moves : ExportMove(m)

GoodsNext ==
    \/ \E c \in Cases : Request(c)
    \/ Worker
    \/ DemandSent

GoodsSpec == GoodsInit /\ [][GoodsNext]_goodsVars

-----------------------------------------------------------------------------
Back(l, field) == SumFunction([c \in Cases |-> item[c][l][field]])

\* What comes back in all cases of an order was sold by it, and the stock got
\* back just what was found resalable, at inspection or after quarantine
\* (reverse_logistics.py:156, 422, 510).
RestockedIsSold ==
    \A l \in Lines :
       /\ Back(l, "authorized") <= sale.quantity[l]
       /\ restocked[l] = Back(l, "resalable")
       /\ restocked[l] <= sale.quantity[l]

\* The money of the cases divides each line's money without a remainder, what
\* one case was given never changes when another is completed, and the
\* dispositions of a case and the prices of its documents divide it exactly
\* (moysklad_reverse_return.py:228, 447, 627).
AllocationIsExact ==
    LET priced == IF defective THEN {} ELSE ToSet(completed)
        given(l) == SumFunction([c \in priced |-> payload[c][l]])
        net(l) == NetLines(sale.gross, sale.target)[l]
    IN /\ \A c \in priced : payload[c] = Allocation(completed, item, c)
       /\ ~defective => \A l \in Lines :
             /\ given(l) <= net(l)
             /\ SumFunction([c \in priced |-> item[c][l].inspected]) = sale.quantity[l]
                  => given(l) = net(l)
       /\ \A c \in priced, l \in Lines :
             LET split == SplitCents(evidence[c][l], payload[c][l])
             IN item[c][l].inspected > 0 =>
                  /\ SumFunction(split) = payload[c][l]
                  /\ \A d \in Dispositions :
                        RenderedCents(evidence[c][l][d], split[d]) = split[d]

\* MoySklad's books follow the warehouse: a sales return exists only for goods
\* inspected under its disposition, and its quarantine store never gives out
\* more of a case than it received (api/reverse_logistics.py:312).
BooksFollowWarehouse ==
    /\ \A doc \in documents : /\ status[doc[1]] = "inspected"
                              /\ \E l \in Lines : evidence[doc[1]][l][doc[2]] > 0
    /\ \A c \in Cases, l \in Lines :
          LET out(m) == /\ move[m].status # "none"
                        /\ move[m].kase = c
                        /\ move[m].line = l
                        /\ move[m].exists
          IN SumFunction([m \in Moves |-> IF out(m) THEN move[m].quantity ELSE 0])
               <= IF <<c, "quarantine">> \in documents
                  THEN evidence[c][l]["quarantine"] ELSE 0

=============================================================================
