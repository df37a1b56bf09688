------------------------------ MODULE StockSync ------------------------------
(***************************************************************************)
(* The stock of Inventory with the two others that write it: inspections   *)
(* that put returned goods back, and the synchronisation that copies the   *)
(* stock of MoySklad's sellable store.                                     *)
(*                                                                         *)
(* A synchronisation fetches one snapshot and then goes through pages of   *)
(* variants, one transaction each.  For every variant it first decides     *)
(* without a lock whether the snapshot may be trusted, and then locks the  *)
(* row to write it; its locks last until the page commits.  Started by an  *)
(* administrator it does not ask for the scheduler's advisory lock, so     *)
(* several may run at once.  What MoySklad holds is its own business: a    *)
(* snapshot may be anything.                                               *)
(***************************************************************************)
EXTENDS Inventory

CONSTANTS
    Returns,        \* lines <<order, variant>> that an inspection may find resalable
    Syncs,
    Snapshots,      \* the stocks that MoySklad's report may show
    NoVariant

ASSUME ReturnsAssumption == Returns \subseteq Orders \X Variants
ASSUME SnapshotsAssumption == Snapshots \subseteq [Variants -> Nat]
ASSUME NoVariantAssumption == NoVariant \notin Variants

VARIABLES
    event,          \* the inspection event of each line that comes back
    sync

syncVars == <<event, sync>>
allVars == <<stock, reserved, chain, op, locked, customer, event, sync>>

\* floor is the stock its movement recorded, sent whether MoySklad has it,
\* settled that a committed catch-up is younger.  History: how it came to be
\* settled, by a catch-up that had looked at it or by one that could not.
EventRecord == [at : {"none", "stamped", "committed"}, floor : Nat, sent : BOOLEAN,
                settled : BOOLEAN, cleared : BOOLEAN, overlooked : BOOLEAN]

\* next is the variant in hand, decided on but not yet written; writes says
\* whether it is to become target, seen the returns its catch-up is about.
\* settles and clears are what the page's catch-ups do to which returns.
\* History: the returns that were committed while their variant was in hand.
SyncRecord == [at : {"idle", "paging"}, snapshot : [Variants -> Nat],
               done : SUBSET Variants, next : Variants \cup {NoVariant},
               writes : BOOLEAN, target : Nat, seen : SUBSET Returns,
               held : SUBSET Variants, write : [Variants -> Nat],
               settles : SUBSET Returns, clears : SUBSET Returns,
               raced : SUBSET Returns]

Nothing == [v \in Variants |-> 0]
Resting == [at |-> "idle", snapshot |-> Nothing, done |-> {}, next |-> NoVariant,
            writes |-> FALSE, target |-> 0, seen |-> {}, held |-> {},
            write |-> Nothing, settles |-> {}, clears |-> {}, raced |-> {}]

SyncTypeOK ==
    /\ event \in [Returns -> EventRecord]
    /\ sync \in [Syncs -> SyncRecord]

SyncInit ==
    /\ Init
    /\ event = [r \in Returns |-> [at |-> "none", floor |-> 0, sent |-> FALSE,
                                   settled |-> FALSE, cleared |-> FALSE,
                                   overlooked |-> FALSE]]
    /\ sync = [s \in Syncs |-> Resting]

VariantOf(r) == r[2]
Of(v) == {r \in Returns : VariantOf(r) = v}

\* No synchronisation holds the row.
Unheld(v) == \A s \in Syncs : v \notin sync[s].held

-----------------------------------------------------------------------------
(* Orders and administrators, who wait for the rows a synchronisation holds. *)

\* What a transaction of the shop does next.
Proceeds(o) ==
    \/ LockCustomer(o)
    \/ \E v \in Variants : Unheld(v) /\ LockRow(o, v)
    \/ CommitReservation(o) \/ CommitSale(o) \/ CommitRelease(o)

Shop ==
    /\ \/ \E o \in Orders :
             \/ \E kind \in Operations : Begin(o, kind)
             \/ Proceeds(o)
             \/ Rollback(o)
       \/ \E v \in Variants, q \in 0..MaxStock : Unheld(v) /\ AdjustStock(v, q)
    /\ UNCHANGED syncVars

-----------------------------------------------------------------------------
(* Inspections.                                                            *)

OnlyEvent == UNCHANGED <<stock, reserved, chain, op, locked, customer, sync>>

\* inspect_item creates the event, and with it its time, before it locks the row.
Stamp(r) ==
    /\ event[r].at = "none"
    /\ chain[r[1]] = "sold"
    /\ event' = [event EXCEPT ![r].at = "stamped"]
    /\ OnlyEvent

\* The row is locked, the goods are put back and the transaction commits.
Restock(r, n) ==
    LET v == VariantOf(r)
    IN /\ event[r].at = "stamped"
       /\ n <= Lines[r[1]][v]
       /\ RowFree(v) /\ Unheld(v)
       /\ stock' = [stock EXCEPT ![v] = @ + n]
       /\ event' = [event EXCEPT ![r].at = "committed", ![r].floor = stock[v] + n]
       /\ sync' = [s \in Syncs |-> IF sync[s].next = v
                                   THEN [sync[s] EXCEPT !.raced = @ \cup {r}]
                                   ELSE sync[s]]
       /\ UNCHANGED <<reserved, chain, op, locked, customer>>

\* The last command about the case is sent, whichever disposition it is for.
\* That a newer one about the same case blocks again until it is sent as well,
\* is left out.
CommandSent(r) ==
    /\ event[r].at = "committed"
    /\ ~event[r].sent
    /\ event' = [event EXCEPT ![r].sent = TRUE]
    /\ OnlyEvent

-----------------------------------------------------------------------------
(* The synchronisation.                                                    *)

OnlySync == UNCHANGED <<stock, reserved, chain, op, locked, customer, event>>
Goes(s, to) == sync' = [sync EXCEPT ![s] = to]

\* fetch_sellable_store_stock_snapshot; a variant that is not in the report
\* counts as zero.
SyncStarts(s) ==
    /\ sync[s].at = "idle"
    /\ \E q \in Snapshots :
          Goes(s, [Resting EXCEPT !.at = "paging", !.snapshot = q])
    /\ OnlySync

\* _pending_resalable_evidence.
Pending(v) == {r \in Of(v) : event[r].at = "committed" /\ ~event[r].settled}

\* What the snapshot of s may do to the return r: MoySklad has it, and shows
\* the stock the inspection left (_provider_returns_exported and
\* _physical_ledger_floor).
Reaches(s, r) == event[r].sent /\ event[r].floor <= sync[s].snapshot[VariantOf(r)]

\* Variant: a return that MoySklad knows of is taken to be in its report.
CaughtUpWhenSent(s, v) == \A r \in Pending(v) : event[r].sent

CaughtUp(s, v) == \A r \in Pending(v) : Reaches(s, r)

\* evaluate_moysklad_stock_snapshot: what it would write, and whether it may.
Target(s, v) == IF sync[s].snapshot[v] < reserved[v] THEN reserved[v]
                ELSE sync[s].snapshot[v]

Evaluate(s, v) ==
    /\ sync[s].at = "paging" /\ sync[s].next = NoVariant
    /\ v \notin sync[s].done
    /\ Goes(s, IF CaughtUp(s, v) /\ (Pending(v) # {} \/ Target(s, v) # stock[v])
               THEN [sync[s] EXCEPT !.next = v, !.target = Target(s, v),
                                    !.writes = Target(s, v) # stock[v],
                                    !.seen = Pending(v)]
               ELSE [sync[s] EXCEPT !.done = @ \cup {v}])
    /\ OnlySync

\* The end of the variant's row: a write that got through, and the time of a
\* catch-up, which all events that bear an earlier one are older than.
Finished(s) ==
    LET v == sync[s].next
    IN [sync[s] EXCEPT
          !.done = @ \cup {v}, !.next = NoVariant, !.writes = FALSE, !.target = 0,
          !.held = IF sync[s].writes THEN @ \cup {v} ELSE @,
          !.write = IF sync[s].writes THEN [@ EXCEPT ![v] = sync[s].target] ELSE @,
          !.settles = IF sync[s].seen # {}
                      THEN @ \cup {r \in Of(v) : event[r].at # "none"} ELSE @,
          !.clears = @ \cup sync[s].seen, !.seen = {}]

\* Variant: what was decided is written without another look.
FinishUnchecked(s) ==
    LET v == sync[s].next
    IN /\ v # NoVariant
       /\ sync[s].writes => RowFree(v) /\ Unheld(v)
       /\ Goes(s, Finished(s))
       /\ OnlySync

\* adjust_stock, of a target below what is reserved by now: an error that ends
\* the synchronisation, its page included.
Finish(s) ==
    LET v == sync[s].next
    IN /\ v # NoVariant
       /\ sync[s].writes => RowFree(v) /\ Unheld(v)
       /\ Goes(s, IF sync[s].writes /\ sync[s].target < reserved[v] THEN Resting
                  ELSE Finished(s))
       /\ OnlySync

\* The page commits.
SyncCommits(s) ==
    LET my == sync[s]
    IN /\ my.at = "paging" /\ my.next = NoVariant
       /\ my.held # {} \/ my.settles # {}
       /\ stock' = [v \in Variants |-> IF v \in my.held THEN my.write[v] ELSE stock[v]]
       /\ event' = [r \in Returns |->
                      IF r \in my.settles
                      THEN [event[r] EXCEPT !.settled = TRUE,
                                            !.cleared = @ \/ r \in my.clears,
                                            !.overlooked = @ \/ r \notin my.clears]
                      ELSE event[r]]
       /\ Goes(s, [my EXCEPT !.held = {}, !.write = Nothing, !.settles = {},
                             !.clears = {}, !.raced = {}])
       /\ UNCHANGED <<reserved, chain, op, locked, customer>>

\* The last page is done, or MoySklad does not answer.
SyncEnds(s) ==
    /\ sync[s].at = "paging" /\ sync[s].next = NoVariant
    /\ sync[s].held = {} /\ sync[s].settles = {}
    /\ Goes(s, Resting)
    /\ OnlySync

\* An error, a process that dies, or a wait that the database ends because it
\* is part of a circle.
SyncAborts(s) ==
    /\ sync[s].at = "paging"
    /\ Goes(s, Resting)
    /\ OnlySync

-----------------------------------------------------------------------------
ReturnStep(r) ==
    \/ Stamp(r) \/ CommandSent(r)
    \/ \E n \in 1..Lines[r[1]][VariantOf(r)] : Restock(r, n)

SyncStep(s) ==
    \/ SyncStarts(s) \/ Finish(s) \/ SyncCommits(s) \/ SyncEnds(s) \/ SyncAborts(s)
    \/ \E v \in Variants : Evaluate(s, v)

SyncNext ==
    \/ Shop
    \/ \E r \in Returns : ReturnStep(r)
    \/ \E s \in Syncs : SyncStep(s)

SyncSpec == SyncInit /\ [][SyncNext]_allVars

(***************************************************************************)
(* A transaction of the shop runs on, and the database grants a row lock   *)
(* in the order it was asked for: one that is free again and again is      *)
(* granted.  A transaction of the synchronisation goes on or fails: the    *)
(* database ends one that is part of a circle of waits.                    *)
(***************************************************************************)
SyncFairness ==
    /\ \A o \in Orders : SF_allVars(Proceeds(o) /\ UNCHANGED syncVars)
    /\ \A s \in Syncs : WF_allVars(Finish(s) \/ SyncCommits(s) \/ SyncAborts(s))

FairSyncSpec == SyncSpec /\ SyncFairness

-----------------------------------------------------------------------------
(***************************************************************************)
(* Properties.                                                             *)
(***************************************************************************)

(***************************************************************************)
(* "While resalable physical-return evidence is not fully reconciled, no   *)
(* differing absolute MoySklad snapshot may overwrite the local variant"   *)
(* (evaluate_moysklad_stock_snapshot).  Whatever returns are committed,    *)
(* exported and settled by other synchronisations around it, a row that a  *)
(* synchronisation is about to overwrite has only returns that its         *)
(* snapshot reaches or an earlier catch-up has looked at; but for those    *)
(* committed between the unlocked decision and the row's lock, and those   *)
(* whose event was stamped before a catch-up and committed after it.       *)
(***************************************************************************)
ReturnsAreKept ==
    \A s \in Syncs : \A v \in sync[s].held : \A r \in Of(v) :
        event[r].at = "committed" /\ r \notin sync[s].raced /\ ~event[r].overlooked
            => Reaches(s, r) \/ event[r].cleared

(***************************************************************************)
(* Row locks taken one by one, checks made when a row is locked, and all   *)
(* other writers let in between: yet every transaction that commits does   *)
(* what it would have done alone.                                          *)
(***************************************************************************)
Ledger == INSTANCE StockLedger
ImplementsLedger == Ledger!Spec

=============================================================================
