---------------------------- MODULE PilotProofs ----------------------------
(***************************************************************************)
(* Proofs about the pilot: types and table constraints, one order at a     *)
(* time, no payment while it is stopped, and an anchor that only advances. *)
(*                                                                         *)
(* The argument is about the row's lock.  Whoever holds it over several    *)
(* steps checked the row, the slots and the control file when it took it;  *)
(* nobody but a restored database changes the row or the slots before it   *)
(* lets go, so what was checked still holds when it acts.                  *)
(***************************************************************************)
EXTENDS Pilot, TLAPS

\* What the tables demand of the runtime row r and the slots s.
Consistent(r, s) ==
    /\ {n \in Scenarios : s[n] # NoOrder} = 1..r.accepted
    /\ \A m, n \in Scenarios :
          s[m] # NoOrder /\ s[n] # NoOrder /\ s[m] = s[n] => m = n
    /\ r.status = "closed" => r.accepted = 0 /\ r.anchor = None
    /\ r.status = "active" => r.accepted < MaxOrders
    /\ r.status = "completed" => r.accepted = MaxOrders

Types ==
    /\ row \in Rows
    /\ slot \in [Scenarios -> Orders \cup {NoOrder}]
    /\ review \subseteq Orders /\ sent \subseteq Orders
    /\ lock \in Holders \cup {Free}
    /\ file \in Versions
    /\ minted \in Nat
    /\ writer \in [Operators -> Drafts \cup {None}]
    /\ arming \in Versions \cup {None}
    /\ backup \in [row : Rows, slot : [Scenarios -> Orders \cup {NoOrder}],
                   review : SUBSET Orders] \cup {None}

\* A restored database is one the pilot has been in, and not ahead of it.
BackupFits ==
    backup # None => /\ Consistent(backup.row, backup.slot)
                     /\ backup.row.accepted <= row.accepted

\* What the holder of the lock checked still holds.
LockHolds ==
    lock # Free =>
       /\ row.status \in {"active", "completed"}
       /\ Descends(lock.read, row.anchor)
       /\ lock.kind = "checkout" =>
             /\ row.status = "active"
             /\ \A n \in Scenarios : slot[n] # lock.order
             /\ \A n \in Taken : lock.read.verdict[n] = slot[n]
             /\ ~SaysStop(lock.read.verdict)

IInv == Types /\ Consistent(row, slot) /\ BackupFits /\ LockHolds

-----------------------------------------------------------------------------
(* Facts about single operators.                                           *)

LEMMA StoppedKeeps ==
    ASSUME NEW r \in Rows, NEW s, Consistent(r, s)
    PROVE  /\ Stopped(r) \in Rows /\ Consistent(Stopped(r), s)
           /\ Stopped(r).accepted = r.accepted /\ Stopped(r).anchor = r.anchor
BY DEF Stopped, Rows, Status, Consistent

LEMMA HaltedKeeps ==
    ASSUME NEW r \in Rows, NEW s, Consistent(r, s)
    PROVE  /\ Halted(r) \in Rows /\ Consistent(Halted(r), s)
           /\ Halted(r).accepted = r.accepted /\ Halted(r).anchor = r.anchor
BY DEF Halted, Rows, Status, Consistent

\* Nothing of the row, the slots, the lock and the backup moves.
LEMMA CoreUnchanged ==
    ASSUME IInv, UNCHANGED <<row, slot, lock, backup>>
    PROVE  Consistent(row, slot)' /\ BackupFits' /\ LockHolds'
BY DEF IInv, BackupFits, LockHolds, Consistent, Taken, Scenarios, Descends,
       SaysStop

\* The row is stopped, or armed, while nobody holds its lock.
LEMMA UnheldRow ==
    ASSUME IInv, lock = Free, row' \in Rows, Consistent(row', slot),
           row'.accepted = row.accepted, UNCHANGED <<slot, lock, backup>>
    PROVE  Consistent(row, slot)' /\ BackupFits' /\ LockHolds'
BY DEF IInv, BackupFits, LockHolds, Consistent, Scenarios

LEMMA InitHolds == Init => IInv
<1> SUFFICES ASSUME Init PROVE IInv
  OBVIOUS
<1>1. Types
  <2>1. file \in Versions
    BY MaxOrdersAssumption DEF Init, NewFile, Versions, Verdicts
  <2>2. row \in Rows
    BY MaxOrdersAssumption DEF Init, Rows, Status
  <2> QED
    BY <2>1, <2>2 DEF Init, Types
<1>2. Consistent(row, slot)
  BY MaxOrdersAssumption DEF Init, Consistent, Scenarios
<1>3. BackupFits /\ LockHolds
  BY DEF Init, BackupFits, LockHolds
<1> QED
  BY <1>1, <1>2, <1>3 DEF IInv

-----------------------------------------------------------------------------
(* The steps that leave the row, the slots, the lock and the backup alone. *)

LEMMA RecordReadsKeeps ==
    ASSUME IInv, NEW w \in Operators, NEW n \in Scenarios, NEW v \in Verdicts,
           RecordReads(w, n, v)
    PROVE  IInv'
<1>1. [base |-> file, next |-> [file.verdict EXCEPT ![n] = v]] \in Drafts
  BY DEF IInv, Types, Versions, Drafts
<1>2. Types'
  BY <1>1 DEF RecordReads, IInv, Types, database
<1> QED
  BY <1>2, CoreUnchanged DEF RecordReads, IInv, database

LEMMA RecordSavesKeeps ==
    ASSUME IInv, NEW w \in Operators, RecordSaves(w)
    PROVE  IInv'
<1>1. writer[w] \in Drafts
  BY DEF RecordSaves, IInv, Types
<1>2. file' \in Versions /\ minted' \in Nat
  <2>1. file \in Versions /\ minted \in Nat
    BY DEF IInv, Types
  <2>2. CASE file = writer[w].base
    <3>1. minted' = minted + 1
          /\ file' = [id |-> minted', past |-> Append(file.past, file.id),
                      verdict |-> writer[w].next]
      BY <2>2 DEF RecordSaves
    <3>2. file.past \in Seq(Nat) /\ file.id \in Nat
      BY <2>1 DEF Versions
    <3>3. Append(file.past, file.id) \in Seq(Nat)
      BY <3>2
    <3>4. writer[w].next \in [Scenarios -> Verdicts]
      BY <1>1 DEF Drafts
    <3> QED
      BY <2>1, <3>1, <3>3, <3>4 DEF Versions
  <2>3. CASE file # writer[w].base
    BY <2>1, <2>3 DEF RecordSaves
  <2> QED
    BY <2>2, <2>3
<1>3. Types'
  BY <1>2 DEF RecordSaves, IInv, Types, database
<1> QED
  BY <1>3, CoreUnchanged DEF RecordSaves, IInv, database

LEMMA InitAnewKeeps == ASSUME IInv, InitAnew PROVE IInv'
<1>1. file' \in Versions /\ minted' \in Nat
  BY DEF InitAnew, NewFile, IInv, Types, Versions, Verdicts
<1>2. Types'
  BY <1>1 DEF InitAnew, IInv, Types, database
<1> QED
  BY <1>2, CoreUnchanged DEF InitAnew, IInv, database

LEMMA PutBackKeeps == ASSUME IInv, PutBack PROVE IInv'
<1>1. Copies \subseteq Versions
  <2>1. row.anchor \in Versions \cup {None} /\ arming \in Versions \cup {None}
    BY DEF IInv, Types, Rows
  <2>2. ASSUME NEW w \in Operators, writer[w] # None
        PROVE  writer[w].base \in Versions
    BY <2>2 DEF IInv, Types, Drafts
  <2>3. ASSUME NEW b \in {backup} \ {None}
        PROVE  b.row.anchor \in Versions \cup {None}
    BY <2>3 DEF IInv, Types, Rows
  <2> QED
    BY <2>1, <2>2, <2>3 DEF Copies
<1>2. Types'
  BY <1>1 DEF PutBack, IInv, Types, database
<1> QED
  BY <1>2, CoreUnchanged DEF PutBack, IInv, database

LEMMA ArmReadsKeeps == ASSUME IInv, ArmReads PROVE IInv'
<1>1. Types'
  BY DEF ArmReads, IInv, Types, database, control
<1> QED
  BY <1>1, CoreUnchanged DEF ArmReads, IInv, database

LEMMA ReviewKeeps ==
    ASSUME IInv, NEW o \in Orders, ReviewOpensQuietly(o) \/ ReviewCloses(o)
    PROVE  IInv'
<1>1. Types'
  BY DEF ReviewOpensQuietly, ReviewCloses, Admitted, IInv, Types, control
<1> QED
  BY <1>1, CoreUnchanged DEF ReviewOpensQuietly, ReviewCloses, IInv

LEMMA PaymentPostsKeeps == ASSUME IInv, PaymentPosts PROVE IInv'
<1>1. Types'
  BY DEF PaymentPosts, IInv, Types, Holders, database, control
<1> QED
  BY <1>1, CoreUnchanged DEF PaymentPosts, IInv, database

-----------------------------------------------------------------------------
(* The steps that stop or arm the row.                                     *)

LEMMA StopsKeep ==
    ASSUME IInv, NEW o \in Orders,
           OperatorStops \/ ReviewOpens(o) \/ Trips(o)
    PROVE  IInv'
<1>1. row \in Rows /\ Consistent(row, slot)
  BY DEF IInv, Types
<1>2. row' = Stopped(row)
  BY DEF OperatorStops, ReviewOpens, Trips, Stopped
<1>3. row' \in Rows /\ Consistent(row', slot) /\ row'.accepted = row.accepted
  BY <1>1, <1>2, StoppedKeeps
<1>4. lock = Free /\ UNCHANGED <<slot, lock, backup>>
  BY DEF OperatorStops, ReviewOpens, Trips, Unlocked
<1>5. Types'
  BY <1>3 DEF OperatorStops, ReviewOpens, Trips, IInv, Types, Admitted, control
<1> QED
  BY <1>3, <1>4, <1>5, UnheldRow DEF IInv

\* What a failed check does to the row: it stops, perhaps on a new anchor that
\* descends from the old one.
LEMMA AutoStopRow ==
    ASSUME IInv, AutoStop
    PROVE  /\ row' \in Rows /\ Consistent(row', slot)
           /\ row'.accepted = row.accepted
           /\ \/ row'.anchor = row.anchor
              \/ row'.anchor = file /\ Descends(file, row.anchor)
<1>1. row \in Rows /\ Consistent(row, slot) /\ file \in Versions
  BY DEF IInv, Types
<1>2. /\ Stopped(row) \in Rows /\ Consistent(Stopped(row), slot)
      /\ Stopped(row).accepted = row.accepted /\ Stopped(row).anchor = row.anchor
  BY <1>1, StoppedKeeps
<1>3. CASE row' = Stopped(row)
  BY <1>2, <1>3
<1>4. CASE /\ row.status = "active" /\ Safe
           /\ row' = [Stopped(row) EXCEPT !.anchor = file]
  <2>1. /\ row' \in Rows /\ row'.accepted = row.accepted
        /\ row'.status = "stopped" /\ row'.anchor = file
    BY <1>1, <1>2, <1>4 DEF Rows, Stopped
  <2>2. Consistent(row', slot)
    BY <1>1, <2>1 DEF Consistent
  <2>3. Descends(file, row.anchor)
    BY <1>4 DEF Safe, FileHolds
  <2> QED
    BY <2>1, <2>2, <2>3
<1> QED
  BY <1>3, <1>4 DEF AutoStop

LEMMA ArmAppliesKeeps == ASSUME IInv, ArmApplies PROVE IInv'
<1>1. row \in Rows /\ Consistent(row, slot)
  BY DEF IInv, Types
<1>2. /\ row' \in Rows /\ Consistent(row', slot)
      /\ row'.accepted = row.accepted
  <2>1. CASE UNCHANGED row
    BY <1>1, <2>1
  <2>2. CASE MayArm /\ row' = [row EXCEPT !.status = "active", !.anchor = arming]
    <3>1. row.accepted \in 0..MaxOrders /\ row.accepted < MaxOrders
      BY <1>1, <2>2, MaxOrdersAssumption DEF MayArm, Consistent, Rows
    <3>2. arming \in Versions
      BY DEF ArmApplies, IInv, Types
    <3>3. row' \in Rows /\ row'.accepted = row.accepted /\ row'.status = "active"
      BY <1>1, <2>2, <3>2 DEF Rows, Status
    <3> QED
      BY <1>1, <3>1, <3>3 DEF Consistent
  <2> QED
    BY <2>1, <2>2 DEF ArmApplies
<1>3. lock = Free /\ UNCHANGED <<slot, lock, backup>>
  BY DEF ArmApplies, Unlocked
<1>4. Types'
  BY <1>2 DEF ArmApplies, IInv, Types, control
<1> QED
  BY <1>2, <1>3, <1>4, UnheldRow DEF IInv

-----------------------------------------------------------------------------
(* The steps that take the lock, act under it and let it go.               *)

LEMMA CheckoutStartsKeeps ==
    ASSUME IInv, NEW o \in Orders, CheckoutStarts(o)
    PROVE  IInv'
<1>1. Types'
  BY DEF CheckoutStarts, Holders, IInv, Types, database, control
<1>2. Consistent(row, slot)' /\ BackupFits'
  BY DEF CheckoutStarts, IInv, BackupFits, Consistent, database, Scenarios
<1>3. lock'.read = file /\ lock'.order = o
  BY DEF CheckoutStarts
<1>4. \A n \in Scenarios : slot[n] # o
  BY FreshAssumption DEF CheckoutStarts, Admitted, Taken
<1>5. \A n \in Taken : file.verdict[n] = slot[n]
  <2>1. Taken = 1..row.accepted
    BY DEF IInv, Consistent, Taken
  <2>2. row.accepted \in Nat
    BY DEF IInv, Types, Rows
  <2>3. CASE row.accepted = 0
    BY <2>1, <2>3
  <2>4. CASE row.accepted > 0
    <3>1. Passed(file.verdict) = Taken
      BY <2>1, <2>4 DEF CheckoutStarts, ContinuationReady
    <3> QED
      BY <3>1 DEF CheckoutStarts, Safe, EvidenceHolds
  <2> QED
    BY <2>2, <2>3, <2>4
<1>6. /\ row.status = "active"
      /\ Descends(file, row.anchor) /\ ~SaysStop(file.verdict)
  BY DEF CheckoutStarts, Safe, FileHolds
<1>7. UNCHANGED <<row, slot>>
  BY DEF CheckoutStarts, database
<1>8. LockHolds'
  BY <1>3, <1>4, <1>5, <1>6, <1>7
  DEF LockHolds, Taken, Scenarios, Descends, SaysStop
<1> QED
  BY <1>1, <1>2, <1>8 DEF IInv

LEMMA PaymentStartsKeeps ==
    ASSUME IInv, NEW o \in Orders, PaymentStarts(o)
    PROVE  IInv'
<1>1. Types'
  BY DEF PaymentStarts, Holders, IInv, Types, database, control
<1>2. Consistent(row, slot)' /\ BackupFits'
  BY DEF PaymentStarts, IInv, BackupFits, Consistent, database, Scenarios
<1>3. lock'.read = file /\ lock'.kind = "payment"
  BY DEF PaymentStarts
<1>4. row.status \in {"active", "completed"} /\ Descends(file, row.anchor)
  BY DEF PaymentStarts, Safe, FileHolds
<1>5. UNCHANGED row
  BY DEF PaymentStarts, database
<1>6. LockHolds'
  BY <1>3, <1>4, <1>5 DEF LockHolds, Descends
<1> QED
  BY <1>1, <1>2, <1>6 DEF IInv

LEMMA RollsBackKeeps == ASSUME IInv, RollsBack PROVE IInv'
<1>1. Types'
  BY DEF RollsBack, IInv, Types, database, control
<1>2. Consistent(row, slot)' /\ BackupFits' /\ LockHolds'
  BY DEF RollsBack, IInv, BackupFits, LockHolds, Consistent, database, Scenarios
<1> QED
  BY <1>1, <1>2 DEF IInv

LEMMA PaymentCommitsKeeps == ASSUME IInv, PaymentCommits PROVE IInv'
<1>1. lock \in Holders /\ row.status \in {"active", "completed"}
  BY DEF PaymentCommits, IInv, Types, LockHolds
<1>2. /\ row' \in Rows /\ row'.accepted = row.accepted
      /\ row'.status = row.status
  BY <1>1 DEF PaymentCommits, IInv, Types, Rows, Holders
<1>3. Types'
  BY <1>2 DEF PaymentCommits, IInv, Types, control
<1>4. Consistent(row, slot)'
  BY <1>1, <1>2 DEF PaymentCommits, IInv, Consistent, Scenarios
<1>5. BackupFits' /\ LockHolds'
  BY <1>2 DEF PaymentCommits, IInv, BackupFits, LockHolds, Consistent, Scenarios
<1> QED
  BY <1>3, <1>4, <1>5 DEF IInv

\* What an admission does, for the invariant and for the action properties.
LEMMA Admission ==
    ASSUME IInv, CheckoutCommits
    PROVE  /\ lock \in Holders
           /\ row.accepted \in Nat /\ row.accepted < MaxOrders
           /\ row.status = "active"
           /\ row'.accepted = row.accepted + 1 /\ row'.anchor = lock.read
           /\ row'.status = IF row.accepted + 1 = MaxOrders THEN "completed"
                            ELSE "active"
           /\ row' \in Rows
           /\ row.accepted + 1 \in Scenarios
           /\ slot' = [slot EXCEPT ![row.accepted + 1] = lock.order]
<1>1. lock \in Holders /\ row.status = "active"
  BY DEF CheckoutCommits, IInv, Types, LockHolds
<1>2. row.accepted \in 0..MaxOrders /\ row.accepted < MaxOrders
  BY <1>1 DEF IInv, Types, Consistent, Rows
<1>3. row' = [status |-> IF row.accepted + 1 = MaxOrders THEN "completed"
                         ELSE row.status,
              accepted |-> row.accepted + 1, anchor |-> lock.read]
  BY DEF CheckoutCommits
<1>4. lock.read \in Versions
  BY <1>1 DEF Holders
<1>5. row.accepted + 1 \in 0..MaxOrders /\ row.accepted + 1 \in Scenarios
  BY <1>2, MaxOrdersAssumption DEF Scenarios
<1>6. row' \in Rows
  BY <1>1, <1>3, <1>4, <1>5 DEF Rows, Status
<1> QED
  BY <1>1, <1>2, <1>3, <1>5, <1>6 DEF CheckoutCommits

LEMMA CheckoutCommitsKeeps == ASSUME IInv, CheckoutCommits PROVE IInv'
<1> DEFINE n == row.accepted + 1
<1>1. /\ lock \in Holders /\ row.accepted \in Nat /\ n \in Scenarios
      /\ row' \in Rows /\ row'.accepted = n
      /\ slot' = [slot EXCEPT ![n] = lock.order]
  BY Admission
<1>2. lock.order \in Orders /\ lock.order # NoOrder
  BY <1>1, FreshAssumption DEF Holders
<1>3. slot \in [Scenarios -> Orders \cup {NoOrder}]
  BY DEF IInv, Types
<1>4. Types'
  BY <1>1, <1>2 DEF CheckoutCommits, IInv, Types, control
<1>5. Consistent(row, slot)'
  <2>1. {m \in Scenarios : slot'[m] # NoOrder} = 1..row'.accepted
    <3>1. {m \in Scenarios : slot[m] # NoOrder} = 1..row.accepted
      BY DEF IInv, Consistent
    <3>2. \A m \in Scenarios : slot'[m] # NoOrder <=> m \in 1..row.accepted \/ m = n
      BY <1>1, <1>2, <1>3, <3>1
    <3>3. \A m \in Scenarios : m \in 1..row.accepted \/ m = n <=> m \in 1..n
      BY <1>1 DEF Scenarios
    <3>4. 1..n \subseteq Scenarios
      BY <1>1, MaxOrdersAssumption DEF Scenarios
    <3> QED
      BY <1>1, <3>2, <3>3, <3>4
  <2>2. \A m, k \in Scenarios : slot'[m] # NoOrder /\ slot'[k] # NoOrder
                                /\ slot'[m] = slot'[k] => m = k
    <3>1. \A m \in Scenarios : slot[m] # lock.order
      BY DEF CheckoutCommits, IInv, LockHolds
    <3> QED
      BY <1>1, <1>3, <3>1 DEF IInv, Consistent
  <2>3. /\ row'.status = "closed" => FALSE
        /\ row'.status = "active" => row'.accepted < MaxOrders
        /\ row'.status = "completed" => row'.accepted = MaxOrders
    BY Admission, MaxOrdersAssumption
  <2> QED
    BY <2>1, <2>2, <2>3 DEF Consistent, Scenarios
<1>6. BackupFits'
  <2>1. UNCHANGED backup
    BY DEF CheckoutCommits
  <2>2. backup # None => backup.row.accepted \in Nat
    BY DEF IInv, Types, Rows
  <2> QED
    BY <1>1, <2>1, <2>2 DEF IInv, BackupFits, Consistent, Scenarios
<1>7. LockHolds'
  BY DEF CheckoutCommits, LockHolds
<1> QED
  BY <1>4, <1>5, <1>6, <1>7 DEF IInv

-----------------------------------------------------------------------------
(* The backup.                                                             *)

LEMMA BackUpKeeps == ASSUME IInv, BackUp PROVE IInv'
<1>1. /\ Halted(row) \in Rows /\ Consistent(Halted(row), slot)
      /\ Halted(row).accepted = row.accepted
  BY HaltedKeeps DEF IInv, Types
<1>2. backup' = [row |-> Halted(row), slot |-> slot, review |-> review]
  BY DEF BackUp
<1>3. UNCHANGED <<row, slot, lock>>
  BY DEF BackUp, database
<1>4. Types'
  BY <1>1, <1>2 DEF BackUp, IInv, Types, database, control
<1>5. BackupFits'
  <2>1. row.accepted \in Nat
    BY DEF IInv, Types, Rows
  <2> QED
    BY <1>1, <1>2, <1>3, <2>1 DEF BackupFits, Consistent, Scenarios
<1>6. Consistent(row, slot)' /\ LockHolds'
  BY <1>3 DEF IInv, LockHolds, Consistent, Taken, Scenarios, Descends, SaysStop
<1> QED
  BY <1>4, <1>5, <1>6 DEF IInv

LEMMA RollbackKeeps == ASSUME IInv, Rollback PROVE IInv'
<1>1. /\ backup.row \in Rows /\ Consistent(backup.row, backup.slot)
      /\ row' = backup.row /\ slot' = backup.slot
  BY DEF Rollback, IInv, Types, BackupFits
<1>2. Types'
  BY DEF Rollback, IInv, Types, control
<1>3. Consistent(row, slot)'
  BY <1>1 DEF Consistent, Scenarios
<1>4. BackupFits' /\ LockHolds'
  <2>1. backup.row.accepted \in Nat
    BY <1>1 DEF Rows
  <2> QED
    BY <1>1, <2>1 DEF Rollback, BackupFits, LockHolds, Consistent, Scenarios
<1> QED
  BY <1>2, <1>3, <1>4 DEF IInv

-----------------------------------------------------------------------------
LEMMA StepKeeps == IInv /\ [Next]_vars => IInv'
<1> SUFFICES ASSUME IInv, [Next]_vars PROVE IInv'
  OBVIOUS
<1>1. CASE Operator
  <2>1. ASSUME NEW w \in Operators, NEW n \in Scenarios, NEW v \in Verdicts,
               RecordReads(w, n, v)
        PROVE IInv'
    BY <2>1, RecordReadsKeeps
  <2>2. ASSUME NEW w \in Operators, RecordSaves(w) PROVE IInv'
    BY <2>2, RecordSavesKeeps
  <2>3. CASE OperatorStops
    <3>1. row' = Stopped(row) /\ row \in Rows /\ Consistent(row, slot)
      BY <2>3 DEF OperatorStops, Stopped, IInv, Types
    <3>2. row' \in Rows /\ Consistent(row', slot) /\ row'.accepted = row.accepted
      BY <3>1, StoppedKeeps
    <3>3. lock = Free /\ UNCHANGED <<slot, lock, backup>>
      BY <2>3 DEF OperatorStops, Unlocked
    <3>4. Types'
      BY <2>3, <3>2 DEF OperatorStops, IInv, Types, control
    <3> QED
      BY <3>2, <3>3, <3>4, UnheldRow DEF IInv
  <2> QED
    BY <1>1, <2>1, <2>2, <2>3, InitAnewKeeps, PutBackKeeps, ArmReadsKeeps, ArmAppliesKeeps,
       BackUpKeeps, RollbackKeeps DEF Operator
<1>2. CASE Shop
  <2>1. ASSUME NEW o \in Orders,
               \/ CheckoutStarts(o) \/ PaymentStarts(o) \/ ReviewOpens(o)
               \/ ReviewOpensQuietly(o) \/ ReviewCloses(o) \/ Trips(o)
        PROVE IInv'
    BY <2>1, CheckoutStartsKeeps, PaymentStartsKeeps, StopsKeep, ReviewKeeps
  <2>2. CASE AutoStop
    <3>2. row' \in Rows /\ Consistent(row', slot) /\ row'.accepted = row.accepted
      BY <2>2, AutoStopRow
    <3>3. lock = Free /\ UNCHANGED <<slot, lock, backup>>
      BY <2>2 DEF AutoStop, Unlocked
    <3>4. Types'
      BY <2>2, <3>2 DEF AutoStop, IInv, Types, control
    <3> QED
      BY <3>2, <3>3, <3>4, UnheldRow DEF IInv
  <2> QED
    BY <1>2, <2>1, <2>2, CheckoutCommitsKeeps, PaymentPostsKeeps,
       PaymentCommitsKeeps, RollsBackKeeps DEF Shop
<1>3. CASE UNCHANGED vars
  <2>1. Types'
    BY <1>3 DEF IInv, Types, vars, database, control
  <2> QED
    BY <1>3, <2>1, CoreUnchanged DEF IInv, vars, database
<1> QED
  BY <1>1, <1>2, <1>3 DEF Next

\* Types and constraints, and what the holder of the lock may rely on.
THEOREM Invariance == Spec => []IInv
<1>1. Init => IInv
  BY InitHolds
<1>2. IInv /\ [Next]_vars => IInv'
  BY StepKeeps
<1> QED
  BY <1>1, <1>2, PTL DEF Spec

\* The tables' constraints hold for a pilot of any size, whoever arms, stops
\* and restores it.
THEOREM TypeCorrect == Spec => []TypeOK
<1>1. IInv => TypeOK
  BY DEF IInv, Types, Consistent, TypeOK, Taken
<1> QED
  BY <1>1, Invariance, PTL

\* Whoever stops the pilot waits for the lock, and the one who posts holds it:
\* no payment is asked of the provider while the pilot is stopped.
THEOREM StopHoldsPaymentsAlways == Spec => StopHoldsPayments
<1>1. IInv /\ [Next]_vars
      => [sent' # sent => row.status \in {"active", "completed"}]_vars
  <2> SUFFICES ASSUME IInv, [Next]_vars, sent' # sent
               PROVE  row.status \in {"active", "completed"}
    OBVIOUS
  <2>1. PaymentPosts
    BY DEF Next, Operator, Shop, RecordReads, RecordSaves, InitAnew, PutBack,
           OperatorStops, ArmReads, ArmApplies, BackUp, Rollback,
           CheckoutStarts, PaymentStarts, ReviewOpens, ReviewOpensQuietly,
           ReviewCloses, Trips, CheckoutCommits, PaymentCommits, RollsBack,
           AutoStop, vars
  <2> QED
    BY <2>1 DEF PaymentPosts, IInv, LockHolds
<1> QED
  BY <1>1, Invariance, PTL DEF Spec, StopHoldsPayments

\* What a step other than an admission does to the number of orders.
LEMMA OnlyAdmissionAdmits ==
    ASSUME IInv, [Next]_vars, ~CheckoutCommits
    PROVE  row'.accepted <= row.accepted
<1>1. row \in Rows /\ row.accepted \in Nat
  BY DEF IInv, Types, Rows
<1>2. ASSUME NEW o \in Orders, ReviewOpens(o) \/ Trips(o)
      PROVE  row'.accepted = row.accepted
  BY <1>1, <1>2 DEF ReviewOpens, Trips, Stopped, Rows
<1>3. CASE AutoStop
  BY <1>1, <1>3, AutoStopRow
<1>4. CASE OperatorStops
  BY <1>1, <1>4 DEF OperatorStops, Rows
<1>5. CASE ArmApplies
  <2>1. CASE UNCHANGED row
    BY <1>1, <2>1
  <2>2. CASE row' = [row EXCEPT !.status = "active", !.anchor = arming]
    BY <1>1, <2>2 DEF Rows
  <2> QED
    BY <1>5, <2>1, <2>2 DEF ArmApplies
<1>6. CASE PaymentCommits
  BY <1>1, <1>6 DEF PaymentCommits, Rows
<1>7. CASE Rollback
  BY <1>7 DEF Rollback, IInv, BackupFits
<1>8. CASE UNCHANGED row
  BY <1>1, <1>8
<1>9. CASE Operator
  BY <1>4, <1>5, <1>7, <1>8, <1>9
  DEF Operator, RecordReads, RecordSaves, InitAnew, PutBack, ArmReads, BackUp,
      database
<1>10. CASE Shop
  BY <1>1, <1>2, <1>3, <1>6, <1>8, <1>10
  DEF Shop, CheckoutStarts, PaymentStarts, ReviewOpensQuietly, ReviewCloses,
      PaymentPosts, RollsBack, database
<1> QED
  BY <1>8, <1>9, <1>10 DEF Next, vars

\* What was signed when the checkout took the lock is what the row is anchored
\* to when it commits.
THEOREM OneAtATimeAlways == Spec => OneAtATime
<1>1. IInv /\ [Next]_vars
      => [row'.accepted > row.accepted =>
            /\ row'.accepted = row.accepted + 1
            /\ row.status = "active"
            /\ \A n \in Taken : row'.anchor.verdict[n] = slot[n]
            /\ ~SaysStop(row'.anchor.verdict)]_vars
  <2> SUFFICES ASSUME IInv, [Next]_vars, row'.accepted > row.accepted
               PROVE  /\ row'.accepted = row.accepted + 1
                      /\ row.status = "active"
                      /\ \A n \in Taken : row'.anchor.verdict[n] = slot[n]
                      /\ ~SaysStop(row'.anchor.verdict)
    OBVIOUS
  <2>1. row.accepted \in Nat
    BY DEF IInv, Types, Rows
  <2>2. row'.accepted \in Nat
    BY StepKeeps DEF IInv, Types, Rows
  <2>3. CheckoutCommits
    BY <2>1, <2>2, OnlyAdmissionAdmits
  <2>4. /\ row'.accepted = row.accepted + 1 /\ row'.anchor = lock.read
        /\ row.status = "active"
    BY <2>3, Admission
  <2>5. /\ \A n \in Taken : lock.read.verdict[n] = slot[n]
        /\ ~SaysStop(lock.read.verdict)
    BY <2>3 DEF CheckoutCommits, IInv, LockHolds
  <2> QED
    BY <2>4, <2>5
<1> QED
  BY <1>1, Invariance, PTL DEF Spec, OneAtATime

\* The anchor goes to a descendant of itself, for control files of any length,
\* whatever is begun anew, copied or put back; else the database was restored.
THEOREM AnchorAdvancesAlways == Spec => AnchorAdvances
<1>1. IInv /\ [Next]_vars
      => [\/ row'.anchor = row.anchor
          \/ row'.anchor # None /\ Descends(row'.anchor, row.anchor)
          \/ /\ backup # None
             /\ row' = backup.row /\ slot' = backup.slot /\ review' = backup.review]_vars
  <2> SUFFICES ASSUME IInv, [Next]_vars
               PROVE  \/ row'.anchor = row.anchor
                      \/ row'.anchor # None /\ Descends(row'.anchor, row.anchor)
                      \/ /\ backup # None
                         /\ row' = backup.row /\ slot' = backup.slot
                         /\ review' = backup.review
    OBVIOUS
  <2>1. row \in Rows
    BY DEF IInv, Types
  <2>2. CASE CheckoutCommits \/ PaymentCommits
    <3>1. /\ lock \in Holders /\ Descends(lock.read, row.anchor)
      BY <2>2 DEF CheckoutCommits, PaymentCommits, IInv, Types, LockHolds
    <3>2. row'.anchor = lock.read
      BY <2>1, <2>2 DEF CheckoutCommits, PaymentCommits, Rows
    <3> QED
      BY <3>1, <3>2, NoneAssumption DEF Holders
  <2>3. CASE ArmApplies
    <3>1. CASE UNCHANGED row
      BY <3>1
    <3>2. CASE MayArm /\ row' = [row EXCEPT !.status = "active", !.anchor = arming]
      <4>1. row'.anchor = arming /\ arming # None
        BY <2>1, <2>3, <3>2 DEF ArmApplies, Rows
      <4>2. Descends(arming, row.anchor)
        BY <3>2 DEF MayArm, IInv, Consistent, Descends
      <4> QED
        BY <4>1, <4>2
    <3> QED
      BY <2>3, <3>1, <3>2 DEF ArmApplies
  <2>4. CASE Rollback
    BY <2>4 DEF Rollback
  <2>5. ASSUME NEW o \in Orders, ReviewOpens(o) \/ Trips(o)
        PROVE  row'.anchor = row.anchor
    BY <2>1, <2>5 DEF ReviewOpens, Trips, Stopped, Rows
  <2>6. CASE OperatorStops
    BY <2>1, <2>6 DEF OperatorStops, Rows
  <2>7. CASE AutoStop
    <3>1. file # None
      BY NoneAssumption DEF IInv, Types
    <3> QED
      BY <2>7, <3>1, AutoStopRow
  <2> QED
    BY <2>2, <2>3, <2>4, <2>5, <2>6, <2>7
    DEF Next, Operator, Shop, RecordReads, RecordSaves, InitAnew, PutBack, ArmReads,
        BackUp, CheckoutStarts, PaymentStarts, ReviewOpensQuietly,
        ReviewCloses, PaymentPosts, RollsBack, vars, database
<1> QED
  BY <1>1, Invariance, PTL DEF Spec, AnchorAdvances

=============================================================================
