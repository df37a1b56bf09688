---------------------------- MODULE MediaProofs ----------------------------
(***************************************************************************)
(* Proofs about Media for any requests, keys, workers, attempts, faults    *)
(* and replays.                                                            *)
(*                                                                         *)
(* A command exists only for an upload that can no longer commit.  A       *)
(* worker that found no asset for its object may therefore delete it as    *)
(* late as it likes: there will be none.                                   *)
(***************************************************************************)
EXTENDS Media, TLAPS

CommandRow == [status : CommandStatus, token : Workers \cup {NoWorker},
               attempts : 0..(MaxAttempts + MaxReplays), lapsed : BOOLEAN]

\* What the state of an upload says of its object.
UploadSound(r) ==
    /\ upload[r] \in {"new", "writing", "written", "inserting"} =>
          command[r].status = "none" /\ ~Referenced(r)
    /\ upload[r] \in {"new", "writing"} => r \notin stored
    /\ upload[r] \in {"written", "inserting"} => r \in stored
    /\ upload[r] \in {"duplicate", "answered"} => HasAsset(r)
    /\ upload[r] \in {"refused", "answered"} =>
          r \notin stored \/ Referenced(r) \/ command[r].status # "none"

\* A command that is done has deleted, and one that can get another attempt
\* has not reached the bound.
CommandSound(r) ==
    /\ command[r].status = "sent" => r \notin stored
    /\ command[r].attempts <= MaxAttempts + replays
    /\ command[r].status \in {"none", "pending", "processing"} =>
          command[r].attempts < MaxAttempts + replays

\* A worker about to delete deletes what nothing refers to.
WorkerSound(w) ==
    LET r == worker[w].on
    IN /\ worker[w].at # "idle" => r \in Requests /\ command[r].status # "none"
       /\ worker[w].at = "clear" => ~Referenced(r)
       /\ worker[w].at = "answered" /\ worker[w].outcome = "sent" => r \notin stored

AssetSound == \A k \in Keys : asset[k] # NoObject => asset[k] \in stored

IInv == /\ TypeOK
        /\ AssetSound
        /\ \A r \in Requests : UploadSound(r) /\ CommandSound(r)
        /\ \A w \in Workers : WorkerSound(w)

-----------------------------------------------------------------------------
LEMMA InitHolds == Init => IInv
<1> SUFFICES ASSUME Init PROVE IInv
  OBVIOUS
<1>1. TypeOK
  <2>1. command \in [Requests -> CommandRow]
    BY LimitsAssumption DEF Init, Row, CommandRow, CommandStatus
  <2>2. worker \in [Workers -> WorkerRecord]
    BY DEF Init, Idle, WorkerRecord
  <2>3. /\ stored \in SUBSET Requests
        /\ asset \in [Keys -> Requests \cup {NoObject}]
        /\ upload \in [Requests -> UploadStatus]
        /\ faults \in 0..MaxFaults /\ replays \in 0..MaxReplays
    BY LimitsAssumption DEF Init, UploadStatus, InFlight
  <2> QED
    BY <2>1, <2>2, <2>3 DEF TypeOK, CommandRow
<1>2. \A r \in Requests : UploadSound(r)
  BY NamesAssumption DEF Init, UploadSound, Referenced, Row
<1>3. \A r \in Requests : CommandSound(r)
  BY LimitsAssumption DEF Init, CommandSound, Row
<1>4. AssetSound /\ \A w \in Workers : WorkerSound(w)
  BY DEF Init, AssetSound, WorkerSound, Idle
<1> QED
  BY <1>1, <1>2, <1>3, <1>4 DEF IInv

-----------------------------------------------------------------------------
(* The upload request.                                                     *)

LEMMA EnqueuedRow ==
    ASSUME TypeOK, NEW r \in Requests, CommandSound(r)
    PROVE  /\ Enqueued(r) \in [Requests -> CommandRow]
           /\ \A q \in Requests \ {r} : Enqueued(r)[q] = command[q]
           /\ Enqueued(r)[r].status # "none"
           /\ command[r].status # "none" => Enqueued(r)[r] = command[r]
           /\ command[r].status = "none" =>
                 Enqueued(r)[r].status = "pending" /\ Enqueued(r)[r].attempts = 0
<1>1. command \in [Requests -> CommandRow]
  BY DEF TypeOK, CommandRow
<1>2. Row("pending") \in CommandRow /\ Row("pending").attempts = 0
      /\ Row("pending").status = "pending"
  BY LimitsAssumption DEF Row, CommandRow, CommandStatus
<1> QED
  BY <1>1, <1>2 DEF Enqueued

\* A request moves on, may add its own object while it is writing, and may
\* enqueue its command once it cannot commit any more.
LEMMA RequestMoves ==
    ASSUME IInv, NEW r \in Requests, NEW to \in UploadStatus, Goes(r, to),
           UNCHANGED <<asset, worker, replays>>, faults' \in 0..MaxFaults,
           \/ UNCHANGED stored
           \/ stored' = stored \cup {r} /\ upload[r] = "writing",
           \/ UNCHANGED command
           \/ command' = Enqueued(r),
           UploadSound(r)'
    PROVE  IInv'
<1>1. /\ command' \in [Requests -> CommandRow]
      /\ \A q \in Requests \ {r} : command'[q] = command[q]
      /\ command[r].status # "none" => command'[r] = command[r]
      /\ \/ command'[r] = command[r]
         \/ command'[r].status = "pending" /\ command'[r].attempts = 0
  BY EnqueuedRow DEF IInv, TypeOK, CommandRow
<1>2. TypeOK'
  BY <1>1 DEF Goes, IInv, TypeOK, CommandRow
<1>3. \A q \in Requests : Referenced(q)' <=> Referenced(q)
  BY DEF Referenced
<1>4. \A q \in Requests \ {r} : upload'[q] = upload[q] /\ (q \in stored' <=> q \in stored)
  BY DEF Goes, IInv, TypeOK
<1>5. \A q \in Requests : UploadSound(q)'
  BY <1>1, <1>3, <1>4 DEF IInv, UploadSound, HasAsset
<1>6. \A q \in Requests : CommandSound(q)'
  <2>1. ASSUME NEW q \in Requests \ {r} PROVE CommandSound(q)'
    BY <1>1, <1>4 DEF IInv, CommandSound
  <2>2. CommandSound(r)'
    <3>1. replays \in Nat /\ MaxAttempts \in Nat \ {0}
      BY LimitsAssumption DEF IInv, TypeOK
    <3>2. command'[r].status = "sent" => r \notin stored'
      BY <1>1 DEF IInv, UploadSound, CommandSound
    <3> QED
      BY <1>1, <3>1, <3>2 DEF IInv, CommandSound
  <2> QED
    BY <2>1, <2>2
<1>7. \A w \in Workers : WorkerSound(w)'
  <2>1. ASSUME NEW w \in Workers PROVE WorkerSound(w)'
    <3>1. worker'[w] = worker[w] /\ WorkerSound(w)
      BY DEF IInv
    <3>2. CASE worker[w].at = "idle"
      BY <3>1, <3>2 DEF WorkerSound
    <3>3. CASE worker[w].at # "idle"
      <4>1. PICK q \in Requests : q = worker[w].on /\ command[q].status # "none"
        BY <3>1, <3>3 DEF WorkerSound
      <4>2. command'[q].status # "none" /\ (q \in stored' => q \in stored)
        BY <1>1, <1>4, <4>1 DEF IInv, UploadSound
      <4> QED
        BY <1>3, <3>1, <4>1, <4>2 DEF WorkerSound
    <3> QED
      BY <3>2, <3>3
  <2> QED
    BY <2>1
<1>8. AssetSound'
  BY DEF IInv, AssetSound
<1> QED
  BY <1>2, <1>5, <1>6, <1>7, <1>8 DEF IInv

LEMMA AfterMove ==
    ASSUME IInv, NEW r \in Requests, NEW to, Goes(r, to), UNCHANGED asset
    PROVE  /\ upload'[r] = to
           /\ Referenced(r)' <=> Referenced(r)
           /\ HasAsset(r)' <=> HasAsset(r)
           /\ UploadSound(r) /\ CommandSound(r)
BY DEF IInv, TypeOK, Goes, Referenced, HasAsset

LEMMA BeginKeeps ==
    ASSUME IInv, NEW r \in Requests, Begin(r)
    PROVE  IInv'
<1>1. /\ upload[r] = "new" /\ UNCHANGED <<stored, asset, command, worker, faults, replays>>
      /\ faults \in 0..MaxFaults
  BY DEF Begin, IInv, TypeOK
<1>2. PICK to \in {"writing", "answered", "refused"} :
         Goes(r, to) /\ (to = "answered" => HasAsset(r))
  BY DEF Begin
<1>3. UploadSound(r)'
  BY <1>1, <1>2, AfterMove DEF UploadSound
<1> QED
  BY <1>1, <1>2, <1>3, RequestMoves DEF UploadStatus, InFlight

LEMMA WriteKeeps ==
    ASSUME IInv, NEW r \in Requests, Write(r)
    PROVE  IInv'
<1>1. /\ upload[r] = "writing" /\ UNCHANGED <<asset, command, worker, faults, replays>>
      /\ faults \in 0..MaxFaults
  BY DEF Write, IInv, TypeOK
<1>2. PICK to \in {"written", "failed", "refused"} :
         /\ Goes(r, to)
         /\ stored' \in {stored, stored \cup {r}}
         /\ to = "written" => r \in stored'
         /\ to = "refused" => stored' = stored
  BY DEF Write, WriteRaises
<1>3. UploadSound(r)'
  BY <1>1, <1>2, AfterMove DEF UploadSound
<1> QED
  BY <1>1, <1>2, <1>3, RequestMoves DEF UploadStatus, InFlight

LEMMA ReloadKeeps ==
    ASSUME IInv, NEW r \in Requests, Reload(r)
    PROVE  IInv'
<1>1. /\ upload[r] = "written" /\ UNCHANGED <<stored, asset, command, worker, faults, replays>>
      /\ faults \in 0..MaxFaults
  BY DEF Reload, IInv, TypeOK
<1>2. PICK to \in {"inserting", "duplicate", "failed"} :
         Goes(r, to) /\ (to = "duplicate" => HasAsset(r))
  BY DEF Reload
<1>3. UploadSound(r)'
  BY <1>1, <1>2, AfterMove DEF UploadSound
<1> QED
  BY <1>1, <1>2, <1>3, RequestMoves DEF UploadStatus, InFlight

\* Only here does an object get an asset: its own request's, which is not over.
LEMMA CommitKeeps ==
    ASSUME IInv, NEW r \in Requests, Commit(r)
    PROVE  IInv'
<1>1. /\ upload[r] = "inserting" /\ UNCHANGED <<stored, command, worker, faults, replays>>
      /\ faults \in 0..MaxFaults
  BY DEF Commit, IInv, TypeOK
<1>2. CASE Goes(r, "failed") /\ UNCHANGED asset
  <2>1. UploadSound(r)'
    BY <1>1, <1>2, AfterMove DEF UploadSound
  <2> QED
    BY <1>1, <1>2, <2>1, RequestMoves DEF UploadStatus, InFlight
<1>3. CASE /\ ~HasAsset(r)
           /\ asset' = [asset EXCEPT ![KeyOf[r]] = r]
           /\ Goes(r, "answered") \/ Goes(r, "failed")
  <2>1. /\ KeyOf[r] \in Keys /\ r # NoObject /\ asset[KeyOf[r]] = NoObject
        /\ asset'[KeyOf[r]] = r
        /\ \A k \in Keys \ {KeyOf[r]} : asset'[k] = asset[k]
        /\ asset' \in [Keys -> Requests \cup {NoObject}]
    BY <1>3, KeysAssumption, NamesAssumption DEF HasAsset, IInv, TypeOK
  <2>2. /\ r \in stored /\ command[r].status = "none"
    BY <1>1 DEF IInv, UploadSound
  <2>3. /\ Referenced(r)'
        /\ \A q \in Requests \ {r} : Referenced(q)' <=> Referenced(q)
        /\ \A q \in Requests : HasAsset(q) => HasAsset(q)'
    BY <2>1, KeysAssumption, NamesAssumption DEF Referenced, HasAsset
  <2>4. PICK to \in {"answered", "failed"} : Goes(r, to)
    BY <1>3
  <2>5. upload'[r] = to /\ \A q \in Requests \ {r} : upload'[q] = upload[q]
    BY <2>4 DEF Goes, IInv, TypeOK
  <2>6. TypeOK'
    BY <1>1, <2>1, <2>4 DEF IInv, TypeOK, Goes, UploadStatus, InFlight
  <2>7. \A q \in Requests : UploadSound(q)'
    <3>1. ASSUME NEW q \in Requests \ {r} PROVE UploadSound(q)'
      BY <1>1, <2>3, <2>5 DEF IInv, UploadSound
    <3>2. UploadSound(r)'
      BY <2>1, <2>3, <2>5 DEF UploadSound, HasAsset
    <3> QED
      BY <3>1, <3>2
  <2>8. \A q \in Requests : CommandSound(q)'
    BY <1>1 DEF IInv, CommandSound
  <2>9. ASSUME NEW w \in Workers PROVE WorkerSound(w)'
    <3>1. worker[w].at # "idle" => worker[w].on \in Requests \ {r}
      BY <2>2 DEF IInv, WorkerSound
    <3> QED
      BY <1>1, <2>3, <3>1 DEF IInv, WorkerSound
  <2>10. AssetSound'
    BY <1>1, <2>1, <2>2 DEF IInv, AssetSound
  <2> QED
    BY <2>6, <2>7, <2>8, <2>9, <2>10 DEF IInv
<1> QED
  BY <1>2, <1>3 DEF Commit

LEMMA PersistCleanupKeeps ==
    ASSUME IInv, NEW r \in Requests, PersistCleanup(r)
    PROVE  IInv'
<1>1. /\ upload[r] \in {"failed", "duplicate"} /\ command' = Enqueued(r)
      /\ UNCHANGED <<stored, asset, worker, faults, replays>>
      /\ faults \in 0..MaxFaults
  BY DEF PersistCleanup, IInv, TypeOK
<1>2. PICK to \in {"answered", "refused"} :
         Goes(r, to) /\ (to = "answered" => upload[r] = "duplicate")
  BY DEF PersistCleanup
<1>3. command'[r].status # "none"
  BY <1>1, EnqueuedRow DEF IInv
<1>4. UploadSound(r)'
  BY <1>1, <1>2, <1>3, AfterMove DEF UploadSound
<1> QED
  BY <1>1, <1>2, <1>4, RequestMoves DEF UploadStatus, InFlight

LEMMA PersistRaisesKeeps ==
    ASSUME IInv, NEW r \in Requests, PersistRaises(r)
    PROVE  IInv'
<1>1. /\ UNCHANGED <<stored, asset, worker, replays>>
      /\ UNCHANGED command \/ command' = Enqueued(r)
      /\ faults' \in 0..MaxFaults
  BY LimitsAssumption DEF PersistRaises, Fault, IInv, TypeOK
<1>2. PICK to \in {"failed", "lost"} : Goes(r, to)
  BY DEF PersistRaises
<1>3. UploadSound(r)'
  BY <1>1, <1>2, AfterMove DEF UploadSound
<1> QED
  BY <1>1, <1>2, <1>3, RequestMoves DEF UploadStatus, InFlight

LEMMA CrashRequestKeeps ==
    ASSUME IInv, NEW r \in Requests, CrashRequest(r)
    PROVE  IInv'
<1>1. /\ UNCHANGED <<asset, command, worker, replays>> /\ Goes(r, "lost")
      /\ faults' \in 0..MaxFaults
  BY LimitsAssumption DEF CrashRequest, Fault, IInv, TypeOK
<1>2. UNCHANGED stored \/ (stored' = stored \cup {r} /\ upload[r] = "writing")
  <2>1. CASE upload[r] = "writing"
    BY <2>1 DEF CrashRequest
  <2>2. CASE upload[r] # "writing"
    <3>1. stored' \in {stored, stored \cup {}}
      BY <2>2 DEF CrashRequest
    <3> QED
      BY <3>1
  <2> QED
    BY <2>1, <2>2
<1>3. UploadSound(r)'
  BY <1>1, AfterMove DEF UploadSound
<1> QED
  BY <1>1, <1>2, <1>3, RequestMoves DEF UploadStatus, InFlight

-----------------------------------------------------------------------------
(* The commands and their workers.                                         *)

\* A command changes its row, whoever does it.
LEMMA CommandMoves ==
    ASSUME IInv, NEW r \in Requests, NEW row \in CommandRow,
           command' = [command EXCEPT ![r] = row],
           command[r].status # "none", row.status # "none",
           UNCHANGED <<stored, asset, upload>>, faults' \in 0..MaxFaults,
           replays' \in 0..MaxReplays, replays' >= replays,
           worker' \in [Workers -> WorkerRecord],
           CommandSound(r)',
           \A w \in Workers :
              \/ worker'[w] = worker[w]
              \/ worker'[w].at = "idle"
              \/ worker'[w].at = "claimed" /\ worker'[w].on = r
    PROVE  IInv'
<1>1. /\ command' \in [Requests -> CommandRow] /\ command'[r] = row
      /\ \A q \in Requests \ {r} : command'[q] = command[q]
  BY DEF IInv, TypeOK, CommandRow
<1>2. TypeOK'
  BY <1>1 DEF IInv, TypeOK, CommandRow
<1>3. \A q \in Requests : /\ command[q].status = "none" <=> command'[q].status = "none"
                          /\ Referenced(q)' <=> Referenced(q)
  BY <1>1 DEF Referenced
<1>4. \A q \in Requests : UploadSound(q)'
  BY <1>3 DEF IInv, UploadSound, HasAsset
<1>5. ASSUME NEW q \in Requests \ {r} PROVE CommandSound(q)'
  <2>1. /\ command'[q] = command[q] /\ command[q].attempts \in Nat
        /\ replays \in Nat /\ replays' \in Nat /\ MaxAttempts \in Nat
    BY <1>1, LimitsAssumption DEF IInv, TypeOK
  <2> QED
    BY <2>1 DEF IInv, CommandSound
<1>6. \A w \in Workers : WorkerSound(w)'
  BY <1>3 DEF IInv, WorkerSound
<1> QED
  BY <1>2, <1>4, <1>5, <1>6 DEF IInv, AssetSound

LEMMA CommandTypes ==
    ASSUME IInv, NEW r \in Requests
    PROVE  /\ command[r] \in CommandRow
           /\ command \in [Requests -> CommandRow]
           /\ replays \in Nat /\ replays <= MaxReplays
           /\ MaxReplays \in Nat /\ MaxAttempts \in Nat \ {0}
           /\ faults \in 0..MaxFaults
           /\ CommandSound(r)
BY LimitsAssumption DEF IInv, TypeOK, CommandRow

LEMMA ClaimKeeps ==
    ASSUME IInv, NEW w \in Workers, NEW r \in Requests, Claim(w, r)
    PROVE  IInv'
<1> DEFINE row == [command[r] EXCEPT !.status = "processing", !.token = w,
                                     !.lapsed = FALSE]
<1>1. /\ row \in CommandRow /\ row.status = "processing"
      /\ row.attempts = command[r].attempts
      /\ command' = [command EXCEPT ![r] = row]
  BY CommandTypes DEF Claim, CommandRow, CommandStatus
<1>2. command[r].status \in {"pending", "processing"}
  BY DEF Claim, Claimable
<1>3. /\ worker' \in [Workers -> WorkerRecord]
      /\ worker'[w].at = "claimed" /\ worker'[w].on = r
      /\ \A v \in Workers \ {w} : worker'[v] = worker[v]
  BY DEF Claim, IInv, TypeOK, WorkerRecord
<1>4. CommandSound(r)'
  <2>1. command'[r] = row /\ replays' = replays
    BY <1>1, CommandTypes DEF Claim
  <2> QED
    BY <1>1, <1>2, <2>1, CommandTypes DEF CommandSound
<1> QED
  <2>1. /\ UNCHANGED <<stored, asset, upload>> /\ faults' \in 0..MaxFaults
        /\ replays' \in 0..MaxReplays /\ replays' >= replays
    BY CommandTypes DEF Claim
  <2> QED
    BY <1>1, <1>2, <1>3, <1>4, <2>1, CommandMoves

LEMMA LeaseExpiresKeeps ==
    ASSUME IInv, NEW r \in Requests, LeaseExpires(r)
    PROVE  IInv'
<1> DEFINE row == [command[r] EXCEPT !.lapsed = TRUE]
<1>1. /\ row \in CommandRow /\ row.status = "processing"
      /\ row.attempts = command[r].attempts
      /\ command' = [command EXCEPT ![r] = row]
  BY CommandTypes DEF LeaseExpires, CommandRow
<1>2. /\ command[r].status = "processing" /\ UNCHANGED <<stored, asset, upload, worker>>
      /\ faults' \in 0..MaxFaults /\ replays' = replays
  BY CommandTypes, LimitsAssumption DEF LeaseExpires, Fault
<1>3. CommandSound(r)'
  <2>1. command'[r] = row
    BY <1>1, CommandTypes
  <2> QED
    BY <1>1, <1>2, <2>1, CommandTypes DEF CommandSound
<1>4. /\ worker' \in [Workers -> WorkerRecord] /\ replays' \in 0..MaxReplays
      /\ replays' >= replays
  BY <1>2, CommandTypes DEF IInv, TypeOK
<1> QED
  BY <1>1, <1>2, <1>3, <1>4, CommandMoves

LEMMA ReplayKeeps ==
    ASSUME IInv, NEW r \in Requests, Replay(r)
    PROVE  IInv'
<1> DEFINE row == [command[r] EXCEPT !.status = "pending", !.token = NoWorker]
<1>1. /\ row \in CommandRow /\ row.status = "pending"
      /\ row.attempts = command[r].attempts
      /\ command' = [command EXCEPT ![r] = row]
  BY CommandTypes DEF Replay, CommandRow, CommandStatus
<1>2. /\ command[r].status \in {"failed", "review_required"}
      /\ UNCHANGED <<stored, asset, upload, worker, faults>>
      /\ replays' = replays + 1 /\ replays < MaxReplays
  BY DEF Replay
<1>3. CommandSound(r)'
  <2>1. command'[r] = row /\ command[r].attempts \in Nat
    <3>1. command[r].attempts \in 0..(MaxAttempts + MaxReplays)
      BY CommandTypes, Zenon DEF CommandRow
    <3>2. MaxAttempts + MaxReplays \in Nat
      BY LimitsAssumption
    <3>3. command'[r] = row
      BY <1>1, CommandTypes
    <3> QED
      BY <3>1, <3>2, <3>3
  <2>2. command[r].attempts <= MaxAttempts + replays
    BY CommandTypes DEF CommandSound
  <2> QED
    BY <1>1, <1>2, <2>1, <2>2, CommandTypes DEF CommandSound
<1>4. /\ worker' \in [Workers -> WorkerRecord] /\ replays' \in 0..MaxReplays
      /\ replays' >= replays /\ faults' \in 0..MaxFaults
  BY <1>2, CommandTypes DEF IInv, TypeOK
<1>5. command[r].status # "none" /\ row.status # "none"
  BY <1>1, <1>2
<1> QED
  BY <1>1, <1>2, <1>3, <1>4, <1>5, CommandMoves

LEMMA RecordedRow ==
    ASSUME IInv, NEW r \in Requests, command[r].status = "processing",
           NEW outcome \in {"sent", "retry", "review"},
           outcome = "sent" => r \notin stored
    PROVE  LET row == Recorded(command[r], outcome)
           IN /\ row \in CommandRow
              /\ row.status \in {"sent", "pending", "failed", "review_required"}
              /\ row.status = "sent" => r \notin stored
              /\ row.attempts <= MaxAttempts + replays
              /\ row.status = "pending" => row.attempts < MaxAttempts
<1>1. /\ command[r] \in CommandRow /\ command[r].attempts \in Nat
      /\ command[r].attempts < MaxAttempts + replays
      /\ replays \in Nat /\ replays <= MaxReplays /\ MaxReplays \in Nat
      /\ MaxAttempts \in Nat \ {0}
  BY CommandTypes DEF CommandSound, CommandRow
<1>2. command[r].attempts + 1 \in 0..(MaxAttempts + MaxReplays)
      /\ command[r].attempts + 1 <= MaxAttempts + replays
  BY <1>1
<1>3. CASE outcome = "sent"
  <2>1. Recorded(command[r], outcome) = Sent(command[r])
    BY <1>3 DEF Recorded
  <2>2. /\ Sent(command[r]) \in CommandRow /\ Sent(command[r]).status = "sent"
        /\ Sent(command[r]).attempts = command[r].attempts
    BY <1>1 DEF Sent, CommandRow, CommandStatus
  <2> QED
    BY <1>1, <1>3, <2>1, <2>2
<1>4. CASE outcome = "review"
  <2>1. Recorded(command[r], outcome) = Reviewed(command[r])
    BY <1>4 DEF Recorded
  <2>2. /\ Reviewed(command[r]) \in CommandRow
        /\ Reviewed(command[r]).status = "review_required"
        /\ Reviewed(command[r]).attempts = command[r].attempts + 1
    BY <1>1, <1>2 DEF Reviewed, CommandRow, CommandStatus
  <2> QED
    BY <1>2, <2>1, <2>2
<1>5. CASE outcome = "retry"
  <2>1. Recorded(command[r], outcome) = Failed(command[r])
    BY <1>5 DEF Recorded
  <2>2. /\ Failed(command[r]) \in CommandRow
        /\ Failed(command[r]).status \in {"failed", "pending"}
        /\ Failed(command[r]).attempts = command[r].attempts + 1
        /\ Failed(command[r]).status = "pending" => command[r].attempts + 1 < MaxAttempts
    <3>1. CASE command[r].attempts + 1 >= MaxAttempts
      <4>1. Failed(command[r]) = [command[r] EXCEPT
                !.attempts = command[r].attempts + 1, !.token = NoWorker,
                !.lapsed = FALSE, !.status = "failed"]
        BY <3>1 DEF Failed
      <4> QED
        BY <1>1, <1>2, <4>1 DEF CommandRow, CommandStatus
    <3>2. CASE ~(command[r].attempts + 1 >= MaxAttempts)
      <4>1. Failed(command[r]) = [command[r] EXCEPT
                !.attempts = command[r].attempts + 1, !.token = NoWorker,
                !.lapsed = FALSE, !.status = "pending"]
        BY <3>2 DEF Failed
      <4>2. command[r].attempts + 1 < MaxAttempts
        BY <1>1, <3>2
      <4> QED
        BY <1>1, <1>2, <4>1, <4>2 DEF CommandRow, CommandStatus
    <3> QED
      BY <3>1, <3>2
  <2> QED
    BY <1>2, <2>1, <2>2
<1> QED
  BY <1>3, <1>4, <1>5

LEMMA RecordKeeps ==
    ASSUME IInv, NEW w \in Workers, Record(w)
    PROVE  IInv'
<1>1. /\ worker[w].at = "answered" /\ worker' = [worker EXCEPT ![w] = Idle]
      /\ UNCHANGED <<stored, asset, upload, faults, replays>>
  BY DEF Record
<1>2. PICK r \in Requests : r = worker[w].on /\ command[r].status # "none"
  BY <1>1 DEF IInv, WorkerSound
<1>3. PICK outcome \in {"sent", "retry", "review"} : outcome = worker[w].outcome
  BY DEF IInv, TypeOK, WorkerRecord
<1>4. /\ worker' \in [Workers -> WorkerRecord] /\ worker'[w].at = "idle"
      /\ \A v \in Workers \ {w} : worker'[v] = worker[v]
  BY <1>1 DEF IInv, TypeOK, Idle, WorkerRecord
<1>5. CASE ~Holds(w)
  <2>1. UNCHANGED command
    BY <1>5 DEF Record
  <2>2. TypeOK' /\ AssetSound'
    BY <1>1, <1>4, <2>1 DEF IInv, TypeOK, AssetSound
  <2>3. \A q \in Requests : UploadSound(q)' /\ CommandSound(q)'
    BY <1>1, <2>1 DEF IInv, UploadSound, CommandSound, Referenced, HasAsset
  <2>4. \A v \in Workers : WorkerSound(v)'
    BY <1>1, <1>4, <2>1 DEF IInv, WorkerSound, Referenced
  <2> QED
    BY <2>2, <2>3, <2>4 DEF IInv
<1>6. CASE Holds(w)
  <2> DEFINE row == Recorded(command[r], outcome)
  <2>1. command[r].status = "processing"
    BY <1>2, <1>6 DEF Holds
  <2>2. outcome = "sent" => r \notin stored
    BY <1>1, <1>2, <1>3 DEF IInv, WorkerSound
  <2>3. /\ row \in CommandRow
        /\ row.status \in {"sent", "pending", "failed", "review_required"}
        /\ row.status = "sent" => r \notin stored
        /\ row.attempts <= MaxAttempts + replays
        /\ row.status = "pending" => row.attempts < MaxAttempts
    BY <2>1, <2>2, RecordedRow
  <2>4. command' = [command EXCEPT ![r] = row]
    BY <1>2, <1>3, <1>6 DEF Record
  <2>5. CommandSound(r)'
    <3>1. command'[r] = row /\ row.attempts \in Nat
      BY <2>3, <2>4, CommandTypes DEF CommandRow
    <3> HIDE DEF row
    <3> QED
      BY <1>1, <2>3, <3>1, CommandTypes DEF CommandSound
  <2>6. /\ faults' \in 0..MaxFaults /\ replays' \in 0..MaxReplays /\ replays' >= replays
    BY <1>1, CommandTypes
  <2>7. row.status # "none"
    BY <2>3
  <2> HIDE DEF row
  <2> QED
    BY <1>1, <1>2, <1>4, <2>3, <2>4, <2>5, <2>6, <2>7, CommandMoves
<1> QED
  BY <1>5, <1>6

\* A worker moves on; an object it deletes has neither an asset nor a request
\* that could still make one.
LEMMA WorkerMoves ==
    ASSUME IInv, NEW w \in Workers, NEW record \in WorkerRecord,
           worker' = [worker EXCEPT ![w] = record],
           UNCHANGED <<asset, upload, command, replays>>, faults' \in 0..MaxFaults,
           \/ UNCHANGED stored
           \/ /\ worker[w].at = "clear"
              /\ stored' = stored \ {worker[w].on},
           WorkerSound(w)'
    PROVE  IInv'
<1>1. /\ worker' \in [Workers -> WorkerRecord]
      /\ \A v \in Workers \ {w} : worker'[v] = worker[v]
  BY DEF IInv, TypeOK
<1>2. /\ stored' \subseteq stored
      /\ \A q \in stored \ stored' : ~Referenced(q) /\ command[q].status # "none"
  BY DEF IInv, WorkerSound
<1>3. TypeOK'
  BY <1>1, <1>2 DEF IInv, TypeOK
<1>4. \A q \in Requests : (Referenced(q)' <=> Referenced(q)) /\ (HasAsset(q)' <=> HasAsset(q))
  BY DEF Referenced, HasAsset
<1>5. \A q \in Requests : UploadSound(q)'
  BY <1>2, <1>4 DEF IInv, UploadSound
<1>6. \A q \in Requests : CommandSound(q)'
  BY <1>2 DEF IInv, CommandSound
<1>7. \A v \in Workers : WorkerSound(v)'
  <2>1. ASSUME NEW v \in Workers \ {w} PROVE WorkerSound(v)'
    BY <1>1, <1>2 DEF IInv, WorkerSound, Referenced
  <2> QED
    BY <2>1
<1>8. AssetSound'
  BY <1>2 DEF IInv, AssetSound, Referenced, TypeOK
<1> QED
  BY <1>3, <1>5, <1>6, <1>7, <1>8 DEF IInv

LEMMA LookKeeps ==
    ASSUME IInv, NEW w \in Workers, Look(w)
    PROVE  IInv'
<1>1. /\ worker[w].at = "claimed" /\ UNCHANGED <<stored, asset, upload, command, faults, replays>>
      /\ worker[w] \in WorkerRecord /\ WorkerSound(w)
  BY DEF Look, IInv, TypeOK
<1> DEFINE Fits(record) == /\ worker' = [worker EXCEPT ![w] = record]
                           /\ record.on = worker[w].on
                           /\ record.at = "clear" => ~Referenced(worker[w].on)
                           /\ record.at = "answered" => record.outcome # "sent"
<1>2. PICK record \in WorkerRecord : Fits(record)
  <2>1. CASE ~Referenced(worker[w].on) /\ worker' = [worker EXCEPT ![w].at = "clear"]
    <3>1. [worker[w] EXCEPT !.at = "clear"] \in WorkerRecord
      BY <1>1 DEF WorkerRecord
    <3>2. Fits([worker[w] EXCEPT !.at = "clear"])
      BY <1>1, <2>1 DEF WorkerRecord
    <3> QED
      BY <3>1, <3>2
  <2>2. ASSUME NEW outcome \in {"review", "retry"}, Answered(w, outcome)
        PROVE  \E record \in WorkerRecord : Fits(record)
    <3>1. [worker[w] EXCEPT !.at = "answered", !.outcome = outcome] \in WorkerRecord
      BY <1>1 DEF WorkerRecord
    <3>2. Fits([worker[w] EXCEPT !.at = "answered", !.outcome = outcome])
      BY <1>1, <2>2 DEF WorkerRecord, Answered
    <3> QED
      BY <3>1, <3>2
  <2> QED
    BY <2>1, <2>2 DEF Look
<1>3. worker'[w] = record
  BY <1>2 DEF IInv, TypeOK
<1>4. WorkerSound(w)'
  BY <1>1, <1>2, <1>3 DEF WorkerSound, Referenced
<1> QED
  BY <1>1, <1>2, <1>4, WorkerMoves DEF IInv, TypeOK

LEMMA DeleteKeeps ==
    ASSUME IInv, NEW w \in Workers, Delete(w)
    PROVE  IInv'
<1>1. /\ worker[w].at = "clear" /\ UNCHANGED <<asset, upload, command, faults, replays>>
      /\ worker[w] \in WorkerRecord /\ WorkerSound(w)
      /\ stored' \in {stored, stored \ {worker[w].on}}
  BY DEF Delete, IInv, TypeOK
<1>2. PICK outcome \in {"sent", "retry", "review"} :
         Answered(w, outcome) /\ (outcome = "sent" => stored' = stored \ {worker[w].on})
  BY DEF Delete
<1> DEFINE record == [worker[w] EXCEPT !.at = "answered", !.outcome = outcome]
<1>3. /\ worker' = [worker EXCEPT ![w] = record] /\ worker'[w] = record
      /\ record \in WorkerRecord /\ record.at = "answered"
      /\ record.on = worker[w].on /\ record.outcome = outcome
  BY <1>1, <1>2 DEF Answered, WorkerRecord, IInv, TypeOK
<1>4. WorkerSound(w)'
  BY <1>1, <1>2, <1>3 DEF WorkerSound
<1> HIDE DEF record
<1> QED
  BY <1>1, <1>3, <1>4, WorkerMoves DEF IInv, TypeOK

LEMMA CrashWorkerKeeps ==
    ASSUME IInv, NEW w \in Workers, CrashWorker(w)
    PROVE  IInv'
<1>1. /\ worker' = [worker EXCEPT ![w] = Idle] /\ faults' \in 0..MaxFaults
      /\ UNCHANGED <<stored, asset, upload, command, replays>>
  BY LimitsAssumption DEF CrashWorker, Fault, IInv, TypeOK
<1>2. Idle \in WorkerRecord /\ Idle.at = "idle" /\ worker'[w] = Idle
  BY <1>1 DEF Idle, WorkerRecord, IInv, TypeOK
<1>3. WorkerSound(w)'
  BY <1>2 DEF WorkerSound
<1> QED
  BY <1>1, <1>2, <1>3, WorkerMoves

-----------------------------------------------------------------------------
LEMMA StepKeeps == IInv /\ [Next]_vars => IInv'
<1> SUFFICES ASSUME IInv, [Next]_vars PROVE IInv'
  OBVIOUS
<1>1. CASE UNCHANGED vars
  <2>1. TypeOK' /\ AssetSound'
    BY <1>1 DEF vars, IInv, TypeOK, AssetSound
  <2>2. \A r \in Requests : UploadSound(r)' /\ CommandSound(r)'
    BY <1>1 DEF vars, IInv, UploadSound, CommandSound, Referenced, HasAsset
  <2>3. \A w \in Workers : WorkerSound(w)'
    BY <1>1 DEF vars, IInv, WorkerSound, Referenced
  <2> QED
    BY <2>1, <2>2, <2>3 DEF IInv
<1>2. ASSUME NEW r \in Requests, RequestStep(r)
      PROVE  IInv'
  BY <1>2, BeginKeeps, WriteKeeps, ReloadKeeps, CommitKeeps, PersistCleanupKeeps,
     PersistRaisesKeeps, CrashRequestKeeps DEF RequestStep
<1>3. ASSUME NEW w \in Workers, WorkerStep(w)
      PROVE  IInv'
  BY <1>3, ClaimKeeps, LookKeeps, DeleteKeeps, RecordKeeps DEF WorkerStep
<1> QED
  BY <1>1, <1>2, <1>3, LeaseExpiresKeeps, ReplayKeeps, CrashWorkerKeeps DEF Next

\* The inductive invariant holds whatever requests, workers and administrators
\* do (api/media.py, jobs/media_cleanup_jobs.py).
THEOREM Invariance == Spec => []IInv
BY InitHolds, StepKeeps, PTL DEF Spec

\* The rows, the objects and the attempts stay within their types.
THEOREM TypeCorrect == Spec => []TypeOK
<1>1. IInv => TypeOK
  BY DEF IInv
<1> QED
  BY <1>1, Invariance, PTL

\* No committed asset loses its object to the cleanup, not even the one whose
\* own request enqueued it, and no request answers without an asset.
THEOREM AssetsAreStoredAlways == Spec => []AssetsAreStored
<1>1. IInv => AssetsAreStored
  BY DEF IInv, AssetSound, UploadSound, AssetsAreStored
<1> QED
  BY <1>1, Invariance, PTL

\* Every object without an asset is in a request's hands or in the cleanup's,
\* unless its request died or could not persist the command.
THEOREM OrphansAreKnownAlways == Spec => []OrphansAreKnown
<1>1. IInv => OrphansAreKnown
  <2> SUFFICES ASSUME IInv, NEW r \in stored, ~Referenced(r),
                      upload[r] \notin InFlight \cup {"lost"}
               PROVE  command[r].status \in {"pending", "processing", "failed",
                                             "review_required"}
    BY DEF OrphansAreKnown
  <2>1. r \in Requests /\ upload[r] \in {"answered", "refused"}
        /\ command[r].status \in CommandStatus
    BY DEF IInv, TypeOK, UploadStatus
  <2>2. command[r].status \notin {"none", "sent"}
    BY <2>1 DEF IInv, UploadSound, CommandSound
  <2> QED
    BY <2>1, <2>2 DEF CommandStatus
<1> QED
  BY <1>1, Invariance, PTL

=============================================================================
