------------------------------- MODULE Media -------------------------------
(***************************************************************************)
(* Uploads of media and the cleanup of objects that no asset came of.      *)
(*                                                                         *)
(* An upload writes its object with no transaction open and commits the    *)
(* asset afterwards; what goes wrong in between leaves an object behind,   *)
(* for which the request enqueues a cleanup command before it fails.  A    *)
(* worker deletes such objects, again with no transaction open, after it   *)
(* has looked for an asset that refers to them.                            *)
(*                                                                         *)
(* Every request generates its storage key, so the request's name stands   *)
(* for its object.  A worker claims a batch under a lease and a token per  *)
(* row and never looks at the lease again, so a batch behaves like one     *)
(* worker for each of its rows, whose name stands for the token.  Assumed: *)
(* a write the client gave up has landed, or never will, by the time the   *)
(* request goes on, and so has a commit whose answer was lost.             *)
(***************************************************************************)
EXTENDS Integers, FiniteSets

CONSTANTS
    Requests,       \* upload requests, the client's retries included
    Keys,           \* upload keys
    KeyOf,          \* the key each request carries
    Workers,
    NoWorker,
    NoObject,
    MaxAttempts,
    MaxFaults,      \* bound on crashes, on commands that cannot be persisted
                    \* and on leases that outrun a live worker
    MaxReplays      \* bound on commands an administrator returns to the queue

ASSUME KeysAssumption == KeyOf \in [Requests -> Keys]
ASSUME LimitsAssumption == /\ MaxAttempts \in Nat \ {0}
                           /\ MaxFaults \in Nat
                           /\ MaxReplays \in Nat
ASSUME NamesAssumption == NoWorker \notin Workers /\ NoObject \notin Requests

VARIABLES
    stored,         \* objects in the object storage
    asset,          \* the object of each key's committed asset
    upload,         \* where each request is
    command,        \* the cleanup command of each object
    worker,
    faults, replays

vars == <<stored, asset, upload, command, worker, faults, replays>>

\* "failed" has rolled back and still has to enqueue the cleanup; "duplicate"
\* has too, but found an asset to answer with; "lost" died or could not.
InFlight == {"new", "writing", "written", "inserting", "failed", "duplicate"}
UploadStatus == InFlight \cup {"answered", "refused", "lost"}
CommandStatus == {"none", "pending", "processing", "sent", "failed", "review_required"}
WorkerRecord == [at : {"idle", "claimed", "clear", "answered"},
                 on : Requests \cup {NoObject}, outcome : {"sent", "retry", "review"}]
Idle == [at |-> "idle", on |-> NoObject, outcome |-> "retry"]

TypeOK ==
    /\ stored \in SUBSET Requests
    /\ asset \in [Keys -> Requests \cup {NoObject}]
    /\ upload \in [Requests -> UploadStatus]
    /\ command \in [Requests -> [status : CommandStatus, token : Workers \cup {NoWorker},
                                 attempts : 0..(MaxAttempts + MaxReplays),
                                 lapsed : BOOLEAN]]
    /\ worker \in [Workers -> WorkerRecord]
    /\ faults \in 0..MaxFaults
    /\ replays \in 0..MaxReplays

Row(status) == [status |-> status, token |-> NoWorker, attempts |-> 0, lapsed |-> FALSE]

Init ==
    /\ stored = {}
    /\ asset = [k \in Keys |-> NoObject]
    /\ upload = [r \in Requests |-> "new"]
    /\ command = [r \in Requests |-> Row("none")]
    /\ worker = [w \in Workers |-> Idle]
    /\ faults = 0
    /\ replays = 0

Goes(r, to) == upload' = [upload EXCEPT ![r] = to]
HasAsset(r) == asset[KeyOf[r]] # NoObject
Fault == faults < MaxFaults /\ faults' = faults + 1

-----------------------------------------------------------------------------
(* The upload request.                                                     *)

\* upload_media up to the end of its first transaction.
Begin(r) ==
    /\ upload[r] = "new"
    /\ \/ ~HasAsset(r) /\ Goes(r, "writing")
       \/ HasAsset(r) /\ Goes(r, "answered")
       \/ Goes(r, "refused")
    /\ UNCHANGED <<stored, asset, command, worker, faults, replays>>

\* Variant: a write that raised has written nothing.
WriteRaisesAsRefusal == "refused"

\* Where a write that raised, or was cancelled on its way, leads.
WriteRaises == "failed"

\* save_media: a file that is not an image, and a request cancelled while it
\* waits for its turn, have written nothing.
Write(r) ==
    /\ upload[r] = "writing"
    /\ \/ Goes(r, "written") /\ stored' = stored \cup {r}
       \/ Goes(r, WriteRaises) /\ stored' \in {stored, stored \cup {r}}
       \/ Goes(r, "refused") /\ UNCHANGED stored
    /\ UNCHANGED <<asset, command, worker, faults, replays>>

\* The second transaction until its insert: the administrator may have been
\* disabled, and another request with this key may have committed.
Reload(r) ==
    /\ upload[r] = "written"
    /\ \/ ~HasAsset(r) /\ Goes(r, "inserting")
       \/ HasAsset(r) /\ Goes(r, "duplicate")
       \/ Goes(r, "failed")
    /\ UNCHANGED <<stored, asset, command, worker, faults, replays>>

\* The insert and the commit: a key is taken once, and an answer may be lost
\* after the commit.
Commit(r) ==
    /\ upload[r] = "inserting"
    /\ \/ /\ ~HasAsset(r)
          /\ asset' = [asset EXCEPT ![KeyOf[r]] = r]
          /\ Goes(r, "answered") \/ Goes(r, "failed")
       \/ Goes(r, "failed") /\ UNCHANGED asset
    /\ UNCHANGED <<stored, command, worker, faults, replays>>

\* enqueue_media_cleanup: an object that has a command keeps it.
Enqueued(r) ==
    IF command[r].status = "none" THEN [command EXCEPT ![r] = Row("pending")]
    ELSE command

\* The request ends as it would have: with the other asset, or failing.
PersistCleanup(r) ==
    /\ upload[r] \in {"failed", "duplicate"}
    /\ command' = Enqueued(r)
    /\ Goes(r, IF upload[r] = "duplicate" THEN "answered" ELSE "refused")
    /\ UNCHANGED <<stored, asset, worker, faults, replays>>

\* A duplicate that cannot persist its command runs into the handler of all
\* errors, which tries once more; then the request fails loudly.
PersistRaises(r) ==
    /\ upload[r] \in {"failed", "duplicate"}
    /\ Fault
    /\ command' \in {command, Enqueued(r)}
    /\ Goes(r, IF upload[r] = "duplicate" THEN "failed" ELSE "lost")
    /\ UNCHANGED <<stored, asset, worker, replays>>

CrashRequest(r) ==
    /\ upload[r] \in InFlight \ {"new"}
    /\ Fault
    /\ Goes(r, "lost")
    /\ stored' \in {stored, stored \cup IF upload[r] = "writing" THEN {r} ELSE {}}
    /\ UNCHANGED <<asset, command, worker, replays>>

-----------------------------------------------------------------------------
(* The cleanup worker.                                                     *)

Holds(w) == LET r == worker[w].on
            IN command[r].status = "processing" /\ command[r].token = w

\* Variant: only what nobody has claimed.
ClaimableOnce(r) == command[r].status = "pending"

Claimable(r) == \/ command[r].status = "pending"
                \/ command[r].status = "processing" /\ command[r].lapsed

\* claim_provider_commands.
Claim(w, r) ==
    /\ worker[w].at = "idle"
    /\ Claimable(r)
    /\ command' = [command EXCEPT ![r].status = "processing", ![r].token = w,
                                  ![r].lapsed = FALSE]
    /\ worker' = [worker EXCEPT ![w] = [at |-> "claimed", on |-> r, outcome |-> "retry"]]
    /\ UNCHANGED <<stored, asset, upload, faults, replays>>

\* The lease runs out, behind the back of a live worker or of a dead one's.
LeaseExpires(r) ==
    /\ command[r].status = "processing"
    /\ ~command[r].lapsed
    /\ IF worker[command[r].token].on = r THEN Fault ELSE UNCHANGED faults
    /\ command' = [command EXCEPT ![r].lapsed = TRUE]
    /\ UNCHANGED <<stored, asset, upload, worker, replays>>

CrashWorker(w) ==
    /\ worker[w].at # "idle"
    /\ Fault
    /\ worker' = [worker EXCEPT ![w] = Idle]
    /\ UNCHANGED <<stored, asset, upload, command, replays>>

Answered(w, outcome) ==
    worker' = [worker EXCEPT ![w].at = "answered", ![w].outcome = outcome]

\* Variant: nothing is looked up.
ReferencedNever(r) == FALSE

\* _authoritative_media_asset_id.
Referenced(r) == \E k \in Keys : asset[k] = r

Look(w) ==
    /\ worker[w].at = "claimed"
    /\ \/ Referenced(worker[w].on) /\ Answered(w, "review")
       \/ ~Referenced(worker[w].on) /\ worker' = [worker EXCEPT ![w].at = "clear"]
       \/ Answered(w, "retry")
    /\ UNCHANGED <<stored, asset, upload, command, faults, replays>>

\* delete_media: an error may hide a deletion; a permanent one is for review.
Delete(w) ==
    /\ worker[w].at = "clear"
    /\ \/ Answered(w, "sent") /\ stored' = stored \ {worker[w].on}
       \/ /\ Answered(w, "retry") \/ Answered(w, "review")
          /\ stored' \in {stored, stored \ {worker[w].on}}
    /\ UNCHANGED <<asset, upload, command, faults, replays>>

\* finish_provider_command.
Sent(row) == [row EXCEPT !.status = "sent", !.token = NoWorker, !.lapsed = FALSE]

\* fail_provider_command, for an error that must not be retried.
Reviewed(row) ==
    [row EXCEPT !.attempts = @ + 1, !.token = NoWorker, !.lapsed = FALSE,
                !.status = "review_required"]

\* fail_provider_command, for an error that may be retried.
Failed(row) ==
    [row EXCEPT !.attempts = @ + 1, !.token = NoWorker, !.lapsed = FALSE,
                !.status = IF row.attempts + 1 >= MaxAttempts THEN "failed" ELSE "pending"]

Recorded(row, outcome) ==
    CASE outcome = "sent" -> Sent(row)
      [] outcome = "review" -> Reviewed(row)
      [] OTHER -> Failed(row)

\* Only for the token that the row still carries.
Record(w) ==
    LET r == worker[w].on
    IN /\ worker[w].at = "answered"
       /\ worker' = [worker EXCEPT ![w] = Idle]
       /\ command' = IF Holds(w)
                     THEN [command EXCEPT ![r] = Recorded(@, worker[w].outcome)]
                     ELSE command
       /\ UNCHANGED <<stored, asset, upload, faults, replays>>

\* requeue_media_cleanup_command: the attempts stay counted.
Replay(r) ==
    /\ command[r].status \in {"failed", "review_required"}
    /\ replays < MaxReplays
    /\ replays' = replays + 1
    /\ command' = [command EXCEPT ![r].status = "pending", ![r].token = NoWorker]
    /\ UNCHANGED <<stored, asset, upload, worker, faults>>

-----------------------------------------------------------------------------
RequestStep(r) ==
    \/ Begin(r) \/ Write(r) \/ Reload(r) \/ Commit(r)
    \/ PersistCleanup(r) \/ PersistRaises(r) \/ CrashRequest(r)

WorkerStep(w) ==
    \/ \E r \in Requests : Claim(w, r)
    \/ Look(w) \/ Delete(w) \/ Record(w)

Next ==
    \/ \E r \in Requests : RequestStep(r) \/ LeaseExpires(r) \/ Replay(r)
    \/ \E w \in Workers : WorkerStep(w) \/ CrashWorker(w)

Spec == Init /\ [][Next]_vars

\* The scheduler starts the job every minute, and the clock goes on.
Fairness ==
    /\ \A w \in Workers : WF_vars(WorkerStep(w))
    /\ \A r \in Requests : WF_vars(LeaseExpires(r))

FairSpec == Spec /\ Fairness

-----------------------------------------------------------------------------
\* "A committed MediaAsset object must never be deleted by orphan cleanup"
\* (docs/runbooks/MEDIA_STORAGE_FAILURE.md:14), although a commit whose answer
\* is lost enqueues the cleanup of its own object; and a request that answered
\* has an asset to show for it, its own or the one of its key (api/media.py:145).
AssetsAreStored ==
    /\ \A k \in Keys : asset[k] # NoObject => asset[k] \in stored
    /\ \A r \in Requests : upload[r] = "answered" => HasAsset(r)

\* An object without an asset is one its request still has in hand, or one with
\* a command that is not done: only a request that died, or said aloud that it
\* could not persist the command, leaves one nobody knows of
\* (docs/providers/object-storage.md:61, 81; jobs/media_cleanup_jobs.py:99).
OrphansAreKnown ==
    \A r \in stored :
       \/ Referenced(r)
       \/ upload[r] \in InFlight \cup {"lost"}
       \/ command[r].status \in {"pending", "processing", "failed", "review_required"}

\* "cleanup worker eventually reaches `sent`, or exposes terminal evidence"
\* (docs/runbooks/MEDIA_STORAGE_FAILURE.md:56), across crashes, late outcomes
\* and replays.
CleanupEnds ==
    \A r \in Requests :
       command[r].status \in {"pending", "processing"}
       ~> command[r].status \in {"sent", "failed", "review_required"}

=============================================================================
