------------------------------ MODULE Transfers ------------------------------
(***************************************************************************)
(* A file on its way from the desktop to the phone: the upload pass of     *)
(* file_transfer_processor.rs, its requests in agent.rs, the completion    *)
(* that outbox_processor.rs keeps in the outbox and sends again, the       *)
(* server's transfers.service.ts, the object store, and the worker that    *)
(* expires transfers and deletes their objects (worker/src/main.ts).       *)
(*                                                                         *)
(* The work limiter admits one upload pass at a time; the outbox is        *)
(* flushed beside it.  The user may edit the file between any two steps,   *)
(* the phone may cancel or acknowledge, the room may be closed, the time   *)
(* to live may run out, an answer may be lost, and desktop or worker may   *)
(* stop between any two steps.                                             *)
(***************************************************************************)
EXTENDS Integers, FiniteSets

CONSTANTS
    Transfers,     \* 1..N, numbered in the order they are created
    Versions,      \* versions of the source file, 1..n; a version is a file id, a size,
                   \* a modification time and the content that goes with them
    SizeOf,        \* version -> size in bytes
    MaxBytes,      \* FILE_TRANSFER_MAX_BYTES
    MaxFaults      \* lost answers, timeouts, restarts and failing deletions

ASSUME TransfersAssumption ==
    /\ Transfers \subseteq Nat \ {0} /\ IsFiniteSet(Transfers)
    /\ Versions \subseteq Nat \ {0} /\ 1 \in Versions /\ SizeOf \in [Versions -> Nat]
    /\ MaxBytes \in Nat /\ MaxFaults \in Nat

Absent == 0                \* no version: no file, no object, no hash
Torn == 0 - 1              \* bytes of more than one version
NoTransfer == 0
Open == {"REQUESTED", "UPLOADING", "READY"}
Finished == {"FAILED", "COMPLETED", "CANCELLED", "EXPIRED"}
Idle == [pc |-> "idle", todo |-> {}, transfer |-> NoTransfer, version |-> Absent,
         stream |-> Absent, sha |-> Absent, code |-> ""]
NoTransferRow == [status |-> "NONE", version |-> Absent, key |-> FALSE, sha |-> Absent, code |-> ""]
NoItem == [state |-> "none", sha |-> Absent]

VARIABLES
    file,          \* version of the source file now, or Absent
    row,           \* server: file_transfers
    room,          \* server: the room is ACTIVE
    late,          \* transfers whose expires_at has passed
    objects,       \* object store: transfer -> content under its key
    flight,        \* uploads the desktop has given up that may still arrive
    jobs,          \* server: object_deletion_jobs, transfer -> status
    held,          \* jobs that wait for expires_at (next_attempt_at)
    worker,        \* transfer whose object the worker is deleting, or NoTransfer
    pass,          \* the upload pass of the desktop
    outbox,        \* completions in the outbox
    flush,         \* the flush of the outbox: what it sends and how far it is
    faults,        \* faults so far
    stranded       \* transfers whose job a stopped worker left PROCESSING, or whose object
                   \* arrived after it was deleted (recorded for the properties)

vars == <<file, row, room, late, objects, flight, jobs, held, worker, pass, outbox, flush,
          faults, stranded>>
server == <<row, room, late, jobs, held, worker>>
store == <<objects, flight>>

Fault == faults < MaxFaults /\ faults' = faults + 1
Settle(t, status) == row' = [row EXCEPT ![t].status = status]
\* INSERT ... ON CONFLICT DO NOTHING: the transfer id is unique among the jobs.
Enqueue(T) == [t \in Transfers |-> IF t \in T /\ row[t].key /\ jobs[t] = "NONE" THEN "PENDING" ELSE jobs[t]]

Init ==
    /\ file = 1
    /\ row = [t \in Transfers |-> NoTransferRow] /\ room = TRUE /\ late = {}
    /\ objects = [t \in Transfers |-> Absent] /\ flight = [t \in Transfers |-> Absent]
    /\ jobs = [t \in Transfers |-> "NONE"] /\ held = {} /\ worker = NoTransfer
    /\ pass = Idle /\ outbox = [t \in Transfers |-> NoItem]
    /\ flush = [pc |-> "idle", transfer |-> NoTransfer]
    /\ faults = 0 /\ stranded = {}

-----------------------------------------------------------------------------
(* The user and the phone.                                                 *)

\* The user saves a new version over the file, or removes it.
EditFile ==
    /\ file # Absent /\ file' \in {v \in Versions : v > file} \cup {Absent}
    /\ UNCHANGED <<server, store, pass, outbox, flush, faults, stranded>>

\* create: the same key again returns the transfer there is.
CreateTransfer(t) ==
    /\ room /\ row[t].status = "NONE" /\ \A u \in Transfers : u < t => row[u].status # "NONE"
    /\ Settle(t, "REQUESTED")
    /\ UNCHANGED <<file, room, late, store, jobs, held, worker, pass, outbox, flush, faults, stranded>>

\* ack: the phone has downloaded the file and compared its hash.
AckTransfer(t) ==
    /\ room /\ row[t].status = "READY" /\ row[t].key
    /\ Settle(t, "COMPLETED") /\ jobs' = Enqueue({t})
    /\ UNCHANGED <<file, room, late, store, held, worker, pass, outbox, flush, faults, stranded>>

\* cancel: whatever is not completed or expired, a failed transfer too.
CancelTransfer(t) ==
    /\ room /\ row[t].status \notin {"NONE", "CANCELLED", "COMPLETED", "EXPIRED"}
    /\ Settle(t, "CANCELLED") /\ jobs' = Enqueue({t})
    /\ UNCHANGED <<file, room, late, store, held, worker, pass, outbox, flush, faults, stranded>>

\* Removal of the room or revocation of the device: every open transfer is cancelled, and
\* "A previously issued upload URL may remain valid until this time": its object is deleted
\* only after expires_at.
CloseRoom ==
    LET open == {t \in Transfers : row[t].status \in Open} IN
    /\ room /\ room' = FALSE
    /\ row' = [t \in Transfers |-> IF t \in open THEN [row[t] EXCEPT !.status = "CANCELLED"] ELSE row[t]]
    /\ jobs' = Enqueue(open)
    /\ held' = held \cup {t \in open : jobs'[t] # jobs[t]}
    /\ UNCHANGED <<file, late, store, worker, pass, outbox, flush, faults, stranded>>

-----------------------------------------------------------------------------
(* The upload pass.                                                        *)

Goto(pc) == pass' = [pass EXCEPT !.pc = pc]
NextTransfer == pass' = [Idle EXCEPT !.pc = "next", !.todo = pass.todo]
FailWith(code) == pass' = [pass EXCEPT !.pc = "fail", !.code = code]
Unchanged(version) == file = version

\* pending: requested transfers of open rooms.  The request may fail.
PendingFileTransfers ==
    LET pending == {t \in Transfers : row[t].status = "REQUESTED" /\ t \notin late} IN
    /\ pass.pc = "idle" /\ room /\ pending # {}
    /\ pass' = [Idle EXCEPT !.pc = "next", !.todo = pending]
    /\ UNCHANGED <<file, server, store, outbox, flush, faults, stranded>>

\* The oldest of those left.
ProcessNext ==
    /\ pass.pc = "next"
    /\ \/ pass.todo = {} /\ pass' = Idle
       \/ \E t \in pass.todo :
             /\ \A u \in pass.todo : t <= u
             /\ pass' = [Idle EXCEPT !.pc = "validate", !.todo = pass.todo \ {t}, !.transfer = t]
    /\ UNCHANGED <<file, server, store, outbox, flush, faults, stranded>>

\* validate_transfer_source_for_request.  Any error of root_id_for_room, a lost answer too,
\* is reported as OUTSIDE_MANAGED_ROOT; a missing or empty file as SOURCE_NOT_FOUND.
ValidateSource ==
    /\ pass.pc = "validate"
    /\ \/ /\ room /\ file # Absent /\ SizeOf[file] > 0
          /\ pass' = [pass EXCEPT !.pc = "target", !.version = file] /\ UNCHANGED faults
       \/ /\ room /\ (IF file = Absent THEN TRUE ELSE SizeOf[file] = 0)
          /\ FailWith("SOURCE_NOT_FOUND") /\ UNCHANGED faults
       \/ ~room /\ FailWith("OUTSIDE_MANAGED_ROOT") /\ UNCHANGED faults
       \/ Fault /\ FailWith("OUTSIDE_MANAGED_ROOT")
    /\ UNCHANGED <<file, server, store, outbox, flush, stranded>>

\* uploadTarget: the transfer must still be requested and within its time to live.
TargetGranted(t) == room /\ row[t].status = "REQUESTED" /\ t \notin late
AnnounceVersion(t) ==
    row' = [row EXCEPT ![t].status = "UPLOADING", ![t].version = pass.version, ![t].key = TRUE]
\* upload_target_failure_code: the only refusal that fails the transfer.
TooLarge(version) == SizeOf[version] > MaxBytes

\* prepare_upload_target_for_transfer, after the validation.
PrepareUploadTarget ==
    LET t == pass.transfer IN
    /\ pass.pc = "target"
    /\ \/ TooLarge(pass.version) /\ FailWith("SIZE_LIMIT_EXCEEDED") /\ UNCHANGED <<row, faults>>
       \/ /\ ~TooLarge(pass.version) /\ TargetGranted(t) /\ AnnounceVersion(t)
          /\ \/ Goto("before_hash") /\ UNCHANGED faults
             \/ NextTransfer /\ Fault
       \/ ~TooLarge(pass.version) /\ ~TargetGranted(t) /\ NextTransfer /\ UNCHANGED <<row, faults>>
    /\ UNCHANGED <<file, room, late, jobs, held, worker, store, outbox, flush, stranded>>

\* ensure_source_unchanged, before and after hashing and after the upload.
EnsureSourceUnchanged(at, next) ==
    /\ pass.pc = at
    /\ IF Unchanged(pass.version) THEN Goto(next) ELSE FailWith("SOURCE_CHANGED")
    /\ UNCHANGED <<file, server, store, outbox, flush, faults, stranded>>

\* hash_source_payload: reads the file as it is now; only its size is compared.
HashSourcePayload ==
    /\ pass.pc = "hash"
    /\ IF file = Absent THEN FailWith("SOURCE_CHANGED")
       ELSE IF SizeOf[file] # SizeOf[pass.version] THEN FailWith("SOURCE_CHANGED")
       ELSE pass' = [pass EXCEPT !.pc = "after_hash", !.sha = file]
    /\ UNCHANGED <<file, server, store, outbox, flush, faults, stranded>>

\* put_upload_file opens the file and streams it to the presigned URL, which the object
\* store refuses after expires_at.
OpenUpload ==
    /\ pass.pc = "put"
    /\ IF file = Absent \/ pass.transfer \in late THEN NextTransfer
       ELSE pass' = [pass EXCEPT !.pc = "putting", !.stream = file]
    /\ UNCHANGED <<file, server, store, outbox, flush, faults, stranded>>

\* The upload arrives: the version that was opened or, when the file was written to
\* meanwhile, bytes of both; a stream that ends before Content-Length is refused.
ArrivesAfterDeletion(t) == jobs[t] = "COMPLETED" \/ worker = t
FinishUpload ==
    LET t == pass.transfer IN
    /\ pass.pc = "putting"
    /\ \/ /\ \E content \in IF file = pass.stream THEN {pass.stream} ELSE {pass.stream, Torn} :
                objects' = [objects EXCEPT ![t] = content]
          /\ stranded' = IF ArrivesAfterDeletion(t) THEN stranded \cup {t} ELSE stranded
          /\ Goto("after_put")
       \/ file # pass.stream /\ NextTransfer /\ UNCHANGED <<objects, stranded>>
    /\ UNCHANGED <<file, server, flight, outbox, flush, faults>>

\* UPLOAD_TIMEOUT_SECONDS pass, or the answer is lost; the bytes may still arrive.
UploadTimesOut ==
    /\ pass.pc = "putting" /\ Fault
    /\ flight' = [flight EXCEPT ![pass.transfer] = pass.stream] /\ NextTransfer
    /\ UNCHANGED <<file, server, objects, outbox, flush, stranded>>
ArriveLate(t) ==
    /\ flight[t] # Absent
    /\ objects' = [objects EXCEPT ![t] = flight[t]] /\ flight' = [flight EXCEPT ![t] = Absent]
    /\ stranded' = IF ArrivesAfterDeletion(t) THEN stranded \cup {t} ELSE stranded
    /\ UNCHANGED <<file, server, pass, outbox, flush, faults>>

\* enqueue_file_transfer_completion: durable before the first attempt to send it.
EnqueueCompletion ==
    LET t == pass.transfer IN
    /\ pass.pc = "enqueue"
    /\ outbox' = IF outbox[t].state = "none"
                 THEN [outbox EXCEPT ![t] = [state |-> "pending", sha |-> pass.sha]] ELSE outbox
    /\ Goto("complete")
    /\ UNCHANGED <<file, server, store, flush, faults, stranded>>

\* fail: a transfer that is requested or uploading fails, whoever reports it.
FailFileTransfer ==
    LET t == pass.transfer
        accepted == room /\ row[t].status \in {"REQUESTED", "UPLOADING"} IN
    /\ pass.pc = "fail" /\ NextTransfer
    /\ \/ /\ accepted /\ UNCHANGED faults
          /\ row' = [row EXCEPT ![t].status = "FAILED", ![t].code = pass.code] /\ jobs' = Enqueue({t})
       \/ ~accepted /\ UNCHANGED <<row, jobs, faults>>
       \/ Fault /\ UNCHANGED <<row, jobs>>
    /\ UNCHANGED <<file, room, late, held, worker, store, outbox, flush, stranded>>

-----------------------------------------------------------------------------
(* The completion, sent by the pass and again by a flush of the outbox.    *)

\* complete, the reads before its transaction: "accept" repeats the answer of a completion
\* that is known, "commit" goes on, "retry" is an error the desktop takes for transient (a
\* missing object) and "reject" one it does not.
CompletionCheck(t, sha) ==
    IF row[t].sha # Absent THEN IF row[t].status = "READY" /\ row[t].sha = sha THEN "accept" ELSE "reject"
    ELSE IF ~room \/ row[t].status # "UPLOADING" \/ ~row[t].key THEN "reject"
    ELSE IF SizeOf[row[t].version] # SizeOf[sha] THEN "reject"
    ELSE IF objects[t] = Absent THEN "retry"
    ELSE "commit"

\* What was read before the transaction is not read again.
CommitUnlocked(t, sha) == row' = [row EXCEPT ![t].status = "READY", ![t].sha = sha]
\* The transaction: reads the row again under its lock.
CommitCompletion(t, sha) ==
    row' = IF room /\ row[t].status = "UPLOADING" /\ row[t].key /\ SizeOf[row[t].version] = SizeOf[sha]
           THEN [row EXCEPT ![t].status = "READY", ![t].sha = sha] ELSE row
Committed(t, sha) == row'[t].status = "READY" /\ row'[t].sha = sha

\* complete_file_transfer_upload; its answer only ends the pass.
CompleteUpload ==
    LET t == pass.transfer IN
    /\ \/ /\ pass.pc = "complete"
          /\ \/ CompletionCheck(t, pass.sha) = "commit" /\ Goto("commit") /\ UNCHANGED faults
             \/ CompletionCheck(t, pass.sha) # "commit" /\ NextTransfer /\ UNCHANGED faults
             \/ NextTransfer /\ Fault
          /\ UNCHANGED row
       \/ /\ pass.pc = "commit" /\ CommitCompletion(t, pass.sha) /\ NextTransfer /\ UNCHANGED faults
    /\ UNCHANGED <<file, room, late, jobs, held, worker, store, outbox, flush, stranded>>

\* Every error ends the row.
ClassifyTerminal(answer) == IF answer = "accept" THEN "sent" ELSE "failed"
\* classify, mark_sent, mark_retry and mark_failed.
Classify(answer) ==
    IF answer = "accept" THEN "sent" ELSE IF answer = "reject" THEN "failed" ELSE "pending"
Mark(t, answer) ==
    /\ outbox' = IF outbox[t].state = "pending" THEN [outbox EXCEPT ![t].state = Classify(answer)] ELSE outbox
    /\ flush' = [pc |-> "idle", transfer |-> NoTransfer]

\* pending_batch, one item at a time.
FlushNext(t) ==
    /\ flush.pc = "idle" /\ outbox[t].state = "pending"
    /\ flush' = [pc |-> "send", transfer |-> t]
    /\ UNCHANGED <<file, server, store, pass, outbox, faults, stranded>>

Dispatch ==
    LET t == flush.transfer
        check == CompletionCheck(t, outbox[t].sha) IN
    /\ \/ /\ flush.pc = "send" /\ UNCHANGED row
          /\ \/ check = "commit" /\ flush' = [flush EXCEPT !.pc = "commit"] /\ UNCHANGED <<outbox, faults>>
             \/ check # "commit" /\ Mark(t, check) /\ UNCHANGED faults
             \/ Fault /\ Mark(t, "retry")
       \/ /\ flush.pc = "commit" /\ CommitCompletion(t, outbox[t].sha)
          /\ \/ Mark(t, IF Committed(t, outbox[t].sha) THEN "accept" ELSE "reject") /\ UNCHANGED faults
             \/ Fault /\ Mark(t, "retry")
    /\ UNCHANGED <<file, room, late, jobs, held, worker, store, pass, stranded>>

\* The desktop stops and starts again: the outbox is all it remembers.
RestartDesktop ==
    /\ Fault /\ (pass.pc # "idle" \/ flush.pc # "idle")
    /\ pass' = Idle /\ flush' = [pc |-> "idle", transfer |-> NoTransfer]
    /\ UNCHANGED <<file, server, store, outbox, stranded>>

-----------------------------------------------------------------------------
(* The worker.                                                             *)

TimePasses(t) ==
    /\ row[t].status # "NONE" /\ t \notin late /\ late' = late \cup {t}
    /\ UNCHANGED <<file, row, room, jobs, held, worker, store, pass, outbox, flush, faults, stranded>>

\* Only what nobody has uploaded.
ExpireUnfinished(t) ==
    /\ t \in late /\ row[t].status \in {"REQUESTED", "UPLOADING"}
    /\ Settle(t, "EXPIRED") /\ jobs' = Enqueue({t})
    /\ UNCHANGED <<file, room, late, held, worker, store, pass, outbox, flush, faults, stranded>>
\* scheduleExpired and expireAbandonedTransfer: in an open room and in a closed one.
ScheduleExpired(t) ==
    /\ t \in late /\ row[t].status \in Open
    /\ Settle(t, "EXPIRED") /\ jobs' = Enqueue({t})
    /\ UNCHANGED <<file, room, late, held, worker, store, pass, outbox, flush, faults, stranded>>

ClaimTransferJob(t) ==
    /\ worker = NoTransfer /\ jobs[t] = "PENDING" /\ (t \in held => t \in late)
    /\ jobs' = [jobs EXCEPT ![t] = "PROCESSING"] /\ worker' = t
    /\ UNCHANGED <<file, row, room, late, held, store, pass, outbox, flush, faults, stranded>>

\* A deletion that fails is left as it is.
GiveUpTransferJob ==
    /\ worker # NoTransfer /\ worker' = NoTransfer
    /\ \/ /\ objects' = [objects EXCEPT ![worker] = Absent]
          /\ jobs' = [jobs EXCEPT ![worker] = "COMPLETED"] /\ UNCHANGED faults
       \/ Fault /\ UNCHANGED <<jobs, objects>>
    /\ UNCHANGED <<file, row, room, late, held, flight, pass, outbox, flush, stranded>>
\* processTransferJob: a deletion that fails is tried again.
ProcessTransferJob ==
    /\ worker # NoTransfer /\ worker' = NoTransfer
    /\ \/ /\ objects' = [objects EXCEPT ![worker] = Absent]
          /\ jobs' = [jobs EXCEPT ![worker] = "COMPLETED"] /\ UNCHANGED faults
       \/ Fault /\ jobs' = [jobs EXCEPT ![worker] = "PENDING"] /\ UNCHANGED objects
    /\ UNCHANGED <<file, row, room, late, held, flight, pass, outbox, flush, stranded>>

\* The worker stops; a job it has claimed stays PROCESSING, which claimTransferJob never
\* selects again.
RestartWorker ==
    /\ Fault /\ worker # NoTransfer /\ worker' = NoTransfer
    /\ stranded' = stranded \cup {worker}
    /\ UNCHANGED <<file, row, room, late, jobs, held, store, pass, outbox, flush>>

-----------------------------------------------------------------------------
Pass ==
    \/ PendingFileTransfers \/ ProcessNext \/ ValidateSource \/ PrepareUploadTarget
    \/ EnsureSourceUnchanged("before_hash", "hash") \/ HashSourcePayload
    \/ EnsureSourceUnchanged("after_hash", "put") \/ OpenUpload \/ FinishUpload
    \/ EnsureSourceUnchanged("after_put", "enqueue") \/ EnqueueCompletion
    \/ CompleteUpload \/ FailFileTransfer
Work(t) == ScheduleExpired(t) \/ ClaimTransferJob(t)

Next ==
    \/ EditFile \/ CloseRoom \/ Pass \/ UploadTimesOut
    \/ \E t \in Transfers : CreateTransfer(t) \/ AckTransfer(t) \/ CancelTransfer(t)
    \/ \E t \in Transfers : FlushNext(t) \/ ArriveLate(t) \/ TimePasses(t) \/ Work(t)
    \/ Dispatch \/ ProcessTransferJob \/ RestartDesktop \/ RestartWorker

\* The clock goes on, the worker's tick comes every 30 seconds and the desktop's background
\* loop flushes the outbox on every tick.
Fairness ==
    /\ \A t \in Transfers : WF_vars(TimePasses(t)) /\ WF_vars(Work(t)) /\ WF_vars(FlushNext(t))
    /\ WF_vars(Dispatch) /\ WF_vars(ProcessTransferJob)

Spec == Init /\ [][Next]_vars /\ Fairness

-----------------------------------------------------------------------------
(* Properties.                                                             *)

Contents == Versions \cup {Absent, Torn}
\* Types of the variables.
TypeOK ==
    /\ file \in Versions \cup {Absent} /\ room \in BOOLEAN /\ late \subseteq Transfers
    /\ \A t \in Transfers :
         /\ row[t].status \in {"NONE"} \cup Open \cup Finished
         /\ row[t].key <=> row[t].version \in Versions
         /\ row[t].status \in {"NONE", "REQUESTED"} => ~row[t].key
         /\ row[t].status \in {"READY", "COMPLETED"} => row[t].sha \in Versions
         /\ {objects[t], flight[t]} \subseteq Contents
         /\ jobs[t] \in {"NONE", "PENDING", "PROCESSING", "COMPLETED"}
         /\ outbox[t].state \in {"none", "pending", "sent", "failed"}
         /\ outbox[t].sha \in Versions \cup {Absent}
    /\ worker \in Transfers \cup {NoTransfer} /\ (worker # NoTransfer => jobs[worker] = "PROCESSING")
    /\ pass.version \in Versions \cup {Absent} /\ pass.sha \in Versions \cup {Absent}
    /\ flush.transfer \in Transfers \cup {NoTransfer} /\ faults \in 0..MaxFaults

\* The phone may download while the transfer is READY: the object is there, it is the
\* version whose size and identity the desktop had announced, whole, and its hash is the
\* one the desktop reported, whatever was saved over the file between hash and upload and
\* whoever cancelled, expired or deleted meanwhile.
ReadyIsFaithful ==
    \A t \in Transfers : row[t].status = "READY" => objects[t] = row[t].sha /\ row[t].sha = row[t].version

\* A completion the outbox gives up ("cannot retry forever") is not one the server is still
\* waiting for, and one it counts as sent is known to the server.
DeadLetterIsFinal ==
    \A t \in Transfers :
        /\ outbox[t].state = "failed" => row[t].status # "UPLOADING"
        /\ outbox[t].state = "sent" => row[t].sha = outbox[t].sha

\* Every transfer comes to an end, with the desktop gone for good and the phone silent.
Settles == \A t \in Transfers : row[t].status = "REQUESTED" ~> row[t].status \in Finished

\* The object of a transfer that came to an end is deleted, through failing deletions,
\* unless it was stranded.
ObjectsAreDeleted ==
    \A t \in Transfers : row[t].status \in Finished ~> (objects[t] = Absent \/ t \in stranded)
=============================================================================
