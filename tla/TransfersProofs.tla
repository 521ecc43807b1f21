--------------------------- MODULE TransfersProofs ---------------------------
(***************************************************************************)
(* Proofs about module Transfers: for any number of transfers, versions    *)
(* and faults, what the phone may download is the announced version,       *)
(* whole, and a completion the outbox gives up is final.                   *)
(*                                                                         *)
(* The inductive invariant Inv says, for every transfer, what its row,     *)
(* its object, its deletion job and its outbox item know of each other,    *)
(* and what the upload pass knows at each of its steps.  Versions only     *)
(* grow, so two checks that find the same version bracket every read that  *)
(* was made between them.                                                  *)
(***************************************************************************)
EXTENDS Transfers, TLAPS

NoVersion == Versions \cup {Absent}
Statuses == {"NONE"} \cup Open \cup Finished
Codes == {"", "SOURCE_NOT_FOUND", "OUTSIDE_MANAGED_ROOT", "SIZE_LIMIT_EXCEEDED", "SOURCE_CHANGED"}

\* The steps of the pass that hold an announced transfer.
BeforePut == {"before_hash", "hash", "after_hash", "put", "putting"}
BeforeQueue == BeforePut \cup {"after_put", "enqueue"}
Sending == {"complete", "commit"}
Holding == BeforeQueue \cup Sending
Steps == {"idle", "next", "validate", "target", "fail"} \cup Holding

PassRecord ==
    [pc : Steps, todo : SUBSET Transfers, transfer : Transfers \cup {NoTransfer},
     version : NoVersion, stream : NoVersion, sha : NoVersion, code : Codes]
RowRecord == [status : Statuses, version : NoVersion, key : BOOLEAN, sha : NoVersion, code : Codes]
ItemRecord == [state : {"none", "pending", "sent", "failed"}, sha : NoVersion]
FlushRecord == [pc : {"idle", "send", "commit"}, transfer : Transfers \cup {NoTransfer}]

DesktopTypes ==
    /\ file \in NoVersion /\ faults \in 0..MaxFaults
    /\ pass \in PassRecord /\ flush \in FlushRecord /\ outbox \in [Transfers -> ItemRecord]
ServerTypes ==
    /\ row \in [Transfers -> RowRecord] /\ room \in BOOLEAN /\ late \subseteq Transfers
    /\ jobs \in [Transfers -> {"NONE", "PENDING", "PROCESSING", "COMPLETED"}]
    /\ held \subseteq Transfers /\ worker \in Transfers \cup {NoTransfer}
    /\ objects \in [Transfers -> Contents] /\ flight \in [Transfers -> NoVersion]
    /\ stranded \subseteq Transfers
Types == DesktopTypes /\ ServerTypes

\* A transfer's row by itself: an object key is given with the announced version, a hash is
\* known only once the upload is complete, and nothing is open in a closed room.
RowInv(t) ==
    /\ row[t].key <=> row[t].version \in Versions
    /\ row[t].status \in {"NONE", "REQUESTED"} => ~row[t].key
    /\ row[t].status \in {"UPLOADING", "READY", "COMPLETED"} => row[t].key
    /\ row[t].sha # Absent => row[t].status \in {"READY"} \cup Finished /\ row[t].sha = row[t].version
    /\ row[t].status \in {"READY", "COMPLETED"} => row[t].sha # Absent
    /\ ~room => row[t].status \notin Open

\* The job exists only for a transfer that came to an end, and the object is deleted only
\* through the job.
JobInv(t) ==
    /\ jobs[t] # "NONE" => row[t].status \in Finished
    /\ worker = t => jobs[t] = "PROCESSING"

\* What is in the outbox was uploaded and found unchanged before it was written there.
QueuedInv(t) ==
    /\ outbox[t].state # "none" =>
         /\ row[t].key /\ outbox[t].sha = row[t].version /\ flight[t] = Absent
         /\ jobs[t] = "NONE" => objects[t] = row[t].version
    /\ row[t].sha # Absent => outbox[t].state # "none"
    /\ flight[t] # Absent => row[t].key

\* An answer that marked the item is still true of the row.
AnsweredInv(t) ==
    /\ outbox[t].state = "failed" => row[t].status # "UPLOADING"
    /\ outbox[t].state = "sent" => row[t].sha = outbox[t].sha

TransferInv == \A t \in Transfers : RowInv(t) /\ JobInv(t) /\ QueuedInv(t) /\ AnsweredInv(t)

\* What the pass knows at each step.
HoldingInv ==
    LET t == pass.transfer IN
    pass.pc \in Holding =>
        /\ row[t].key /\ row[t].version = pass.version /\ pass.version \in Versions
        /\ flight[t] = Absent
        /\ pass.pc \in BeforeQueue <=> outbox[t].state = "none"
\* The file has been the announced version at every read since the last check if it is now.
BracketInv ==
    LET t == pass.transfer IN
    /\ file # Absent => file >= pass.version
    /\ pass.pc \in {"target"} => pass.version \in Versions
    /\ pass.pc = "after_hash" => (file = pass.version => pass.sha = pass.version)
    /\ pass.pc \in {"put", "putting", "after_put", "enqueue"} \cup Sending => pass.sha = pass.version
    /\ pass.pc = "putting" => pass.stream \in Versions /\ (file = pass.version => pass.stream = pass.version)
    /\ pass.pc = "after_put" => (file = pass.version /\ jobs[t] = "NONE" => objects[t] = pass.version)
    /\ pass.pc = "enqueue" => (jobs[t] = "NONE" => objects[t] = pass.version)
PassInv ==
    /\ pass.pc \notin {"idle", "next"} => pass.transfer \in Transfers
    /\ HoldingInv /\ BracketInv

\* The flush holds an item of the outbox.
FlushInv == flush.pc # "idle" => flush.transfer \in Transfers /\ outbox[flush.transfer].state # "none"

Inv == Types /\ TransferInv /\ PassInv /\ FlushInv

-----------------------------------------------------------------------------
(* The user, the phone and the worker: the pass and the flush stay.        *)

(* The records, field by field.                                            *)

LEMMA RowFields ==
  ASSUME NEW r \in RowRecord
  PROVE  /\ r.status \in Statuses /\ r.version \in NoVersion /\ r.key \in BOOLEAN
         /\ r.sha \in NoVersion /\ r.code \in Codes
  BY DEF RowRecord

LEMMA SettleRow ==
  ASSUME NEW r \in RowRecord, NEW s \in Statuses
  PROVE  LET q == [r EXCEPT !.status = s] IN
         q \in RowRecord /\ q.status = s /\ q.version = r.version /\ q.key = r.key /\ q.sha = r.sha
  BY DEF RowRecord

LEMMA MarkItem ==
  ASSUME NEW i \in ItemRecord, NEW s \in {"none", "pending", "sent", "failed"}
  PROVE  LET q == [i EXCEPT !.state = s] IN q \in ItemRecord /\ q.state = s /\ q.sha = i.sha
  BY DEF ItemRecord

LEMMA PassFields ==
  ASSUME NEW p \in PassRecord
  PROVE  /\ p.pc \in Steps /\ p.todo \subseteq Transfers /\ p.transfer \in Transfers \cup {NoTransfer}
         /\ p.version \in NoVersion /\ p.stream \in NoVersion /\ p.sha \in NoVersion /\ p.code \in Codes
  BY DEF PassRecord

LEMMA IdleRecord == Idle \in PassRecord /\ Idle.pc = "idle" /\ Idle.version = Absent
  BY DEF PassRecord, Idle, NoVersion, Codes, Steps

LEMMA NextRecord ==
  ASSUME NEW T \in SUBSET Transfers
  PROVE  LET q == [Idle EXCEPT !.pc = "next", !.todo = T] IN
         q \in PassRecord /\ q.pc = "next" /\ q.version = Absent
  BY DEF PassRecord, Idle, NoVersion, Codes, Steps

LEMMA ValidateRecord ==
  ASSUME NEW T \in SUBSET Transfers, NEW t \in Transfers
  PROVE  LET q == [Idle EXCEPT !.pc = "validate", !.todo = T, !.transfer = t] IN
         q \in PassRecord /\ q.pc = "validate" /\ q.version = Absent /\ q.transfer = t
  BY DEF PassRecord, Idle, NoVersion, Codes, Steps

LEMMA GotoPass ==
  ASSUME NEW p \in PassRecord, NEW pc \in Steps
  PROVE  LET q == [p EXCEPT !.pc = pc] IN
         /\ q \in PassRecord /\ q.pc = pc /\ q.transfer = p.transfer /\ q.version = p.version
         /\ q.stream = p.stream /\ q.sha = p.sha
  BY DEF PassRecord

LEMMA FailPass ==
  ASSUME NEW p \in PassRecord, NEW c \in Codes
  PROVE  LET q == [p EXCEPT !.pc = "fail", !.code = c] IN
         q \in PassRecord /\ q.pc = "fail" /\ q.transfer = p.transfer /\ q.version = p.version
  BY DEF PassRecord, Steps

-----------------------------------------------------------------------------
(* What a step may do to a transfer, to the pass and to the flush without  *)
(* breaking what the others know.                                          *)

\* A row keeps what was announced and reported; its status stays, becomes REQUESTED or
\* ends, and COMPLETED comes after READY only.
RowMoves(t) ==
    /\ row'[t].version = row[t].version /\ row'[t].key = row[t].key /\ row'[t].sha = row[t].sha
    /\ \/ row'[t].status = row[t].status
       \/ row[t].status = "NONE" /\ row'[t].status = "REQUESTED"
       \/ /\ row[t].status # "NONE" /\ row'[t].status \in Finished
          /\ row'[t].status = "COMPLETED" => row[t].status = "READY"
    /\ ~room' => row'[t].status \notin Open
\* A job is created for a transfer that has ended, and goes on from there.
JobMoves(t) ==
    /\ jobs[t] = "NONE" /\ jobs'[t] # "NONE" => row'[t].status \in Finished
    /\ jobs[t] # "NONE" => jobs'[t] # "NONE"
    /\ worker' = t => jobs'[t] = "PROCESSING"

LEMMA MovesKeepTransferInv ==
  ASSUME Inv, UNCHANGED <<objects, flight, outbox>>,
         \A t \in Transfers : RowMoves(t) /\ JobMoves(t)
  PROVE  TransferInv'
<1> SUFFICES ASSUME NEW t \in Transfers
             PROVE  (RowInv(t) /\ JobInv(t) /\ QueuedInv(t) /\ AnsweredInv(t))'
  BY DEF TransferInv
<1> RowMoves(t) /\ JobMoves(t) /\ RowInv(t) /\ JobInv(t) /\ QueuedInv(t) /\ AnsweredInv(t)
  BY DEF Inv, TransferInv
<1>1. RowInv(t)'
  BY DEF RowMoves, RowInv, Open, Finished
<1>2. JobInv(t)'
  BY DEF RowMoves, JobMoves, JobInv, Finished
<1>3. QueuedInv(t)'
  BY DEF RowMoves, JobMoves, QueuedInv
<1>4. AnsweredInv(t)'
  BY DEF RowMoves, AnsweredInv, Finished
<1> QED BY <1>1, <1>2, <1>3, <1>4

\* The pass is not disturbed by what happens to other transfers, nor by a status.
LEMMA PassStays ==
  ASSUME Inv, UNCHANGED <<file, pass, flight, outbox>>,
         \A t \in Transfers :
            /\ row'[t].version = row[t].version /\ row'[t].key = row[t].key
            /\ jobs'[t] = "NONE" => jobs[t] = "NONE" /\ objects'[t] = objects[t]
  PROVE  PassInv'
<1> PassInv
  BY DEF Inv
<1>1. CASE pass.transfer \in Transfers
  <2>1. HoldingInv'
    BY <1>1 DEF PassInv, HoldingInv
  <2>2. BracketInv'
    BY <1>1 DEF PassInv, BracketInv
  <2> QED BY <2>1, <2>2 DEF PassInv
<1>2. CASE pass.transfer \notin Transfers
  <2>1. pass.pc \in {"idle", "next"}
    BY <1>2 DEF PassInv
  <2>2. HoldingInv'
    BY <2>1 DEF HoldingInv, Holding, BeforeQueue, BeforePut, Sending
  <2>3. BracketInv'
    BY <2>1 DEF PassInv, BracketInv, Sending
  <2> QED BY <2>1, <2>2, <2>3 DEF PassInv
<1> QED BY <1>1, <1>2

\* Between two transfers the pass knows nothing.
LEMMA PassRests ==
  ASSUME pass'.pc \in {"idle", "next"}, pass'.version = Absent, file' \in NoVersion
  PROVE  PassInv'
<1>1. HoldingInv'
  BY DEF HoldingInv, Holding, BeforeQueue, BeforePut, Sending
<1>2. BracketInv'
  BY TransfersAssumption DEF BracketInv, Sending, NoVersion, Absent
<1> QED BY <1>1, <1>2 DEF PassInv

LEMMA PassGoesOn ==
  ASSUME Inv, NextTransfer, UNCHANGED file PROVE pass' \in PassRecord /\ PassInv'
<1>1. pass' \in PassRecord /\ pass'.pc = "next" /\ pass'.version = Absent
  BY PassFields, NextRecord DEF NextTransfer, Inv, Types, DesktopTypes
<1> QED BY <1>1, PassRests DEF Inv, Types, DesktopTypes

LEMMA PassFails ==
  ASSUME Inv, pass.pc \notin {"idle", "next"}, NEW c \in Codes, FailWith(c), UNCHANGED file
  PROVE  pass' \in PassRecord /\ PassInv'
<1>1. /\ pass' \in PassRecord /\ pass'.pc = "fail" /\ pass'.transfer = pass.transfer
      /\ pass'.version = pass.version
  BY FailPass DEF FailWith, Inv, Types, DesktopTypes
<1>2. HoldingInv'
  BY <1>1 DEF HoldingInv, Holding, BeforeQueue, BeforePut, Sending
<1>3. BracketInv'
  BY <1>1 DEF Inv, PassInv, BracketInv, Sending
<1> QED BY <1>1, <1>2, <1>3 DEF PassInv, Inv

LEMMA FlushStays ==
  ASSUME Inv, UNCHANGED flush, \A t \in Transfers : outbox[t].state # "none" => outbox'[t].state # "none"
  PROVE  FlushInv'
  BY DEF Inv, FlushInv

\* A deletion job for each of T that has an object key.
LEMMA EnqueueJobs ==
  ASSUME ServerTypes, NEW T \in SUBSET Transfers, jobs' = Enqueue(T)
  PROVE  /\ jobs' \in [Transfers -> {"NONE", "PENDING", "PROCESSING", "COMPLETED"}]
         /\ \A t \in Transfers : /\ jobs[t] # "NONE" => jobs'[t] = jobs[t]
                                 /\ jobs'[t] # jobs[t] => t \in T
  BY DEF ServerTypes, Enqueue

-----------------------------------------------------------------------------
(* The user, the phone and the clock.                                      *)

LEMMA InitInv == Init => Inv
<1> SUFFICES ASSUME Init PROVE Inv
  OBVIOUS
<1>1. pass \in PassRecord /\ pass.pc = "idle" /\ pass.version = Absent
  BY IdleRecord DEF Init
<1>2. DesktopTypes
  BY <1>1, TransfersAssumption DEF Init, DesktopTypes, FlushRecord, ItemRecord, NoItem, NoVersion
<1>3. ServerTypes
  BY DEF Init, ServerTypes, RowRecord, NoTransferRow, NoVersion, Statuses, Codes, Contents
<1>4. TransferInv
  BY TransfersAssumption DEF Init, NoTransferRow, NoItem, TransferInv, RowInv, JobInv, QueuedInv, AnsweredInv,
                             Open, Absent, NoTransfer
<1>5. HoldingInv
  BY <1>1 DEF HoldingInv, Holding, BeforeQueue, BeforePut, Sending
<1>6. BracketInv
  BY <1>1 DEF BracketInv, Sending, Init, Absent
<1>7. PassInv /\ FlushInv
  BY <1>1, <1>5, <1>6 DEF PassInv, FlushInv, Init
<1> QED BY <1>2, <1>3, <1>4, <1>7 DEF Inv, Types

LEMMA EditInv == ASSUME Inv, EditFile PROVE Inv'
<1> /\ file' \in NoVersion /\ file # Absent /\ (file' = Absent \/ file' > file)
    /\ UNCHANGED <<row, room, late, jobs, held, worker, objects, flight, pass, outbox, flush, faults, stranded>>
  BY DEF EditFile, NoVersion, server, store
<1> file \in Int /\ file' \in Int /\ pass.version \in Int /\ Absent = 0
  <2>1. NoVersion \subseteq Int
    BY TransfersAssumption DEF NoVersion, Absent
  <2>2. file \in NoVersion /\ pass.version \in NoVersion
    BY PassFields DEF Inv, Types, DesktopTypes
  <2> QED BY <2>1, <2>2 DEF Absent
<1>1. Types'
  BY DEF Inv, Types, DesktopTypes, ServerTypes
<1>2. TransferInv' /\ FlushInv'
  BY DEF Inv, TransferInv, RowInv, JobInv, QueuedInv, AnsweredInv, FlushInv
<1>3. pass.version \in Versions => file' # pass.version
  BY TransfersAssumption DEF Inv, PassInv, BracketInv
<1>4. HoldingInv'
  BY DEF Inv, PassInv, HoldingInv
<1>5. BracketInv'
  <2>1. pass.pc \in {"after_hash", "putting", "after_put"} => file' # pass.version
    BY <1>3 DEF Inv, PassInv, HoldingInv, Holding, BeforeQueue, BeforePut
  <2> QED BY <2>1 DEF Inv, PassInv, BracketInv
<1> QED BY <1>1, <1>2, <1>4, <1>5 DEF Inv, PassInv

LEMMA CreateInv == ASSUME Inv, NEW t \in Transfers, CreateTransfer(t) PROVE Inv'
<1> /\ room /\ row[t].status = "NONE" /\ row' = [row EXCEPT ![t] = [row[t] EXCEPT !.status = "REQUESTED"]]
    /\ UNCHANGED <<file, room, late, objects, flight, jobs, held, worker, pass, outbox, flush, faults, stranded>>
  BY DEF CreateTransfer, Settle, store
<1>0. /\ row \in [Transfers -> RowRecord] /\ "REQUESTED" \in Statuses
  BY DEF Inv, Types, ServerTypes, Statuses, Open
<1>1. /\ row' \in [Transfers -> RowRecord]
      /\ \A u \in Transfers : RowMoves(u) /\ JobMoves(u)
  BY <1>0, SettleRow DEF RowMoves, JobMoves, Inv, TransferInv, RowInv, JobInv, Finished
<1>2. Types'
  BY <1>1 DEF Inv, Types, DesktopTypes, ServerTypes
<1>3. TransferInv' /\ PassInv' /\ FlushInv'
  BY <1>1, MovesKeepTransferInv, PassStays, FlushStays DEF RowMoves
<1> QED BY <1>2, <1>3 DEF Inv

\* A transfer comes to an end and its object is to be deleted: ack, cancel and expiry.
LEMMA EndInv ==
  ASSUME Inv, NEW t \in Transfers, NEW s \in Finished, row[t].status # "NONE",
         s = "COMPLETED" => row[t].status = "READY",
         Settle(t, s), jobs' = Enqueue({t}),
         UNCHANGED <<file, room, late, held, worker, objects, flight, pass, outbox, flush, faults, stranded>>
  PROVE  Inv'
<1> row' = [row EXCEPT ![t] = [row[t] EXCEPT !.status = s]]
  BY DEF Settle
<1>0. row \in [Transfers -> RowRecord] /\ s \in Statuses
  BY DEF Inv, Types, ServerTypes, Statuses
<1>1. /\ row' \in [Transfers -> RowRecord]
      /\ \A u \in Transfers : RowMoves(u)
  BY <1>0, SettleRow DEF RowMoves, Inv, TransferInv, RowInv, Finished, Open
<1>2. /\ jobs' \in [Transfers -> {"NONE", "PENDING", "PROCESSING", "COMPLETED"}]
      /\ \A u \in Transfers : JobMoves(u)
  <2>1. row'[t].status = s
    BY <1>0, SettleRow
  <2>2. /\ jobs' \in [Transfers -> {"NONE", "PENDING", "PROCESSING", "COMPLETED"}]
        /\ \A u \in Transfers : (jobs[u] # "NONE" => jobs'[u] = jobs[u]) /\ (jobs'[u] # jobs[u] => u = t)
    BY EnqueueJobs, {t} \in SUBSET Transfers DEF Inv, Types
  <2> QED BY <2>1, <2>2 DEF Inv, TransferInv, JobInv, JobMoves
<1>3. Types'
  BY <1>1, <1>2 DEF Inv, Types, DesktopTypes, ServerTypes
<1>4. TransferInv' /\ PassInv' /\ FlushInv'
  BY <1>1, <1>2, MovesKeepTransferInv, PassStays, FlushStays DEF RowMoves, JobMoves
<1> QED BY <1>3, <1>4 DEF Inv

LEMMA AckInv == ASSUME Inv, NEW t \in Transfers, AckTransfer(t) PROVE Inv'
  BY EndInv DEF AckTransfer, Finished, store

LEMMA CancelInv == ASSUME Inv, NEW t \in Transfers, CancelTransfer(t) PROVE Inv'
  BY EndInv DEF CancelTransfer, Finished, store

LEMMA ExpireInv == ASSUME Inv, NEW t \in Transfers, ScheduleExpired(t) PROVE Inv'
  BY EndInv DEF ScheduleExpired, Finished, Open, store

LEMMA CloseInv == ASSUME Inv, CloseRoom PROVE Inv'
<1> DEFINE open == {t \in Transfers : row[t].status \in Open}
<1> /\ room' = FALSE /\ jobs' = Enqueue(open) /\ held' = held \cup {t \in open : jobs'[t] # jobs[t]}
    /\ row' = [t \in Transfers |-> IF t \in open THEN [row[t] EXCEPT !.status = "CANCELLED"] ELSE row[t]]
    /\ UNCHANGED <<file, late, objects, flight, worker, pass, outbox, flush, faults, stranded>>
  BY DEF CloseRoom, store
<1>0. row \in [Transfers -> RowRecord] /\ "CANCELLED" \in Statuses
  BY DEF Inv, Types, ServerTypes, Statuses, Finished
<1>1. /\ row' \in [Transfers -> RowRecord]
      /\ \A u \in Transfers : RowMoves(u) /\ (u \in open => row'[u].status \in Finished)
  BY <1>0, SettleRow DEF RowMoves, Open, Finished
<1>2. /\ jobs' \in [Transfers -> {"NONE", "PENDING", "PROCESSING", "COMPLETED"}]
      /\ \A u \in Transfers : JobMoves(u)
  BY <1>1, EnqueueJobs DEF Inv, Types, TransferInv, JobInv, JobMoves
<1>3. Types'
  BY <1>1, <1>2 DEF Inv, Types, DesktopTypes, ServerTypes
<1>4. TransferInv' /\ PassInv' /\ FlushInv'
  BY <1>1, <1>2, MovesKeepTransferInv, PassStays, FlushStays DEF RowMoves, JobMoves
<1> QED BY <1>3, <1>4 DEF Inv

LEMMA TimeInv == ASSUME Inv, NEW t \in Transfers, TimePasses(t) PROVE Inv'
<1> /\ late' = late \cup {t}
    /\ UNCHANGED <<file, row, room, jobs, held, worker, objects, flight, pass, outbox, flush, faults, stranded>>
  BY DEF TimePasses, store
<1>1. Types'
  BY DEF Inv, Types, DesktopTypes, ServerTypes
<1>2. TransferInv' /\ PassInv' /\ FlushInv'
  <2>1. \A u \in Transfers : RowMoves(u) /\ JobMoves(u)
    BY DEF RowMoves, JobMoves, Inv, TransferInv, RowInv, JobInv
  <2> QED BY <2>1, MovesKeepTransferInv, PassStays, FlushStays
<1> QED BY <1>1, <1>2 DEF Inv

-----------------------------------------------------------------------------
(* The worker.                                                             *)

LEMMA ClaimInv == ASSUME Inv, NEW t \in Transfers, ClaimTransferJob(t) PROVE Inv'
<1> /\ worker = NoTransfer /\ jobs[t] = "PENDING" /\ jobs' = [jobs EXCEPT ![t] = "PROCESSING"] /\ worker' = t
    /\ UNCHANGED <<file, row, room, late, held, objects, flight, pass, outbox, flush, faults, stranded>>
  BY DEF ClaimTransferJob, store
<1>1. Types'
  BY DEF Inv, Types, DesktopTypes, ServerTypes
<1>2. \A u \in Transfers : RowMoves(u) /\ JobMoves(u)
  BY DEF RowMoves, JobMoves, Inv, Types, ServerTypes, TransferInv, RowInv, JobInv
<1>3. TransferInv' /\ PassInv' /\ FlushInv'
  BY <1>2, MovesKeepTransferInv, PassStays, FlushStays DEF JobMoves
<1> QED BY <1>1, <1>3 DEF Inv

LEMMA ProcessInv == ASSUME Inv, ProcessTransferJob PROVE Inv'
<1> DEFINE t == worker
<1> /\ t \in Transfers /\ worker' = NoTransfer /\ faults' \in 0..MaxFaults /\ NoTransfer \notin Transfers
    /\ UNCHANGED <<file, row, room, late, held, flight, pass, outbox, flush, stranded>>
  BY TransfersAssumption DEF ProcessTransferJob, Inv, Types, DesktopTypes, ServerTypes, Fault, NoTransfer
<1>1. jobs[t] = "PROCESSING"
  BY DEF Inv, TransferInv, JobInv
<1>2. \A u \in Transfers : jobs[u] = "NONE" => objects'[u] = objects[u]
  BY <1>1 DEF ProcessTransferJob, Inv, Types, ServerTypes
<1>3. /\ jobs' \in [Transfers -> {"NONE", "PENDING", "PROCESSING", "COMPLETED"}]
      /\ objects' \in [Transfers -> Contents]
      /\ \A u \in Transfers : jobs'[u] = "NONE" <=> jobs[u] = "NONE"
  BY <1>1 DEF ProcessTransferJob, Inv, Types, ServerTypes, Contents
<1>4. Types'
  BY <1>3 DEF Inv, Types, DesktopTypes, ServerTypes
<1>5. TransferInv'
  <2> SUFFICES ASSUME NEW u \in Transfers
               PROVE  (RowInv(u) /\ JobInv(u) /\ QueuedInv(u) /\ AnsweredInv(u))'
    BY DEF TransferInv
  <2>1. RowInv(u) /\ JobInv(u) /\ QueuedInv(u) /\ AnsweredInv(u)
    BY DEF Inv, TransferInv
  <2>2. JobInv(u)'
    BY <2>1, <1>3 DEF JobInv
  <2> QED BY <2>1, <2>2, <1>2, <1>3 DEF RowInv, QueuedInv, AnsweredInv
<1>6. PassInv' /\ FlushInv'
  BY <1>2, <1>3, PassStays, FlushStays
<1> QED BY <1>4, <1>5, <1>6 DEF Inv

LEMMA RestartWorkerInv == ASSUME Inv, RestartWorker PROVE Inv'
<1> /\ worker \in Transfers /\ worker' = NoTransfer /\ stranded' = stranded \cup {worker}
    /\ faults' \in 0..MaxFaults /\ NoTransfer \notin Transfers
    /\ UNCHANGED <<file, row, room, late, jobs, held, objects, flight, pass, outbox, flush>>
  BY TransfersAssumption DEF RestartWorker, Inv, Types, DesktopTypes, ServerTypes, Fault, NoTransfer, store
<1>1. Types'
  BY DEF Inv, Types, DesktopTypes, ServerTypes
<1>2. \A u \in Transfers : RowMoves(u) /\ JobMoves(u)
  BY DEF RowMoves, JobMoves, Inv, TransferInv, RowInv
<1>3. TransferInv' /\ PassInv' /\ FlushInv'
  BY <1>2, MovesKeepTransferInv, PassStays, FlushStays
<1> QED BY <1>1, <1>3 DEF Inv

-----------------------------------------------------------------------------
(* The upload pass.                                                        *)

\* A step of the pass that writes nowhere else.
LEMMA PassStepInv ==
  ASSUME Inv, UNCHANGED <<file, server, store, outbox, flush, stranded>>, faults' \in 0..MaxFaults,
         pass' \in PassRecord, PassInv'
  PROVE  Inv'
<1> UNCHANGED <<row, room, late, jobs, held, worker, objects, flight>>
  BY DEF server, store
<1>1. Types'
  BY DEF Inv, Types, DesktopTypes, ServerTypes
<1>2. TransferInv' /\ FlushInv'
  BY DEF Inv, TransferInv, RowInv, JobInv, QueuedInv, AnsweredInv, FlushInv
<1> QED BY <1>1, <1>2 DEF Inv

LEMMA FaultCounts == ASSUME Inv, Fault \/ UNCHANGED faults PROVE faults' \in 0..MaxFaults
  BY TransfersAssumption DEF Fault, Inv, Types, DesktopTypes

LEMMA PendingInv == ASSUME Inv, PendingFileTransfers PROVE Inv'
<1> DEFINE pending == {t \in Transfers : row[t].status = "REQUESTED" /\ t \notin late}
<1>1. /\ pass' = [Idle EXCEPT !.pc = "next", !.todo = pending]
      /\ UNCHANGED <<file, server, store, outbox, flush, faults, stranded>>
  BY DEF PendingFileTransfers
<1>2. pass' \in PassRecord /\ pass'.pc = "next" /\ pass'.version = Absent
  BY <1>1, NextRecord, pending \in SUBSET Transfers
<1>3. PassInv'
  BY <1>1, <1>2, PassRests DEF Inv, Types, DesktopTypes
<1> QED BY <1>1, <1>2, <1>3, PassStepInv, FaultCounts

LEMMA ProcessNextInv == ASSUME Inv, ProcessNext PROVE Inv'
<1> UNCHANGED <<file, server, store, outbox, flush, faults, stranded>> /\ file \in NoVersion
  BY DEF ProcessNext, Inv, Types, DesktopTypes
<1>1. CASE pass' = Idle
  <2>1. pass' \in PassRecord /\ PassInv'
    BY <1>1, IdleRecord, PassRests
  <2> QED BY <2>1, PassStepInv, FaultCounts
<1>2. CASE pass' # Idle
  <2>1. PICK t \in pass.todo :
          pass' = [Idle EXCEPT !.pc = "validate", !.todo = pass.todo \ {t}, !.transfer = t]
    BY <1>2 DEF ProcessNext
  <2>2. pass.todo \subseteq Transfers
    BY PassFields DEF Inv, Types, DesktopTypes
  <2>3. t \in Transfers /\ pass.todo \ {t} \in SUBSET Transfers
    BY <2>2
  <2>4. pass' \in PassRecord /\ pass'.pc = "validate" /\ pass'.version = Absent /\ pass'.transfer = t
    BY <2>1, <2>3, ValidateRecord
  <2>5. HoldingInv'
    BY <2>4 DEF HoldingInv, Holding, BeforeQueue, BeforePut, Sending
  <2>6. BracketInv'
    BY <2>4, TransfersAssumption DEF BracketInv, Sending, NoVersion, Absent
  <2>7. PassInv'
    BY <2>3, <2>4, <2>5, <2>6 DEF PassInv
  <2> QED BY <2>4, <2>7, PassStepInv, FaultCounts
<1> QED BY <1>1, <1>2

LEMMA ValidateInv == ASSUME Inv, ValidateSource PROVE Inv'
<1> /\ UNCHANGED <<file, server, store, outbox, flush, stranded>> /\ pass.pc = "validate"
    /\ pass \in PassRecord /\ file \in NoVersion
  BY DEF ValidateSource, Inv, Types, DesktopTypes
<1>1. faults' \in 0..MaxFaults
  BY FaultCounts DEF ValidateSource
<1>2. CASE file # Absent /\ pass' = [pass EXCEPT !.pc = "target", !.version = file]
  <2>0. "target" \in Steps
    BY DEF Steps
  <2>1. pass' \in PassRecord /\ pass'.pc = "target" /\ pass'.version = file /\ pass'.transfer = pass.transfer
    BY <1>2, <2>0 DEF PassRecord
  <2>2. HoldingInv'
    BY <2>1 DEF HoldingInv, Holding, BeforeQueue, BeforePut, Sending
  <2>3. BracketInv'
    BY <1>2, <2>1, TransfersAssumption DEF BracketInv, Sending, NoVersion
  <2>4. PassInv'
    BY <2>1, <2>2, <2>3 DEF PassInv, Inv
  <2> QED BY <1>1, <2>1, <2>4, PassStepInv
<1>3. CASE \E c \in Codes : FailWith(c)
  BY <1>1, <1>3, PassFails, PassStepInv
<1> QED BY <1>2, <1>3 DEF ValidateSource, Codes

LEMMA EnsureInv ==
  ASSUME Inv, NEW at, NEW next, <<at, next>> \in {<<"before_hash", "hash">>, <<"after_hash", "put">>,
                                                  <<"after_put", "enqueue">>},
         EnsureSourceUnchanged(at, next)
  PROVE  Inv'
<1> /\ UNCHANGED <<file, server, store, outbox, flush, faults, stranded>> /\ pass.pc = at
    /\ pass \in PassRecord
  BY DEF EnsureSourceUnchanged, Inv, Types, DesktopTypes
<1> faults' \in 0..MaxFaults
  BY FaultCounts
<1>1. CASE file = pass.version /\ pass' = [pass EXCEPT !.pc = next]
  <2>1. /\ pass' \in PassRecord /\ pass'.pc = next /\ pass'.transfer = pass.transfer
        /\ pass'.version = pass.version /\ pass'.sha = pass.sha /\ pass'.stream = pass.stream
    BY <1>1, GotoPass DEF Steps, Holding, BeforeQueue, BeforePut
  <2>2. HoldingInv'
    BY <2>1 DEF Inv, PassInv, HoldingInv, Holding, BeforeQueue, BeforePut, Sending, server, store
  <2>3. BracketInv'
    BY <1>1, <2>1 DEF Inv, PassInv, BracketInv, Sending, server, store
  <2>4. PassInv'
    BY <2>1, <2>2, <2>3 DEF PassInv, Inv
  <2> QED BY <2>1, <2>4, PassStepInv
<1>2. CASE FailWith("SOURCE_CHANGED")
  BY <1>2, PassFails, PassStepInv DEF Codes
<1> QED BY <1>1, <1>2 DEF EnsureSourceUnchanged, Unchanged, Goto

LEMMA HashInv == ASSUME Inv, HashSourcePayload PROVE Inv'
<1> /\ UNCHANGED <<file, server, store, outbox, flush, faults, stranded>> /\ pass.pc = "hash"
    /\ pass \in PassRecord /\ file \in NoVersion
  BY DEF HashSourcePayload, Inv, Types, DesktopTypes
<1> faults' \in 0..MaxFaults
  BY FaultCounts
<1>1. CASE pass' = [pass EXCEPT !.pc = "after_hash", !.sha = file]
  <2>0. "after_hash" \in Steps
    BY DEF Steps, Holding, BeforeQueue, BeforePut
  <2>1. /\ pass' \in PassRecord /\ pass'.pc = "after_hash" /\ pass'.transfer = pass.transfer
        /\ pass'.version = pass.version /\ pass'.sha = file
    BY <1>1, <2>0 DEF PassRecord
  <2>2. HoldingInv'
    BY <2>1 DEF Inv, PassInv, HoldingInv, Holding, BeforeQueue, BeforePut, Sending, server, store
  <2>3. BracketInv'
    BY <2>1 DEF Inv, PassInv, BracketInv, Sending
  <2>4. PassInv'
    BY <2>1, <2>2, <2>3 DEF PassInv, Inv
  <2> QED BY <2>1, <2>4, PassStepInv
<1>2. CASE FailWith("SOURCE_CHANGED")
  BY <1>2, PassFails, PassStepInv DEF Codes
<1> QED BY <1>1, <1>2 DEF HashSourcePayload

LEMMA OpenInv == ASSUME Inv, OpenUpload PROVE Inv'
<1> /\ UNCHANGED <<file, server, store, outbox, flush, faults, stranded>> /\ pass.pc = "put"
    /\ pass \in PassRecord /\ file \in NoVersion
  BY DEF OpenUpload, Inv, Types, DesktopTypes
<1> faults' \in 0..MaxFaults
  BY FaultCounts
<1>1. CASE file # Absent /\ pass' = [pass EXCEPT !.pc = "putting", !.stream = file]
  <2>0. "putting" \in Steps
    BY DEF Steps, Holding, BeforeQueue, BeforePut
  <2>1. /\ pass' \in PassRecord /\ pass'.pc = "putting" /\ pass'.transfer = pass.transfer
        /\ pass'.version = pass.version /\ pass'.sha = pass.sha /\ pass'.stream = file
    BY <1>1, <2>0 DEF PassRecord
  <2>2. HoldingInv'
    BY <2>1 DEF Inv, PassInv, HoldingInv, Holding, BeforeQueue, BeforePut, Sending, server, store
  <2>3. BracketInv'
    BY <1>1, <2>1 DEF Inv, PassInv, BracketInv, Sending, NoVersion
  <2>4. PassInv'
    BY <2>1, <2>2, <2>3 DEF PassInv, Inv
  <2> QED BY <2>1, <2>4, PassStepInv
<1>2. CASE NextTransfer
  BY <1>2, PassGoesOn, PassStepInv
<1> QED BY <1>1, <1>2 DEF OpenUpload

LEMMA RestartDesktopInv == ASSUME Inv, RestartDesktop PROVE Inv'
<1> /\ pass' = Idle /\ flush' = [pc |-> "idle", transfer |-> NoTransfer] /\ faults' \in 0..MaxFaults
    /\ UNCHANGED <<file, row, room, late, jobs, held, worker, objects, flight, outbox, stranded>>
  BY FaultCounts DEF RestartDesktop, server, store
<1>1. Types'
  BY IdleRecord DEF Inv, Types, DesktopTypes, ServerTypes, FlushRecord
<1>2. TransferInv'
  BY DEF Inv, TransferInv, RowInv, JobInv, QueuedInv, AnsweredInv
<1>3. PassInv' /\ FlushInv'
  BY IdleRecord, PassRests DEF FlushInv, Inv, Types, DesktopTypes
<1> QED BY <1>1, <1>2, <1>3 DEF Inv

LEMMA PrepareInv == ASSUME Inv, PrepareUploadTarget PROVE Inv'
<1> DEFINE t == pass.transfer
<1> /\ UNCHANGED <<file, room, late, jobs, held, worker, objects, flight, outbox, flush, stranded>>
    /\ pass.pc = "target" /\ pass \in PassRecord /\ t \in Transfers
    /\ row \in [Transfers -> RowRecord] /\ pass.version \in Versions
  BY DEF PrepareUploadTarget, Inv, Types, DesktopTypes, ServerTypes, PassInv, BracketInv, store
<1> faults' \in 0..MaxFaults
  BY FaultCounts DEF PrepareUploadTarget
<1>1. CASE UNCHANGED row
  <2>1. FailWith("SIZE_LIMIT_EXCEEDED") \/ NextTransfer => Inv'
    BY <1>1, PassFails, PassGoesOn, PassStepInv DEF Codes, server, store
  <2>2. CASE row[t].status = "REQUESTED" /\ AnnounceVersion(t)
    <3>1. row'[t].status = "UPLOADING"
      BY <2>2 DEF AnnounceVersion, RowRecord
    <3> QED BY <1>1, <2>2, <3>1
  <2> QED BY <2>1, <2>2 DEF PrepareUploadTarget, TargetGranted
<1>2. CASE ~ UNCHANGED row
  <2>1. /\ room /\ row[t].status = "REQUESTED" /\ AnnounceVersion(t)
        /\ Goto("before_hash") \/ NextTransfer
    BY <1>2 DEF PrepareUploadTarget, TargetGranted
  <2>2. /\ row' = [row EXCEPT ![t] = [row[t] EXCEPT !.status = "UPLOADING", !.version = pass.version, !.key = TRUE]]
        /\ "UPLOADING" \in Statuses /\ pass.version \in NoVersion
    BY <2>1 DEF AnnounceVersion, Statuses, Open, NoVersion
  <2>3. /\ row'[t] \in RowRecord /\ row'[t].status = "UPLOADING" /\ row'[t].version = pass.version
        /\ row'[t].key = TRUE /\ row'[t].sha = row[t].sha
    BY <2>2 DEF RowRecord
  <2>4. \A u \in Transfers : u # t => row'[u] = row[u]
    BY <2>2
  <2>5. row' \in [Transfers -> RowRecord]
    BY <2>2, <2>3
  <2>6. /\ RowInv(t) /\ JobInv(t) /\ QueuedInv(t) /\ AnsweredInv(t)
    BY DEF Inv, TransferInv
  <2>7. row[t].sha = Absent /\ jobs[t] = "NONE" /\ outbox[t].state = "none" /\ flight[t] = Absent
    BY <2>1, <2>6 DEF RowInv, JobInv, QueuedInv, Finished
  <2>8. TransferInv'
    <3> SUFFICES ASSUME NEW u \in Transfers
                 PROVE  (RowInv(u) /\ JobInv(u) /\ QueuedInv(u) /\ AnsweredInv(u))'
      BY DEF TransferInv
    <3>1. CASE u = t
      BY <3>1, <2>1, <2>3, <2>6, <2>7 DEF RowInv, JobInv, QueuedInv, AnsweredInv
    <3>2. CASE u # t
      BY <3>2, <2>4 DEF Inv, TransferInv, RowInv, JobInv, QueuedInv, AnsweredInv
    <3> QED BY <3>1, <3>2
  <2>9. pass' \in PassRecord /\ PassInv'
    <3>1. CASE Goto("before_hash")
      <4>1. /\ pass' \in PassRecord /\ pass'.pc = "before_hash" /\ pass'.transfer = t
            /\ pass'.version = pass.version
        BY <3>1, GotoPass DEF Goto, Steps, Holding, BeforeQueue, BeforePut
      <4>2. HoldingInv'
        BY <4>1, <2>3, <2>7 DEF HoldingInv, BeforeQueue, BeforePut
      <4>3. BracketInv'
        BY <4>1 DEF Inv, PassInv, BracketInv, Sending
      <4> QED BY <4>1, <4>2, <4>3 DEF PassInv
    <3>2. CASE NextTransfer
      BY <3>2, PassGoesOn
    <3> QED BY <2>1, <3>1, <3>2
  <2>10. Types'
    BY <2>5, <2>9 DEF Inv, Types, DesktopTypes, ServerTypes
  <2>11. FlushInv'
    BY FlushStays
  <2> QED BY <2>8, <2>9, <2>10, <2>11 DEF Inv
<1> QED BY <1>1, <1>2

\* Bytes arrive for a transfer that is not queued.
LEMMA ArriveTransferInv ==
  ASSUME Inv, NEW t \in Transfers, NEW content \in Contents, outbox[t].state = "none", 
         objects' = [objects EXCEPT ![t] = content],
         flight' = flight \/ flight' = [flight EXCEPT ![t] = Absent],
         UNCHANGED <<row, room, jobs, worker, outbox>>
  PROVE  TransferInv'
<1> SUFFICES ASSUME NEW u \in Transfers
             PROVE  (RowInv(u) /\ JobInv(u) /\ QueuedInv(u) /\ AnsweredInv(u))'
  BY DEF TransferInv
<1>1. RowInv(u) /\ JobInv(u) /\ QueuedInv(u) /\ AnsweredInv(u)
  BY DEF Inv, TransferInv
<1>2. QueuedInv(u)'
  BY <1>1 DEF QueuedInv, Inv, Types, ServerTypes
<1> QED BY <1>1, <1>2 DEF RowInv, JobInv, AnsweredInv

LEMMA FinishInv == ASSUME Inv, FinishUpload PROVE Inv'
<1> DEFINE t == pass.transfer
<1> /\ UNCHANGED <<file, row, room, late, jobs, held, worker, flight, outbox, flush, faults>>
    /\ pass.pc = "putting" /\ pass \in PassRecord /\ t \in Transfers /\ pass.stream \in Versions
    /\ file = pass.version => pass.stream = pass.version
  BY DEF FinishUpload, Inv, Types, DesktopTypes, PassInv, BracketInv, server
<1> faults' \in 0..MaxFaults
  BY FaultCounts
<1>1. CASE NextTransfer /\ UNCHANGED <<objects, stranded>>
  BY <1>1, PassGoesOn, PassStepInv DEF server, store
<1>2. CASE ~ (NextTransfer /\ UNCHANGED <<objects, stranded>>)
  <2>1. PICK content \in IF file = pass.stream THEN {pass.stream} ELSE {pass.stream, Torn} :
          objects' = [objects EXCEPT ![t] = content]
    BY <1>2 DEF FinishUpload
  <2>2. content \in Contents /\ (file = pass.version => content = pass.version)
    BY <2>1 DEF Contents
  <2>3. Goto("after_put") /\ stranded' \in {stranded, stranded \cup {t}}
    BY <1>2 DEF FinishUpload
  <2>4. /\ pass' \in PassRecord /\ pass'.pc = "after_put" /\ pass'.transfer = t
        /\ pass'.version = pass.version /\ pass'.sha = pass.sha
    BY <2>3, GotoPass DEF Goto, Steps, Holding, BeforeQueue
  <2>5. outbox[t].state = "none"
    BY DEF Inv, PassInv, HoldingInv, Holding, BeforeQueue, BeforePut
  <2>6. TransferInv'
    BY <2>1, <2>2, <2>5, ArriveTransferInv
  <2>7. HoldingInv'
    BY <2>4 DEF Inv, PassInv, HoldingInv, Holding, BeforeQueue, BeforePut
  <2>8. objects'[t] = content
    BY <2>1 DEF Inv, Types, ServerTypes
  <2>9. BracketInv'
    BY <2>2, <2>4, <2>8 DEF Inv, PassInv, BracketInv, Sending
  <2>10. Types'
    BY <2>1, <2>2, <2>3, <2>4 DEF Inv, Types, DesktopTypes, ServerTypes
  <2>11. PassInv' /\ FlushInv'
    BY <2>4, <2>7, <2>9, FlushStays DEF PassInv
  <2> QED BY <2>6, <2>10, <2>11 DEF Inv
<1> QED BY <1>1, <1>2

LEMMA TimesOutInv == ASSUME Inv, UploadTimesOut PROVE Inv'
<1> DEFINE t == pass.transfer
<1> /\ flight' = [flight EXCEPT ![t] = pass.stream] /\ NextTransfer
    /\ UNCHANGED <<file, row, room, late, jobs, held, worker, objects, outbox, flush, stranded>>
    /\ pass.pc = "putting" /\ t \in Transfers /\ pass.stream \in NoVersion /\ faults' \in 0..MaxFaults
  BY PassFields, FaultCounts DEF UploadTimesOut, Inv, Types, DesktopTypes, PassInv, server
<1>1. row[t].key /\ outbox[t].state = "none"
  BY DEF Inv, PassInv, HoldingInv, Holding, BeforeQueue, BeforePut
<1>2. pass' \in PassRecord /\ PassInv'
  BY PassGoesOn
<1>3. Types'
  BY <1>2 DEF Inv, Types, DesktopTypes, ServerTypes
<1>4. TransferInv'
  <2> SUFFICES ASSUME NEW u \in Transfers
               PROVE  (RowInv(u) /\ JobInv(u) /\ QueuedInv(u) /\ AnsweredInv(u))'
    BY DEF TransferInv
  <2>1. RowInv(u) /\ JobInv(u) /\ QueuedInv(u) /\ AnsweredInv(u)
    BY DEF Inv, TransferInv
  <2>2. QueuedInv(u)'
    BY <1>1, <2>1 DEF QueuedInv, Inv, Types, ServerTypes
  <2> QED BY <2>1, <2>2 DEF RowInv, JobInv, AnsweredInv
<1>5. FlushInv'
  BY FlushStays
<1> QED BY <1>2, <1>3, <1>4, <1>5 DEF Inv

LEMMA ArriveInv == ASSUME Inv, NEW t \in Transfers, ArriveLate(t) PROVE Inv'
<1> /\ flight[t] # Absent /\ objects' = [objects EXCEPT ![t] = flight[t]] /\ flight' = [flight EXCEPT ![t] = Absent]
    /\ stranded' \in {stranded, stranded \cup {t}} /\ flight[t] \in Contents
    /\ UNCHANGED <<file, row, room, late, jobs, held, worker, pass, outbox, flush, faults>>
  BY DEF ArriveLate, Inv, Types, ServerTypes, NoVersion, Contents, server
<1>1. outbox[t].state = "none"
  BY DEF Inv, TransferInv, QueuedInv
<1>2. TransferInv'
  BY <1>1, ArriveTransferInv
<1>3. Types'
  BY DEF Inv, Types, DesktopTypes, ServerTypes, NoVersion
<1>4. pass.pc \in Holding => pass.transfer # t
  BY DEF Inv, PassInv, HoldingInv
<1>5. HoldingInv'
  BY <1>4 DEF Inv, PassInv, HoldingInv, Holding, Types, ServerTypes
<1>6. BracketInv'
  <2>1. pass.pc \in {"after_put", "enqueue"} => objects'[pass.transfer] = objects[pass.transfer]
    BY <1>4 DEF Holding, BeforeQueue, Inv, Types, ServerTypes, PassInv
  <2> QED BY <2>1 DEF Inv, PassInv, BracketInv
<1>7. PassInv' /\ FlushInv'
  BY <1>5, <1>6, FlushStays DEF Inv, PassInv
<1> QED BY <1>2, <1>3, <1>7 DEF Inv

LEMMA EnqueueInv == ASSUME Inv, EnqueueCompletion PROVE Inv'
<1> DEFINE t == pass.transfer
<1> /\ UNCHANGED <<file, row, room, late, jobs, held, worker, objects, flight, flush, faults, stranded>>
    /\ pass.pc = "enqueue" /\ pass \in PassRecord /\ t \in Transfers /\ Goto("complete")
  BY DEF EnqueueCompletion, Inv, Types, DesktopTypes, PassInv, server, store
<1>1. /\ row[t].key /\ row[t].version = pass.version /\ flight[t] = Absent /\ pass.sha = pass.version
      /\ outbox[t].state = "none" /\ (jobs[t] = "NONE" => objects[t] = pass.version) /\ pass.version \in Versions
  BY DEF Inv, PassInv, HoldingInv, BracketInv, Holding, BeforeQueue
<1>2. outbox' = [outbox EXCEPT ![t] = [state |-> "pending", sha |-> pass.sha]]
  BY <1>1 DEF EnqueueCompletion
<1>3. /\ pass' \in PassRecord /\ pass'.pc = "complete" /\ pass'.transfer = t
      /\ pass'.version = pass.version /\ pass'.sha = pass.sha
  BY GotoPass DEF Goto, Steps, Holding, Sending
<1>4. /\ outbox' \in [Transfers -> ItemRecord] /\ outbox'[t].state = "pending" /\ outbox'[t].sha = pass.sha
      /\ \A u \in Transfers : u # t => outbox'[u] = outbox[u]
  BY <1>1, <1>2 DEF Inv, Types, DesktopTypes, ItemRecord, NoVersion
<1>5. Types'
  BY <1>3, <1>4 DEF Inv, Types, DesktopTypes, ServerTypes
<1>6. TransferInv'
  <2> SUFFICES ASSUME NEW u \in Transfers
               PROVE  (RowInv(u) /\ JobInv(u) /\ QueuedInv(u) /\ AnsweredInv(u))'
    BY DEF TransferInv
  <2>1. RowInv(u) /\ JobInv(u) /\ QueuedInv(u) /\ AnsweredInv(u)
    BY DEF Inv, TransferInv
  <2>2. CASE u = t
    BY <1>1, <1>4, <2>1, <2>2 DEF QueuedInv, RowInv, JobInv, AnsweredInv
  <2>3. CASE u # t
    BY <1>4, <2>1, <2>3 DEF QueuedInv, RowInv, JobInv, AnsweredInv
  <2> QED BY <2>2, <2>3
<1>7. HoldingInv'
  BY <1>1, <1>3, <1>4 DEF HoldingInv, Holding, BeforeQueue, BeforePut
<1>8. BracketInv'
  BY <1>1, <1>3 DEF Inv, PassInv, BracketInv, Sending
<1>9. PassInv' /\ FlushInv'
  BY <1>3, <1>4, <1>7, <1>8, FlushStays DEF PassInv
<1> QED BY <1>5, <1>6, <1>9 DEF Inv

LEMMA FailInv == ASSUME Inv, FailFileTransfer PROVE Inv'
<1> DEFINE t == pass.transfer
<1> /\ UNCHANGED <<file, room, late, held, worker, objects, flight, outbox, flush, stranded>>
    /\ pass.pc = "fail" /\ pass \in PassRecord /\ t \in Transfers /\ NextTransfer
    /\ pass.code \in Codes
  BY PassFields DEF FailFileTransfer, Inv, Types, DesktopTypes, PassInv, store
<1>1. faults' \in 0..MaxFaults /\ pass' \in PassRecord /\ PassInv'
  BY FaultCounts, PassGoesOn DEF FailFileTransfer
<1>2. CASE UNCHANGED <<row, jobs>>
  BY <1>1, <1>2, PassStepInv DEF server, store
<1>3. CASE /\ row[t].status \in {"REQUESTED", "UPLOADING"} /\ jobs' = Enqueue({t})
           /\ row' = [row EXCEPT ![t].status = "FAILED", ![t].code = pass.code]
  <2>0. row \in [Transfers -> RowRecord] /\ "FAILED" \in Statuses
    BY DEF Inv, Types, ServerTypes, Statuses, Finished
  <2>1. row' = [row EXCEPT ![t] = [row[t] EXCEPT !.status = "FAILED", !.code = pass.code]]
    BY <1>3
  <2>2. /\ row'[t] \in RowRecord /\ row'[t].status = "FAILED" /\ row'[t].version = row[t].version
        /\ row'[t].key = row[t].key /\ row'[t].sha = row[t].sha
    BY <2>0, <2>1 DEF RowRecord
  <2>3. row' \in [Transfers -> RowRecord] /\ \A u \in Transfers : RowMoves(u)
    BY <1>3, <2>0, <2>1, <2>2 DEF RowMoves, Inv, TransferInv, RowInv, Finished, Open
  <2>4. /\ jobs' \in [Transfers -> {"NONE", "PENDING", "PROCESSING", "COMPLETED"}]
        /\ \A u \in Transfers : (jobs[u] # "NONE" => jobs'[u] = jobs[u]) /\ (jobs'[u] # jobs[u] => u = t)
    BY <1>3, EnqueueJobs, {t} \in SUBSET Transfers DEF Inv, Types
  <2>5. \A u \in Transfers : JobMoves(u)
    BY <2>2, <2>4 DEF Inv, TransferInv, JobInv, JobMoves, Finished
  <2>6. Types'
    BY <1>1, <2>3, <2>4 DEF Inv, Types, DesktopTypes, ServerTypes
  <2>7. TransferInv' /\ FlushInv'
    BY <2>3, <2>5, MovesKeepTransferInv, FlushStays
  <2> QED BY <1>1, <2>6, <2>7 DEF Inv
<1> QED BY <1>2, <1>3 DEF FailFileTransfer

-----------------------------------------------------------------------------
(* The completion.                                                         *)

\* The transaction commits what the item in the outbox says, if it commits at all.
LEMMA CommitMoves ==
  ASSUME Inv, NEW t \in Transfers, outbox[t].state # "none", CommitCompletion(t, outbox[t].sha)
  PROVE  /\ row' \in [Transfers -> RowRecord]
         /\ \A u \in Transfers :
              /\ row'[u].version = row[u].version /\ row'[u].key = row[u].key
              /\ \/ row'[u] = row[u]
                 \/ /\ u = t /\ room /\ row[u].status = "UPLOADING" /\ row[u].key
                    /\ row'[u].status = "READY" /\ row'[u].sha = outbox[u].sha
         /\ ~Committed(t, outbox[t].sha) => row'[t] = row[t] /\ row[t].status # "UPLOADING"
<1> DEFINE sha == outbox[t].sha
<1>1. /\ row \in [Transfers -> RowRecord] /\ sha = row[t].version /\ sha \in NoVersion
      /\ "READY" \in Statuses /\ (row[t].status = "UPLOADING" => room /\ row[t].key)
  BY DEF Inv, Types, DesktopTypes, ServerTypes, ItemRecord, TransferInv, QueuedInv, RowInv, Statuses, Open
<1>2. CASE room /\ row[t].status = "UPLOADING" /\ row[t].key /\ SizeOf[row[t].version] = SizeOf[sha]
  <2>1. row' = [row EXCEPT ![t] = [row[t] EXCEPT !.status = "READY", !.sha = sha]]
    BY <1>2 DEF CommitCompletion
  <2>2. /\ row'[t] \in RowRecord /\ row'[t].status = "READY" /\ row'[t].sha = sha
        /\ row'[t].version = row[t].version /\ row'[t].key = row[t].key
    BY <1>1, <2>1 DEF RowRecord
  <2> QED BY <1>1, <1>2, <2>1, <2>2 DEF Committed
<1>3. CASE ~ (room /\ row[t].status = "UPLOADING" /\ row[t].key /\ SizeOf[row[t].version] = SizeOf[sha])
  <2>1. row' = row /\ row[t].status # "UPLOADING"
    BY <1>1, <1>3 DEF CommitCompletion
  <2> QED BY <1>1, <2>1
<1> QED BY <1>2, <1>3

\* With a commit, an item may be marked: its hash stays, and the mark is true of the new row.
LEMMA CommitKeepsTransferInv ==
  ASSUME Inv, NEW t \in Transfers, outbox[t].state # "none",
         CommitCompletion(t, outbox[t].sha) \/ UNCHANGED row,
         UNCHANGED <<room, jobs, worker, objects, flight>>,
         \A u \in Transfers :
            /\ outbox'[u].sha = outbox[u].sha /\ (outbox'[u].state = "none" <=> outbox[u].state = "none")
            /\ outbox'[u].state = outbox[u].state
               \/ (u = t /\ outbox[u].state = "pending" /\ AnsweredInv(u)')
  PROVE  TransferInv'
<1> SUFFICES ASSUME NEW u \in Transfers
             PROVE  (RowInv(u) /\ JobInv(u) /\ QueuedInv(u) /\ AnsweredInv(u))'
  BY DEF TransferInv
<1>1. RowInv(u) /\ JobInv(u) /\ QueuedInv(u) /\ AnsweredInv(u)
  BY DEF Inv, TransferInv
<1>2. /\ row'[u].version = row[u].version /\ row'[u].key = row[u].key
      /\ \/ row'[u] = row[u]
         \/ /\ u = t /\ room /\ row[u].status = "UPLOADING" /\ row[u].key
            /\ row'[u].status = "READY" /\ row'[u].sha = outbox[u].sha
  BY CommitMoves
<1>3. outbox[u].state # "none" => outbox[u].sha = row[u].version
  BY <1>1 DEF QueuedInv
<1>4. row[u].key => row[u].version # Absent
  BY <1>1, TransfersAssumption DEF RowInv, Absent
<1>5. RowInv(u)'
  BY <1>1, <1>2, <1>3, <1>4 DEF RowInv, Open
<1>6. JobInv(u)'
  BY <1>1, <1>2 DEF JobInv, Finished
<1>7. QueuedInv(u)'
  BY <1>1, <1>2 DEF QueuedInv
<1>8. AnsweredInv(u)'
  BY <1>1, <1>2 DEF AnsweredInv
<1> QED BY <1>5, <1>6, <1>7, <1>8

LEMMA CompleteInv == ASSUME Inv, CompleteUpload PROVE Inv'
<1> DEFINE t == pass.transfer
<1> /\ UNCHANGED <<file, room, late, jobs, held, worker, objects, flight, outbox, flush, stranded>>
    /\ pass.pc \in Sending /\ pass \in PassRecord /\ t \in Transfers /\ faults' \in 0..MaxFaults
  BY FaultCounts DEF CompleteUpload, Inv, Types, DesktopTypes, PassInv, store, Sending
<1>1. outbox[t].state # "none" /\ outbox[t].sha = pass.sha
  BY DEF Inv, PassInv, HoldingInv, BracketInv, Sending, Holding, BeforeQueue, BeforePut, TransferInv, QueuedInv
<1>2. CASE UNCHANGED row /\ Goto("commit")
  <2>1. /\ pass' \in PassRecord /\ pass'.pc = "commit" /\ pass'.transfer = t
        /\ pass'.version = pass.version /\ pass'.sha = pass.sha
    BY <1>2, GotoPass DEF Goto, Steps, Holding, Sending
  <2>2. HoldingInv'
    BY <1>2, <2>1 DEF Inv, PassInv, HoldingInv, Holding, BeforeQueue, BeforePut, Sending
  <2>3. BracketInv'
    BY <2>1 DEF Inv, PassInv, BracketInv, Sending
  <2>4. PassInv'
    BY <2>1, <2>2, <2>3 DEF PassInv
  <2> QED BY <1>2, <2>1, <2>4, PassStepInv DEF server, store
<1>3. CASE UNCHANGED row /\ NextTransfer
  BY <1>3, PassGoesOn, PassStepInv DEF server, store
<1>4. CASE CommitCompletion(t, pass.sha) /\ NextTransfer
  <2>1. row' \in [Transfers -> RowRecord] /\ TransferInv'
    BY <1>1, <1>4, CommitMoves, CommitKeepsTransferInv
  <2>2. pass' \in PassRecord /\ PassInv'
    BY <1>4, PassGoesOn
  <2>3. Types' /\ FlushInv'
    BY <2>1, <2>2, FlushStays DEF Inv, Types, DesktopTypes, ServerTypes
  <2> QED BY <2>1, <2>2, <2>3 DEF Inv
<1> QED BY <1>2, <1>3, <1>4 DEF CompleteUpload

LEMMA FlushNextInv == ASSUME Inv, NEW t \in Transfers, FlushNext(t) PROVE Inv'
<1> /\ outbox[t].state = "pending" /\ flush' = [pc |-> "send", transfer |-> t]
    /\ UNCHANGED <<file, row, room, late, jobs, held, worker, objects, flight, pass, outbox, faults, stranded>>
  BY DEF FlushNext, server, store
<1>1. Types'
  BY DEF Inv, Types, DesktopTypes, ServerTypes, FlushRecord
<1>2. TransferInv' /\ PassInv' /\ FlushInv'
  BY DEF Inv, TransferInv, RowInv, JobInv, QueuedInv, AnsweredInv, PassInv, HoldingInv, BracketInv, FlushInv
<1> QED BY <1>1, <1>2 DEF Inv

\* What Mark does to an item, for the answers "accept", "reject" and "retry".
LEMMA MarkMoves ==
  ASSUME Inv, NEW t \in Transfers, NEW answer \in {"accept", "reject", "retry"}, Mark(t, answer)
  PROVE  /\ outbox' \in [Transfers -> ItemRecord] /\ flush' \in FlushRecord /\ flush'.pc = "idle"
         /\ \A u \in Transfers :
              /\ outbox'[u].sha = outbox[u].sha /\ (outbox'[u].state = "none" <=> outbox[u].state = "none")
              /\ outbox'[u].state = outbox[u].state
                 \/ (u = t /\ outbox[u].state = "pending" /\ outbox'[u].state = Classify(answer))
<1>1. outbox \in [Transfers -> ItemRecord] /\ Classify(answer) \in {"pending", "sent", "failed"}
  BY DEF Inv, Types, DesktopTypes, Classify
<1>2. CASE outbox[t].state = "pending"
  <2>1. outbox' = [outbox EXCEPT ![t] = [outbox[t] EXCEPT !.state = Classify(answer)]]
    BY <1>2 DEF Mark
  <2>2. outbox'[t] \in ItemRecord /\ outbox'[t].state = Classify(answer) /\ outbox'[t].sha = outbox[t].sha
    BY <1>1, <2>1 DEF ItemRecord
  <2>3. flush' \in FlushRecord /\ flush'.pc = "idle"
    BY DEF Mark, FlushRecord
  <2> QED BY <1>1, <1>2, <2>1, <2>2, <2>3
<1>3. CASE outbox[t].state # "pending"
  BY <1>1, <1>3 DEF Mark, FlushRecord
<1> QED BY <1>2, <1>3

LEMMA DispatchInv == ASSUME Inv, Dispatch PROVE Inv'
<1> DEFINE t == flush.transfer
           check == CompletionCheck(t, outbox[t].sha)
<1> /\ UNCHANGED <<file, room, late, jobs, held, worker, objects, flight, pass, stranded>>
    /\ flush.pc \in {"send", "commit"} /\ t \in Transfers /\ outbox[t].state # "none"
    /\ faults' \in 0..MaxFaults
  BY FaultCounts DEF Dispatch, Inv, FlushInv, store
<1>1. CASE UNCHANGED <<row, outbox>> /\ flush' = [flush EXCEPT !.pc = "commit"]
  <2>1. flush' \in FlushRecord /\ flush'.transfer = t
    BY <1>1 DEF Inv, Types, DesktopTypes, FlushRecord
  <2>2. Types'
    BY <1>1, <2>1 DEF Inv, Types, DesktopTypes, ServerTypes
  <2>3. TransferInv' /\ PassInv' /\ FlushInv'
    BY <1>1, <2>1 DEF Inv, TransferInv, RowInv, JobInv, QueuedInv, AnsweredInv, PassInv, HoldingInv, BracketInv, FlushInv
  <2> QED BY <2>2, <2>3 DEF Inv
<1>2. ASSUME NEW answer \in {"accept", "reject", "retry"}, Mark(t, answer),
             CommitCompletion(t, outbox[t].sha) \/ UNCHANGED row,
             answer = "reject" => row'[t].status # "UPLOADING",
             answer = "accept" => row'[t].sha = outbox[t].sha
      PROVE  Inv'
  <2>1. /\ outbox' \in [Transfers -> ItemRecord] /\ flush' \in FlushRecord /\ flush'.pc = "idle"
        /\ \A u \in Transfers :
             /\ outbox'[u].sha = outbox[u].sha /\ (outbox'[u].state = "none" <=> outbox[u].state = "none")
             /\ outbox'[u].state = outbox[u].state
                \/ (u = t /\ outbox[u].state = "pending" /\ outbox'[u].state = Classify(answer))
    BY <1>2, MarkMoves
  <2>2. \A u \in Transfers : u = t /\ outbox'[u].state = Classify(answer) => AnsweredInv(u)'
    BY <1>2, <2>1 DEF Classify, AnsweredInv
  <2>3. TransferInv'
    BY <1>2, <2>1, <2>2, CommitKeepsTransferInv
  <2>4. /\ row' \in [Transfers -> RowRecord]
        /\ \A u \in Transfers : row'[u].version = row[u].version /\ row'[u].key = row[u].key
    BY <1>2, CommitMoves DEF Inv, Types, ServerTypes
  <2>5. Types'
    BY <2>1, <2>4 DEF Inv, Types, DesktopTypes, ServerTypes
  <2>6. HoldingInv' /\ BracketInv'
    <3>1. CASE pass.pc \in Holding
      <4>1. pass.transfer \in Transfers
        BY <3>1 DEF Inv, PassInv, Holding, BeforeQueue, BeforePut, Sending
      <4> QED BY <2>1, <2>4, <4>1 DEF Inv, PassInv, HoldingInv, BracketInv
    <3>2. CASE pass.pc \notin Holding
      BY <3>2 DEF Inv, PassInv, HoldingInv, BracketInv
    <3> QED BY <3>1, <3>2
  <2>7. PassInv' /\ FlushInv'
    BY <2>1, <2>6 DEF Inv, PassInv, FlushInv
  <2> QED BY <2>3, <2>5, <2>7 DEF Inv
<1>3. CASE flush.pc = "send"
  <2>1. check \in {"accept", "reject", "retry", "commit"}
    BY DEF CompletionCheck
  <2>2. check = "reject" => row[t].status # "UPLOADING"
    BY DEF CompletionCheck, Inv, TransferInv, RowInv, QueuedInv, Finished, Open
  <2>3. check = "accept" => row[t].sha = outbox[t].sha
    BY DEF CompletionCheck
  <2> QED BY <1>1, <1>2, <1>3, <2>1, <2>2, <2>3 DEF Dispatch
<1>4. CASE flush.pc = "commit"
  <2>1. CommitCompletion(t, outbox[t].sha)
    BY <1>4 DEF Dispatch
  <2>2. ~Committed(t, outbox[t].sha) => row'[t].status # "UPLOADING"
    BY <2>1, CommitMoves
  <2>3. Committed(t, outbox[t].sha) => row'[t].sha = outbox[t].sha
    BY DEF Committed
  <2> QED BY <1>2, <1>4, <2>1, <2>2, <2>3 DEF Dispatch
<1> QED BY <1>3, <1>4

-----------------------------------------------------------------------------
\* Every step of the specification keeps the invariant.
LEMMA NextInv == ASSUME Inv, [Next]_vars PROVE Inv'
<1>1. CASE UNCHANGED vars
  BY <1>1 DEF vars, Inv, Types, DesktopTypes, ServerTypes, TransferInv, RowInv, JobInv, QueuedInv, AnsweredInv,
              PassInv, HoldingInv, BracketInv, FlushInv
<1>2. CASE EditFile \/ CloseRoom
  BY <1>2, EditInv, CloseInv
<1>3. CASE Pass
  <2>1. CASE \/ EnsureSourceUnchanged("before_hash", "hash") \/ EnsureSourceUnchanged("after_hash", "put")
             \/ EnsureSourceUnchanged("after_put", "enqueue")
    BY <2>1, EnsureInv
  <2> QED BY <1>3, <2>1, PendingInv, ProcessNextInv, ValidateInv, PrepareInv, HashInv, OpenInv, FinishInv,
             EnqueueInv, CompleteInv, FailInv DEF Pass
<1>4. CASE UploadTimesOut \/ Dispatch \/ ProcessTransferJob \/ RestartDesktop \/ RestartWorker
  BY <1>4, TimesOutInv, DispatchInv, ProcessInv, RestartDesktopInv, RestartWorkerInv
<1>5. CASE \E t \in Transfers : CreateTransfer(t) \/ AckTransfer(t) \/ CancelTransfer(t)
  BY <1>5, CreateInv, AckInv, CancelInv
<1>6. CASE \E t \in Transfers : FlushNext(t) \/ ArriveLate(t) \/ TimePasses(t) \/ Work(t)
  BY <1>6, FlushNextInv, ArriveInv, TimeInv, ExpireInv, ClaimInv DEF Work
<1> QED BY <1>1, <1>2, <1>3, <1>4, <1>5, <1>6 DEF Next

\* The invariant holds in every reachable state, for any number of transfers, versions and
\* faults: lost answers, timeouts, restarts and deletions included.
THEOREM TransfersInvariant == Spec => []Inv
<1>1. Init => Inv
  BY InitInv
<1>2. Inv /\ [Next]_vars => Inv'
  BY NextInv
<1> QED BY <1>1, <1>2, PTL DEF Spec

\* What the phone may download is the version the desktop announced, whole, with the hash
\* it reported: the hash and the upload are bracketed by ensure_source_unchanged, and the
\* object is deleted only through a job that a READY transfer does not have.
THEOREM TransfersReadyIsFaithful == Spec => []ReadyIsFaithful
<1>1. Inv => ReadyIsFaithful
  BY DEF Inv, TransferInv, RowInv, JobInv, QueuedInv, ReadyIsFaithful, Finished
<1> QED BY <1>1, TransfersInvariant, PTL

\* A completion the outbox gives up is not one the server still waits for, and one it counts
\* as sent is known to the server: classify tells errors apart well enough.
THEOREM TransfersDeadLetterIsFinal == Spec => []DeadLetterIsFinal
<1>1. Inv => DeadLetterIsFinal
  BY DEF Inv, TransferInv, AnsweredInv, DeadLetterIsFinal
<1> QED BY <1>1, TransfersInvariant, PTL

\* The state is well typed.
THEOREM TransfersTypeOK == Spec => []TypeOK
<1>1. Inv => TypeOK
  <2> SUFFICES ASSUME Inv PROVE TypeOK
    OBVIOUS
  <2>1. pass.version \in NoVersion /\ pass.sha \in NoVersion /\ flush.transfer \in Transfers \cup {NoTransfer}
    BY PassFields DEF Inv, Types, DesktopTypes, FlushRecord
  <2>2. \A t \in Transfers : /\ row[t].status \in Statuses /\ row[t].sha \in NoVersion
                             /\ outbox[t].state \in {"none", "pending", "sent", "failed"}
                             /\ outbox[t].sha \in NoVersion
    BY RowFields DEF Inv, Types, DesktopTypes, ServerTypes, ItemRecord
  <2>3. \A t \in Transfers : RowInv(t) /\ JobInv(t)
    BY DEF Inv, TransferInv
  <2>4. file \in NoVersion /\ faults \in 0..MaxFaults
    BY DEF Inv, Types, DesktopTypes
  <2>5. /\ room \in BOOLEAN /\ late \subseteq Transfers /\ worker \in Transfers \cup {NoTransfer}
        /\ \A t \in Transfers : /\ {objects[t], flight[t]} \subseteq Contents
                                /\ jobs[t] \in {"NONE", "PENDING", "PROCESSING", "COMPLETED"}
    BY DEF Inv, Types, ServerTypes, NoVersion, Contents
  <2>6. \A t \in Transfers : /\ row[t].key <=> row[t].version \in Versions
                             /\ row[t].status \in {"NONE", "REQUESTED"} => ~row[t].key
                             /\ row[t].status \in {"READY", "COMPLETED"} => row[t].sha \in Versions
    BY <2>2, <2>3 DEF RowInv, NoVersion
  <2>7. worker # NoTransfer => jobs[worker] = "PROCESSING"
    BY <2>3, <2>5 DEF JobInv
  <2> QED BY <2>1, <2>2, <2>4, <2>5, <2>6, <2>7 DEF TypeOK, Statuses, NoVersion
<1> QED BY <1>1, TransfersInvariant, PTL
=============================================================================
