----------------------------- MODULE SmartCache -----------------------------
(***************************************************************************)
(* The cache of encrypted copies that the phone reads while the desktop is *)
(* away: usage and preferences (storage/smart_cache.rs), the pass of       *)
(* smart_cache_processor.rs that submits candidates, encrypts and uploads, *)
(* smart_cache_crypto.rs, its requests in agent.rs, the outbox items       *)
(* "completion" and "stale", the watcher that queues the latter            *)
(* (watcher.rs, watcher_lifecycle.rs), and the server's                    *)
(* smart-cache.service.ts with the worker's expiry and deletion.           *)
(*                                                                         *)
(* The work limiter admits one pass at a time; the outbox is flushed and   *)
(* the watcher runs beside it.  An answer may be lost, the desktop may     *)
(* stop between two steps, a reservation may run out, the user goes on     *)
(* editing and the phone changes the policy.  Every file has size one.  A  *)
(* completion reads the clock under the row's lock and commits later; the  *)
(* rest of its transaction is one step.                                    *)
(***************************************************************************)
EXTENDS Integers, Sequences, FiniteSets, FiniteSetsExt

CONSTANTS
    Paths,            \* files of the room's folder, numbered
    Versions,         \* 1..n, successive versions of a file
    Usage,            \* scores of an earlier session
    Edited,           \* files the user edits
    Policies,         \* policies the phone may set: a quota, the files pinned and excluded
    FirstPolicy,      \* the policy the room begins with
    Chosen,           \* files the user opens, pins or excludes
    Preferences,      \* flags the user sets
    MaxActs,          \* what the user does: opens, edits, settings, removals
    MaxReservations,  \* reservations the server ever makes
    MaxUploads,       \* encryptions, each with a fresh nonce
    MaxFaults         \* lost answers, failed writes and restarts

ASSUME CacheAssumption ==
    /\ Paths \subseteq Nat \ {0} /\ IsFiniteSet(Paths) /\ Versions \subseteq Nat \ {0} /\ 1 \in Versions
    /\ Usage \in [Paths -> Nat] /\ Edited \subseteq Paths /\ Chosen \subseteq Paths
    /\ Policies \subseteq [quota : Nat, pinned : SUBSET Paths, excluded : SUBSET Paths] /\ FirstPolicy \in Policies
    /\ Preferences \subseteq {"pinned", "excluded"}
    /\ {MaxActs, MaxReservations, MaxUploads, MaxFaults} \subseteq Nat

Removed == 0
WholeRoom == 0   \* the scope of a mark of every file
NoUpload == [version |-> 0, nonce |-> 0]
NoFile == [status |-> "NONE", fresh |-> "", key |-> 0, upload |-> NoUpload, score |-> 0, pin |-> FALSE]
NoItem == [kind |-> "none", path |-> 0, id |-> 0, upload |-> NoUpload, score |-> 0, pin |-> FALSE]
NoFlush == [pc |-> "idle", item |-> NoItem, answer |-> ""]
Idle == [pc |-> "idle", batch |-> {}, used |-> 0, counted |-> {}, todo |-> {}, upload |-> NoUpload]
NoSetting == [open |-> FALSE, used |-> 0, counted |-> {}]

VARIABLES
    file,          \* path -> version on disk, or Removed
    score,         \* path -> usage score; 0 before its first event
    preference,    \* path -> its flags, "pinned" and "excluded"
    batches,       \* server: candidate batches, each the set of its candidates
    reservations,  \* server: cache_upload_reservations in order of their ids
    late,          \* reservations whose expires_at has passed
    cached,        \* server: cached_files, by path and version
    doomed,        \* objects with a deletion job that may run now
    objects,       \* object store: reservation id -> upload
    room,          \* server: the room is ACTIVE
    policy,        \* server: the policy of the room
    setting,       \* server: a change of the policy between its two sums
    watching,      \* a watcher runs that was started with the root bound to the room
    pending,       \* files with an event the watcher has not acted on
    change,        \* files of the change its callback is busy with
    marks,         \* marks queued so far
    pass,          \* the pass of the desktop
    outbox,        \* pending items of the outbox
    queued,        \* reservations a completion was ever queued for (their rows stay)
    flush,         \* the flush of the outbox
    nonces,        \* encryptions so far
    acts, faults,
    uncounted,     \* reservations that ran out during their completion, or were completed
                   \* between the two sums of a transaction, until both sums have counted them (recorded)
    overtaken,     \* reservations completed after their version was overwritten (recorded)
    lost           \* files of an edit whose mark will never be queued (recorded)

watcher == <<watching, pending, change, marks>>
local == <<file, score, preference, acts, watcher>>
rules == <<policy, setting>>
server == <<batches, reservations, late, cached, doomed, room, rules>>
ghosts == <<uncounted, overtaken, lost>>
desktop == <<pass, outbox, queued, flush, nonces>>
vars == <<local, server, objects, desktop, faults, ghosts>>

\* A mark in the outbox, of a file or of the whole room; n tells the marks apart, as the id of
\* their row does.
StaleItem(p, n) == [kind |-> "stale", path |-> p, id |-> n, upload |-> NoUpload, score |-> 0, pin |-> FALSE]
Covers(i, p) == i.kind = "stale" /\ i.path \in {p, WholeRoom}

Ids == DOMAIN reservations
Act == acts < MaxActs /\ acts' = acts + 1
Fault == faults < MaxFaults /\ faults' = faults + 1
Available(row) == row.status = "AVAILABLE"
Files == {<<p, v>> : p \in Paths, v \in Versions}
AvailableFiles == {f \in Files : Available(cached[f])}
Reserved == {r \in Ids : reservations[r].status = "RESERVED" /\ r \notin late}

Init ==
    /\ file = [p \in Paths |-> 1] /\ score = Usage
    /\ preference = [p \in Paths |-> {}]
    /\ batches = {} /\ reservations = <<>> /\ late = {}
    /\ cached = [f \in Files |-> NoFile] /\ doomed = {} /\ objects = <<>> /\ room = TRUE
    /\ policy = FirstPolicy /\ setting = NoSetting
    /\ watching = FALSE /\ pending = {} /\ change = {} /\ marks = 0
    /\ pass = Idle /\ outbox = {} /\ queued = {}
    /\ flush = NoFlush /\ nonces = 0 /\ acts = 0 /\ faults = 0
    /\ uncounted = {} /\ overtaken = {} /\ lost = {}

-----------------------------------------------------------------------------
(* The user and the watcher.                                               *)

\* record_usage_event; events of a weight larger than one are several of these.
RecordUsageEvent(p) ==
    /\ Act /\ score' = [score EXCEPT ![p] = @ + 1]
    /\ UNCHANGED <<file, preference, watcher, server, objects, desktop, faults, ghosts>>

\* A patch sets or clears one of the two flags and leaves the other.
UpdateFilePreference(p, flag) ==
    /\ Act
    /\ \/ flag \in preference[p] /\ preference' = [preference EXCEPT ![p] = @ \ {flag}]
       \/ flag \notin preference[p] /\ preference' = [preference EXCEPT ![p] = @ \cup {flag}]
    /\ UNCHANGED <<file, score, watcher, server, objects, desktop, faults, ghosts>>

\* The user saves or removes the file.  Nothing looks for what was changed while no watcher
\* ran, or while one ran that was started before the root was bound to the room.
EditFile(p) ==
    /\ Act /\ file[p] # Removed
    /\ \E v \in {Removed} \cup {u \in Versions : u = file[p] + 1} : file' = [file EXCEPT ![p] = v]
    /\ \/ watching /\ pending' = pending \cup {p} /\ UNCHANGED lost
       \/ ~watching /\ lost' = lost \cup {p} /\ UNCHANGED pending
    /\ UNCHANGED <<score, preference, watching, change, marks, server, objects, desktop, faults, uncounted, overtaken>>

\* start_root_watcher indexes the root and scores it; it queues no mark.
StartRootWatcher ==
    /\ ~watching /\ watching' = TRUE
    /\ UNCHANGED <<file, score, preference, acts, pending, change, marks, server, objects, desktop, faults, ghosts>>

\* The watcher is dropped with the events it has; its callback comes to an end.
StopWatcher ==
    /\ Act /\ watching /\ watching' = FALSE
    /\ lost' = lost \cup pending /\ pending' = {}
    /\ UNCHANGED <<file, score, preference, change, marks, server, objects, desktop, faults, uncounted, overtaken>>

\* The debounce is over: the events become one change.
TakeChanges ==
    /\ pending # {} /\ change = {} /\ change' = pending /\ pending' = {}
    /\ UNCHANGED <<file, score, preference, acts, watching, marks, server, objects, desktop, faults, ghosts>>

\* coalesce_changes: a single event is a change of its file; several are a change of the whole
\* room, and one save may cause several.
Coalesced(C) == {WholeRoom} \cup {p \in Paths : C = {p}}

\* enqueue_smart_cache_stale: supersedes the pending item of the same scope.
EnqueueStale(p) ==
    {i \in outbox : i.kind # "stale" \/ i.path # p} \cup {StaleItem(p, marks + 1)}

\* The watcher's callback, with the index patched and the root scored, queues the mark
\* (enqueue_smart_cache_stale_for_change); an error is only logged.
EnqueueStaleForChange ==
    /\ change # {} /\ change' = {}
    /\ \/ \E p \in Coalesced(change) :
            /\ outbox' = EnqueueStale(p) /\ marks' = marks + 1
            /\ lost' = {q \in lost : p \notin {q, WholeRoom}} /\ UNCHANGED faults
       \/ Fault /\ lost' = lost \cup change /\ UNCHANGED <<outbox, marks>>
    /\ UNCHANGED <<file, score, preference, acts, watching, pending, server, objects, pass, queued, flush, nonces,
                   uncounted, overtaken>>

-----------------------------------------------------------------------------
(* The server: batches and reservations.                                   *)

\* list_candidates: the user's pin weighs more than any usage.
PinBonus == 1000
Score(p) == score[p] + (IF "pinned" \in preference[p] THEN PinBonus ELSE 0)
\* list_candidates, apply_policy_candidate_preferences and prepare_candidate.
Candidates ==
    {[path |-> p, version |-> file[p], score |-> Score(p),
      pin |-> "pinned" \in preference[p] \/ p \in policy.pinned] :
        p \in {q \in Paths \ policy.excluded : score[q] > 0 /\ "excluded" \notin preference[q] /\ file[q] # Removed}}

\* The server's order: pinned first, then the higher score.
Before(a, b) ==
    IF a.pin # b.pin THEN a.pin
    ELSE IF a.score # b.score THEN a.score > b.score ELSE a.path < b.path
\* Lower score first, then the older one.
EvictedBefore(f, g) ==
    IF cached[f].score # cached[g].score THEN cached[f].score < cached[g].score
    ELSE cached[f].key < cached[g].key
Evictable == {f \in AvailableFiles : ~cached[f].pin}
FirstCandidate(C) == CHOOSE c \in C : \A d \in C \ {c} : Before(c, d)
FirstEvicted(F) == CHOOSE f \in F : \A g \in F \ {f} : EvictedBefore(f, g)

\* Any version may be reserved again.
NeverReserved(c) == TRUE
\* The unique index on room, path and version: one reservation of a version, ever.
FirstReservation(c) ==
    \A r \in Ids : reservations[r].path # c.path \/ reservations[r].version # c.version

\* Only what is cached counts.
AllocatedFiles(used) == used
\* The second sum, over the reservations, is read after the first, over the copies.
Allocated(used) == used + Cardinality(Reserved)

\* submit's loop over the candidates and, within it, its loop over the copies that may go.
\* One turn lets the first candidate left in, if it fits; passes over it, when there is nothing
\* left to evict or the first copy left is worth as much (and is not looked at again);
\* or else evicts that copy.
Reservation(batch, c) == [path |-> c.path, version |-> c.version, batch |-> batch, status |-> "RESERVED"]
Turn(batch, acc) ==
    LET c == FirstCandidate(acc.todo)
        f == FirstEvicted(acc.left)
    IN  IF acc.todo = {} THEN acc
        ELSE IF acc.allocated + 1 <= policy.quota
        THEN IF FirstReservation(c)
             THEN [acc EXCEPT !.todo = @ \ {c}, !.allocated = @ + 1, !.new = Append(@, Reservation(batch, c))]
             ELSE [acc EXCEPT !.todo = @ \ {c}]
        ELSE IF acc.left = {} THEN [acc EXCEPT !.todo = @ \ {c}]
        ELSE IF ~c.pin /\ cached[f].score >= c.score THEN [acc EXCEPT !.todo = @ \ {c}, !.left = @ \ {f}]
        ELSE [acc EXCEPT !.left = @ \ {f}, !.allocated = @ - 1, !.gone = @ \cup {f}]

Start(batch, used) ==
    [todo |-> batch, left |-> Evictable, allocated |-> Allocated(used), gone |-> {}, new |-> <<>>]

\* Every turn is done with a candidate or with a copy.
Admitted(batch, used) ==
    LET N == Cardinality(batch) + Cardinality(Evictable)
        turns[n \in 0..N] == IF n = 0 THEN Start(batch, used) ELSE Turn(batch, turns[n - 1])
    IN  turns[N]

\* Rows that lose their copy, each with a job to delete its object.
Invalidate(F) == [f \in Files |-> IF f \in F THEN [cached[f] EXCEPT !.status = "INVALIDATED", !.fresh = "STALE"]
                                  ELSE cached[f]]
KeysOf(F) == {cached[f].key : f \in F}
\* The reservations of the batch that can be uploaded.
Uploadable(rs, batch) ==
    {r \in DOMAIN rs : rs[r].batch = batch /\ rs[r].status = "RESERVED" /\ r \notin late}

\* The pass goes on with the reservations rs, in their order, and is over after the last.
Upload(rs) == pass' = IF rs = {} THEN Idle ELSE [Idle EXCEPT !.pc = "check", !.todo = rs]

\* A pass begins: the policy is fetched and the candidates are chosen.
PrepareCandidates ==
    /\ pass.pc = "idle" /\ room /\ Candidates # {}
    /\ pass' = [Idle EXCEPT !.pc = "send", !.batch = Candidates]
    /\ UNCHANGED <<local, server, objects, outbox, queued, flush, nonces, faults, ghosts>>

\* submit takes the room's advisory lock, which a change of the policy takes too, and sums what
\* is cached; the same batch again replays its reservations.  A room that is gone is refused.
BeginSubmit ==
    /\ pass.pc = "send"
    /\ \/ /\ room /\ ~setting.open
          /\ pass' = [pass EXCEPT !.pc = "submit", !.used = Cardinality(AvailableFiles), !.counted = uncounted]
       \/ ~room /\ pass' = Idle
    /\ UNCHANGED <<local, server, objects, outbox, queued, flush, nonces, faults, ghosts>>

\* The rest of submit; a completion does not take the advisory lock, the removal of the room
\* waits for the row of the room.
SubmitCandidates ==
    LET batch == pass.batch
        a == Admitted(batch, pass.used) IN
    /\ pass.pc = "submit"
    /\ \/ /\ batch \notin batches
          /\ Len(reservations) + Len(a.new) <= MaxReservations
          /\ batches' = batches \cup {batch}
          /\ reservations' = reservations \o a.new
          /\ objects' = objects \o [i \in DOMAIN a.new |-> NoUpload]
          /\ cached' = Invalidate(a.gone) /\ doomed' = doomed \cup KeysOf(a.gone)
          /\ uncounted' = IF a.new = <<>> THEN uncounted ELSE uncounted \ pass.counted
       \/ batch \in batches /\ UNCHANGED <<batches, reservations, objects, cached, doomed, uncounted>>
    /\ \/ UNCHANGED faults /\ Upload(Uploadable(reservations', batch))
       \/ Fault /\ pass' = Idle
    /\ UNCHANGED <<local, late, room, rules, outbox, queued, flush, nonces, overtaken, lost>>

-----------------------------------------------------------------------------
(* The upload of one reservation.                                          *)

Now == Min(pass.todo)
Current == reservations[Now]
Goto(pc) == pass' = [pass EXCEPT !.pc = pc]
Skip == Upload(pass.todo \ {Now})
CandidateOf(r) == CHOOSE c \in reservations[r].batch : c.path = reservations[r].path

\* ensure_candidate_still_current, before the encryption and after the upload.
EnsureStillCurrent(at, next) ==
    /\ pass.pc = at
    /\ Goto(IF file[Current.path] = Current.version THEN next ELSE "cancel")
    /\ UNCHANGED <<local, server, objects, outbox, queued, flush, nonces, faults, ghosts>>

\* encrypt_smart_cache_file: whatever is on disk now, under a fresh nonce; its hash is taken
\* of the bytes that are sent.
EncryptFile(p) == [version |-> file[p], nonce |-> nonces + 1]

\* put_upload_bytes to the signed URL, which ends with the reservation.
PutUploadBytes ==
    LET r == Now
        upload == EncryptFile(Current.path) IN
    /\ pass.pc = "put" /\ nonces < MaxUploads
    /\ \/ /\ file[Current.path] # Removed /\ nonces' = nonces + 1
          /\ \/ /\ r \notin late /\ objects' = [objects EXCEPT ![r] = upload]
                /\ pass' = [pass EXCEPT !.pc = "recheck", !.upload = upload] /\ UNCHANGED faults
             \/ r \in late /\ Goto("cancel") /\ UNCHANGED <<objects, faults>>
             \/ Fault /\ Goto("cancel") /\ UNCHANGED objects
       \/ file[Current.path] = Removed /\ Goto("cancel") /\ UNCHANGED <<nonces, objects, faults>>
    /\ UNCHANGED <<local, server, outbox, queued, flush, ghosts>>

\* enqueue_smart_cache_completion: ON CONFLICT DO NOTHING, in whatever state the row is.
EnqueueCompletion ==
    LET r == Now
        c == CandidateOf(r) IN
    /\ pass.pc = "enqueue" /\ Goto("complete")
    /\ outbox' = IF r \in queued THEN outbox
                 ELSE outbox \cup {[kind |-> "completion", path |-> Current.path, id |-> r,
                                   upload |-> pass.upload, score |-> c.score, pin |-> c.pin]}
    /\ queued' = queued \cup {r}
    /\ UNCHANGED <<local, server, objects, flush, nonces, faults, ghosts>>

-----------------------------------------------------------------------------
(* The completion, sent by the pass and again by a flush of the outbox.    *)

\* An item of the outbox, or what the pass has in hand, as the body of a completion.
InHand == LET r == Now IN
    [kind |-> "completion", path |-> Current.path, id |-> r, upload |-> pass.upload,
     score |-> CandidateOf(r).score, pin |-> CandidateOf(r).pin]
FileOf(r) == <<reservations[r].path, reservations[r].version>>

\* complete up to its check under the row's lock: "accept" repeats a known answer, "commit"
\* goes on, "reject" is an error the desktop takes for final.
CompletionCheck(i) ==
    LET row == cached[FileOf(i.id)]
        reservation == reservations[i.id] IN
    IF ~room THEN "reject"
    ELSE IF reservation.status = "COMPLETED"
    THEN IF row.upload = i.upload /\ row.score = i.score /\ row.pin = i.pin THEN "accept" ELSE "reject"
    ELSE IF reservation.status = "RESERVED" /\ i.id \notin late THEN "commit" ELSE "reject"

\* The rest of the transaction: every copy of the path is invalidated, the row is inserted or,
\* if there is one for the version, set again with the key it has.
CommitCompletion(i) ==
    LET old == {f \in AvailableFiles : f[1] = i.path} IN
    /\ cached' = [Invalidate(old) EXCEPT ![FileOf(i.id)] =
                    [status |-> "AVAILABLE", fresh |-> "VERIFIED_CURRENT",
                     key |-> IF @ = NoFile THEN i.id ELSE @.key, upload |-> i.upload,
                     score |-> i.score, pin |-> i.pin]]
    /\ doomed' = doomed \cup KeysOf(old)
    /\ reservations' = [reservations EXCEPT ![i.id].status = "COMPLETED"]
    /\ overtaken' = IF file[i.path] = reservations[i.id].version THEN overtaken ELSE overtaken \cup {i.id}
    /\ uncounted' = IF pass.pc = "submit" \/ setting.open \/ i.id \in late THEN uncounted \cup {i.id} ELSE uncounted
    /\ lost' = lost \ {i.path}

\* The row is locked by a completion that has not committed.
PassHolds(r) == pass.pc = "commit" /\ Now = r
FlushHolds(r) == flush.pc = "commit" /\ flush.item.id = r

\* complete_smart_cache_upload; its answer only ends the upload.
CompleteUpload ==
    /\ \/ /\ pass.pc = "complete" /\ ~FlushHolds(Now)
          /\ \/ CompletionCheck(InHand) = "commit" /\ Goto("commit") /\ UNCHANGED faults
             \/ CompletionCheck(InHand) # "commit" /\ Skip /\ UNCHANGED faults
             \/ Skip /\ Fault
          /\ UNCHANGED <<cached, doomed, reservations, ghosts>>
       \/ pass.pc = "commit" /\ CommitCompletion(InHand) /\ Skip /\ UNCHANGED faults
    /\ UNCHANGED <<local, batches, late, objects, room, rules, outbox, queued, flush, nonces>>

\* cancel_smart_cache_reservation, whose answer nobody reads; the object is deleted once its
\* signed URL has run out.
CancelReservation ==
    LET r == Now IN
    /\ pass.pc = "cancel" /\ Skip /\ ~FlushHolds(r)
    /\ \/ /\ reservations' = IF room /\ Current.status = "RESERVED"
                              THEN [reservations EXCEPT ![r].status = "CANCELLED"] ELSE reservations
          /\ UNCHANGED faults
       \/ Fault /\ UNCHANGED reservations
    /\ UNCHANGED <<local, batches, late, cached, doomed, objects, room, rules, outbox, queued, flush, nonces, ghosts>>

-----------------------------------------------------------------------------
(* The flush of the outbox; what failed is left for later.                 *)

NextAnswer(i, a) == flush' = [pc |-> "mark", item |-> i, answer |-> a]

\* markStale: every copy the mark covers that can be downloaded.
MarkStale(i) ==
    cached' = [f \in Files |-> IF Covers(i, f[1]) /\ Available(cached[f])
                               THEN [cached[f] EXCEPT !.fresh = "STALE"] ELSE cached[f]]

\* dispatch of one item.
Dispatch(i) ==
    LET check == CompletionCheck(i) IN
    /\ \/ /\ flush.pc = "idle" /\ i.kind = "completion" /\ ~PassHolds(i.id)
          /\ \/ check = "commit" /\ flush' = [pc |-> "commit", item |-> i, answer |-> ""] /\ UNCHANGED faults
             \/ check # "commit" /\ NextAnswer(i, check) /\ UNCHANGED faults
             \/ Fault /\ NextAnswer(i, "retry")
          /\ UNCHANGED <<cached, doomed, reservations, ghosts>>
       \/ /\ flush.pc = "idle" /\ i.kind = "stale" /\ UNCHANGED <<doomed, reservations, ghosts>>
          /\ \/ room /\ MarkStale(i) /\ NextAnswer(i, "accept") /\ UNCHANGED faults
             \/ ~room /\ NextAnswer(i, "reject") /\ UNCHANGED <<cached, faults>>
             \/ Fault /\ NextAnswer(i, "retry") /\ UNCHANGED cached
    /\ UNCHANGED <<local, batches, late, objects, room, rules, pass, outbox, queued, nonces>>

\* The server commits the completion; its answer may be lost.
CommitItem ==
    /\ flush.pc = "commit" /\ CommitCompletion(flush.item)
    /\ \/ NextAnswer(flush.item, "accept") /\ UNCHANGED faults
       \/ Fault /\ NextAnswer(flush.item, "retry")
    /\ UNCHANGED <<local, batches, late, objects, room, rules, pass, outbox, queued, nonces>>

\* Whatever is pending for the path is done with.
MarkPath(i) == {j \in outbox : j.kind # i.kind \/ j.path # i.path}
\* mark_sent and mark_failed, by the row's id and only while it is pending.
Mark(i) == outbox \ {i}
\* mark_sent, mark_retry or mark_failed.
MarkItem ==
    /\ flush.pc = "mark" /\ flush' = NoFlush
    /\ outbox' = IF flush.answer = "retry" THEN outbox ELSE Mark(flush.item)
    /\ UNCHANGED <<local, server, objects, pass, queued, nonces, faults, ghosts>>

\* The desktop stops and starts again: its database is all it remembers.  A transaction of
\* the server goes on without it.  What is edited before the watcher runs again is not seen.
RestartDesktop ==
    /\ Fault /\ (pass.pc # "idle" \/ flush.pc # "idle" \/ watching)
    /\ pass.pc \notin {"submit", "commit"} /\ flush.pc # "commit"
    /\ pass' = Idle /\ flush' = NoFlush
    /\ watching' = FALSE /\ pending' = {} /\ change' = {} /\ lost' = lost \cup pending \cup change
    /\ UNCHANGED <<file, score, preference, acts, marks, server, objects, outbox, queued, nonces, uncounted, overtaken>>

-----------------------------------------------------------------------------
(* The clock, the worker, the phone.                                       *)

TimePasses(r) ==
    /\ reservations[r].status # "COMPLETED" /\ r \notin late /\ late' = late \cup {r}
    /\ UNCHANGED <<local, batches, reservations, cached, doomed, objects, room, rules, desktop, faults, ghosts>>

\* scheduleExpired and expireAbandonedReservation.
Expirable(r) ==
    r \in late /\ reservations[r].status = "RESERVED" /\ ~PassHolds(r) /\ ~FlushHolds(r)
ExpireReservation(r) ==
    /\ Expirable(r) /\ reservations' = [reservations EXCEPT ![r].status = "EXPIRED"]
    /\ UNCHANGED <<local, batches, late, cached, doomed, objects, room, rules, desktop, faults, ghosts>>

\* processCacheFileJob and processCacheReservationJob: a deletion that fails is tried again.
DeleteObject(r) ==
    /\ objects[r] # NoUpload
    /\ r \in doomed \/ (reservations[r].status \in {"CANCELLED", "EXPIRED"} /\ r \in late)
    /\ objects' = [objects EXCEPT ![r] = NoUpload]
    /\ UNCHANGED <<local, server, desktop, faults, ghosts>>

\* remove: the phone takes a copy out of the cache.
RemoveCached(f) ==
    /\ Act /\ room /\ Available(cached[f])
    /\ cached' = Invalidate({f}) /\ doomed' = doomed \cup {cached[f].key}
    /\ UNCHANGED <<file, score, preference, watcher, batches, reservations, late, objects, room, rules, desktop, faults, ghosts>>

\* recordAccess: the phone opened a copy.
AccessScore == 5
RecordAccess(f) ==
    /\ Act /\ room /\ Available(cached[f])
    /\ cached' = [cached EXCEPT ![f].score = @ + AccessScore]
    /\ UNCHANGED <<file, score, preference, watcher, batches, reservations, late, doomed, objects, room, rules, desktop, faults, ghosts>>

\* updatePolicy takes the advisory lock and sums what is cached.
BeginUpdatePolicy ==
    /\ Act /\ room /\ ~setting.open /\ pass.pc # "submit"
    /\ setting' = [open |-> TRUE, used |-> Cardinality(AvailableFiles), counted |-> uncounted]
    /\ UNCHANGED <<file, score, preference, watcher, batches, reservations, late, cached, doomed, objects, room, policy,
                   desktop, faults, ghosts>>

\* The rest of updatePolicy: a quota that does not hold what there is is refused.
UpdatePolicy(q) ==
    /\ setting.open /\ setting' = NoSetting
    /\ \/ Allocated(setting.used) <= q.quota /\ policy' = q /\ uncounted' = uncounted \ setting.counted
       \/ Allocated(setting.used) > q.quota /\ UNCHANGED <<policy, uncounted>>
    /\ UNCHANGED <<local, batches, reservations, late, cached, doomed, objects, room, desktop, faults, overtaken, lost>>

\* The room is removed; completions that have begun hold its row.
CloseRoom ==
    /\ Act /\ room /\ room' = FALSE
    /\ pass.pc \notin {"submit", "commit"} /\ flush.pc # "commit" /\ ~setting.open
    /\ cached' = Invalidate(AvailableFiles) /\ doomed' = doomed \cup KeysOf(AvailableFiles)
    /\ reservations' = [r \in Ids |-> IF reservations[r].status = "RESERVED"
                                      THEN [reservations[r] EXCEPT !.status = "CANCELLED"] ELSE reservations[r]]
    /\ UNCHANGED <<file, score, preference, watcher, batches, late, objects, rules, desktop, faults, ghosts>>

-----------------------------------------------------------------------------
Pass ==
    \/ PrepareCandidates \/ BeginSubmit \/ SubmitCandidates \/ EnsureStillCurrent("check", "put") \/ PutUploadBytes
    \/ EnsureStillCurrent("recheck", "enqueue") \/ EnqueueCompletion \/ CompleteUpload \/ CancelReservation
Flush == (\E i \in outbox : Dispatch(i)) \/ CommitItem \/ MarkItem
Watch == StartRootWatcher \/ StopWatcher \/ TakeChanges \/ EnqueueStaleForChange
Work(r) == ExpireReservation(r) \/ DeleteObject(r)

Next ==
    \/ \E p \in Chosen : RecordUsageEvent(p)
    \/ \E p \in Edited : EditFile(p)
    \/ \E p \in Chosen, flag \in Preferences : UpdateFilePreference(p, flag)
    \/ Watch \/ Pass \/ Flush \/ RestartDesktop
    \/ \E r \in Ids : TimePasses(r) \/ Work(r)
    \/ \E f \in Files : RemoveCached(f) \/ RecordAccess(f)
    \/ BeginUpdatePolicy \/ (\E q \in Policies : UpdatePolicy(q)) \/ CloseRoom

Spec == Init /\ [][Next]_vars

-----------------------------------------------------------------------------
(* Properties.                                                             *)

Contents == {NoUpload} \cup [version : Versions, nonce : 1..MaxUploads]
\* Types of the variables.
TypeOK ==
    /\ file \in [Paths -> Versions \cup {Removed}] /\ score \in [Paths -> Nat]
    /\ preference \in [Paths -> SUBSET Preferences]
    /\ \A r \in Ids : FileOf(r) \in Files /\ reservations[r].status \in {"RESERVED", "COMPLETED", "CANCELLED", "EXPIRED"}
    /\ late \cup doomed \cup queued \subseteq Ids /\ objects \in [Ids -> Contents]
    /\ \A f \in Files : cached[f] # NoFile =>
         /\ cached[f].status \in {"AVAILABLE", "INVALIDATED"} /\ cached[f].fresh \in {"VERIFIED_CURRENT", "STALE"}
         /\ cached[f].key \in Ids /\ cached[f].upload \in Contents
    /\ room \in BOOLEAN /\ policy \in Policies /\ watching \in BOOLEAN
    /\ pending \cup change \cup lost \subseteq Paths /\ marks \in Nat
    /\ pass.upload \in Contents /\ nonces \in 0..MaxUploads /\ faults \in 0..MaxFaults
    /\ pass.pc \in {"idle", "send", "submit"} <=> pass.todo = {}
    /\ flush.pc = "idle" <=> flush.item = NoItem

\* What the phone can download is in the store and nobody is going to delete it, whatever was
\* evicted, removed, cancelled or reserved again.
AvailableIsBacked ==
    \A f \in AvailableFiles : objects[cached[f].key] # NoUpload /\ cached[f].key \notin doomed

\* Copies and reservations that have not run out exceed the room's quota by no more than the
\* completions no sum has counted since.
QuotaIsKept ==
    Cardinality(AvailableFiles) + Cardinality(Reserved) <= policy.quota + Cardinality(uncounted)

\* A copy of a version that was overwritten is not presented as current unless its mark is
\* still on its way, with the watcher or in the outbox; or the edit came before the completion;
\* or its mark was lost with the watcher, and neither a later mark nor a completion made up for it.
OverwrittenIsReported ==
    \A f \in AvailableFiles :
        cached[f].fresh = "VERIFIED_CURRENT" /\ file[f[1]] # f[2] =>
            \/ f[1] \in pending \cup change
            \/ \E i \in outbox : Covers(i, f[1])
            \/ cached[f].key \in overtaken \/ f[1] \in lost
=============================================================================
