# MouseKeeper: TLA+ models, checks and proofs

MouseKeeper lets a user tidy folders of a desktop computer from a phone. A Tauri
desktop agent (Rust) analyses folders and changes files, a NestJS server with
PostgreSQL carries commands, proposals and decisions, a worker process deletes
expired objects and sends notifications, and a Flutter app is the remote control.
This directory holds TLA+ models of the parts of that system whose correctness
depends on the order of steps: what a crash, a lost answer or a second actor can
do between two of them.

Contents: [1 Inventory](#1-inventory), [2 Plan](#2-plan), [3 FileEngine](#3-fileengine),
[4 Rules](#4-rules), [5 Delegation](#5-delegation), [6 AutoProposals](#6-autoproposals),
[7 FileIndex](#7-fileindex), [8 ManagedRoots](#8-managedroots),
[9 Background and EventLog](#9-background-and-eventlog), [10 Transfers](#10-transfers),
[11 SmartCache](#11-smartcache), [12 Proofs](#12-proofs),
[13 Known deviations](#13-known-deviations), [14 Limits](#14-limits).

## 1 Inventory

Paths below are relative to `src/`; `desktop/` stands for `apps/desktop/src-tauri/src/`,
`engine/` for `tools/file-engine-cli/src/`, `server/` for `apps/server/src/`.

| Component | Source | State | What makes it correct | Module |
|---|---|---|---|---|
| File engine | `engine/` `execute`, `trash`, `file_ops`, `undo`, `precondition` | the folder, `.mousekeeper_trash`, README backups | no file is lost, every displaced file is found from the journal, undo restores | FileEngine |
| Operation journal, history | `engine/journal.rs` | rows planned / executed / undo_planned / undone | a row precedes each change, rows are never dropped, history shows what undo would do | FileEngine |
| Rules, proposals, decisions, auto approval | `engine/` `rules/`, `analyzer`, `proposal`, `decision`, `auto_approval` | `rules.json`, a scan, a report | a rule means what it says, a draft comes to rest | Rules |
| Delegation | `server/` `commands`, `proposals`, `decisions`, `executions`; `desktop/` `command_processor`, `execution_processor`, `outbox_processor`, `storage/outbox`, `work_limiter` | four tables; a durable outbox, permits and passes | tables agree, nothing runs without approval or twice, results are true and arrive | Delegation |
| Automatic proposals | `desktop/` `auto_cleanup_processor`, `auto_proposal` | a fingerprint per finding | one proposal at a time, none repeated, none forgotten | AutoProposals |
| Index, browsing, watchers | `engine/` `file_index`, `browse`; `desktop/` `watcher*`, `file_browse_processor` | two tables and a generation | a search is consistent over its pages, the index converges | FileIndex |
| Managed roots, policies, rooms, pairing | `desktop/storage/` `managed_roots`, `auto_approval`; `desktop/commands/`; `server/connections` | memory, SQLite, rooms and devices of the server | the table loads, memory and table agree, a removed room is detached | ManagedRoots |
| Background runtime, sync log, realtime | `desktop/background.rs`, `storage/agent_sync.rs`; `server/sync`, `server/realtime` | loop, tick, cursors; per-user event sequence | no event is skipped, work follows the replay, revocation is noticed | Background, EventLog |
| File transfers, worker | `desktop/file_transfer_processor.rs`, `server/transfers`, `apps/worker/src/main.ts` | transfer rows, deletion jobs, objects | what is downloaded is what was announced, objects are deleted | Transfers |
| Smart cache | `desktop/` `smart_cache_processor`, `storage/smart_cache`, `watcher*`; `server/smart-cache` | usage, reservations, copies, objects | the quota holds, a copy has its object, stale copies are marked | SmartCache |
| Cleanliness snapshots | `desktop/cleanliness.rs` | snapshots, rows of the outbox that supersede each other | the latest picture wins | - |
| Chat, agent runs, drafts | `server/chat`, `server/ai` | messages, runs, tool calls | a draft becomes at most one command | (confirmation: Delegation) |
| Mobile app, desktop UI | `apps/mobile/lib`, `apps/desktop/src` | mutation queue, screens | presentation | - |

How they interact. The phone calls the server over HTTP and receives pushed events.
The desktop never accepts connections: its background tick (every few seconds)
and the calls of its own UI *poll* the server for commands and decisions. Reports
to the server go through a durable outbox that is flushed by the tick and by UI
calls, concurrently and without a lock. File changes happen only in the file
engine, a library in the desktop process that journals to SQLite.

What is hard here:

* a journal row, a system call and another row are three steps, and a crash or
  another program (the user's file manager) fits between any two;
* stores change a map under a lock and write to SQLite after releasing it;
* a request that timed out may still be served, once its sender has gone on;
* `ProposalsService.create` reads without a lock, and most handlers overwrite the
  command's status without consulting the transition table;
* the tick and the UI run the same processors at the same time;
* claims are idempotent, so a repeated claim looks like a first one;
* the user goes on editing between the scan, the hash, the upload and the completion;
* the sync log is read in pages, and a page that fails is read again.

`PROJECT.json` lists these hazards with their lines and the properties that cover them.

## 2 Plan

Done, most important behaviour first: FileEngine, Delegation, Rules, FileIndex, ManagedRoots,
Transfers, SmartCache, Background with the abstract specification EventLog, AutoProposals.

Left:

1. Proofs of what the recursions of Rules compute and of undo over a whole journal (section 12).
2. Snapshots and the outbox rows that supersede each other.
3. Chat and agent runs: tool calls, run recovery.
4. The mobile mutation queue.

The modules meet at narrow places: Delegation uses FileEngine only through "an execution has
a result" (`ExecuteDecision`), Background uses the others only through "a phase is a request
that is answered or not", AutoProposals repeats the creation of commands and proposals of
Delegation under the keys the tick uses. There is one run per question, each sized to
finish in a few minutes.

## 3 FileEngine

`FileEngine.tla` models one call of the engine at a time (the write permit and the
UI see to that) together with other programs.

*State.* `disk` maps each location (paths of the folder, trash slots, README backups,
trash markers) to what is there: nothing, a directory, or a file's content as a token
of `Data`. `journal` is the table of operation rows, `quarantine` the rows dumped by
recovery. `call`, `step`, `batch`, `pos`, `prior`, `cur`, `todo`, `scope` and `skipped`
are the local variables of the call in progress. `home`, `moved` and `misread` are history
variables used only by properties.

*Actions.* Each Rust function is split where a crash or another program matters, at
every journal write and every system call: `StartExecute` prechecks all items of the
batch; then, per item, `RecoverPlannedMove` / `SkipUnready` / `PlanItem` (the Planned row),
`CheckMove` or `CheckCreateDir` (the last look at the destination), `ApplyRename`,
`ApplyCreateDir` or `ApplyCreateFile` (the system call), `LogExecuted`. README writes
and trash have their own steps (`BackupReadme`, `PlanReadme`, `WriteReadme`; `PlanTrash`).
`StartTrash`, `StartRename` and `CreateEmptyFile` are the manual tools,
`WritePlannedJournal` the plan-only mode, which writes a Planned Move row for every ready check, trash proposals
included: the destination of such a row is the trash directory itself. Undo walks the journal backwards:
`StartUndo`, then `UndoRecorded` / `UndoSkip` / `UndoError` / `UndoPlan` by the verdict on
the row, then `RestoreMoved`, `RemoveCreated` or `RestoreReadme`, then `LogUndone`.
`DumpJournal` and `ClearJournal` are journal recovery. `Crash` drops the locals and may
happen anywhere; `GarbledRow` makes a row unreadable; the `User...` actions are other
programs, allowed at the steps in `UserMayActAt`.

| Run | Checks | Shows |
|---|---|---|
| `file_engine_quiet` | `TypeOK`, `DisplacedIsJournaled`, `UndoAllRestores` | three operations of any kind, a crash anywhere, full undo: every displaced file traceable, the folder restored |
| `file_engine_user` | `HistoryMirrorsUndo`, `NoDataLost`, `RowsAreKept` | the user changes a tree of folders between calls and after the Planned row, a row of the journal becomes unreadable, a crash comes anywhere: nothing lost, History shows as undoable what undo takes back but for what it does not look at, quarantine keeps every row |

`UndoAllRestores` speaks of journals that were never quarantined (the dump is for a human) and
leaves out the states after a misread planned row (section 13). `HistoryMirrorsUndo` compares
`read_operation_history` with what `undo_operation` would do for every executed operation whose undo was not begun: one that is shown
as undoable is one undo takes back without an error, unless it is `Unforeseen` (a file stands in place of the directory a moved file
came from, or a directory in place of README.md: section 13), and undo takes back none of the others. Operations whose undo was
interrupted are in section 13. `NoDataLost` excepts the undo of a README write.

*Bounds.* `MaxOp` operation ids: three suffice for a move, a move that reuses a path
and the undo of either (the shapes that matter are a chain and a swap). `MaxBatch` is two: a batch
whose second item meets what the first one did. `MaxCrash` is one.
`MaxRows` caps the journal above what `MaxOp` operations and one undo can write, so it cuts off
only repeated interrupted undos (in `file_engine_user`, six rows: two operations and one undo).
In `file_engine_user` crashes, acts of the user and unreadable rows share the budget `MaxTrouble` of two: remove one file and put
another in its place, an edit and a crash, a crash during the recovery of an unreadable row. Folders have one level
(`Flat...`) or two (`Tree...`), the second for parents that are missing
or are files. The user is allowed everywhere but in the window between the last check and the
system call, which is a known exposure (section 13). Deadlock is not checked: with the bounds
used up the engine stops.

## 4 Rules

`Rules.tla` follows a rule set from its source to executed proposals: `ProposeForRoot` (the
stored rules, the preset, or an error), `ProposeDraft` (a draft in the contract's form, turned into
rules by `IntoRuleSet`), then `AutoApprove`, `ApproveFromChat` or `UserDecides`,
`ApplyDecisions`, `ExecuteApproved`. Matching, validation, the order and identity of proposals
are operators with the names of the functions they translate. `GlobMatch` is the loop of
`glob.rs` as a recursive function over (pattern position, text position, last star).

Run `rules`: `GlobIsComplete` compares that loop with the meaning of wildcards (a placement of
the pattern's signs over the text) for all patterns of up to four signs of `a b * ?`;
`DraftMeansItsConditions` compares the rules made from a draft with the draft's own conditions,
for all drafts with up to two of fifteen conditions, both modes and four actions, on four folders;
`AutoDecisionsAreAccepted` says that decisions made without a decision file are never refused by
`apply_decisions`, and `DraftComesToRest` that once a draft's proposals are executed the next scan
has none that is ready. The folders hold files of every age class, equal names in two directories,
names that differ in case, links and internal directories. The clock stands still during a run.

## 5 Delegation

`Delegation.tla` models the commands of one device.

*Server.* `cmd`, `proposal`, `decision`, `execution` are the status columns. Every handler is
one transaction and one action: `UpdateStatus` (`CommandsService.update`), `CreateExecution`,
`UpdateExecution`, `Decide`, `CreateCommand`. `ProposalsService.create` is two, `ReadForProposal`
and `InsertProposal`, because its read is outside the transaction and takes no lock.
Idempotency keys are the ids the desktop uses as keys, so a replay is "the row is there already".

*Desktop.* Each worker (the tick, a UI call) is idle or in a pass, with its polled items
(`todo`, `batch`) and the request it waits for (`call`). Scan passes: `StartScan` polls,
`TakeCommand` claims (two status updates), `Analyse` puts the outcome in the outbox,
`ClaimFails` reports the failure. `ConfirmDraft` and `ScanDraft` are the chat path, which
processes a command as it was when the draft was confirmed. Write passes: `StartWrite` polls the
decisions, `TakeDecision` claims one, `ExecuteDecision` runs the file engine and only
`ReportResult` makes the result durable. Flush passes: `StartFlush` reads the oldest pending rows,
`TakeRow` sends one, `SettleRow` marks it by the kind of answer. Scan and write passes exclude
each other by kind (`PermitFree`, the semaphores of `WorkLimiter`), flush passes do not.

*Network and process.* `TimeOut` makes the client give up on a request; if it was not served yet
it stays in `late`, and `ServeLate` may serve it at any time or never. `Crash` loses everything of the
desktop but the outbox.

| Run | Checks | Shows |
|---|---|---|
| `delegation_safe` | `TypeOK`, `RunsOnceApproved`, `ReportIsTrue`, `TablesAgree`, `FinalIsFinal` | two workers, a timeout and a crash anywhere: at most one execution and only after approval, truthful results, coherent tables, final statuses |
| `delegation_live` | `ApprovedIsSettled`, `CommandSettles` | with lost deliveries, each command leaves the queue and each approval gets a result |

*Bounds.* One timeout and one crash, each anywhere; a second of either only repeats a
situation that the first can create, since all that survives is `late`, the outbox and the tables.
Two workers are enough for every pair of passes. `FlushBatch = 2` lets a batch hold both rows that
one command produces. A command has at most one proposal here; the autonomous proposals of the tick,
which use another idempotency key for the same command, are in AutoProposals.

*Fairness* (`delegation_live`). `WF(Step(w))`: a future
that has begun is polled on, and the HTTP client's timeout bounds every wait. `SF` of the tick's three
starts: `background.rs` runs each processor every tick and a permit is held for one pass only, so the
tick finds it free again and again; other workers are not fair. The user is not fair: nothing is
promised unless a decision is made. `delegation_live` leaves timeouts to flush passes and has no crash,
no malformed command and no empty analysis, because with those the promises are false (section 13,
and the empty analysis of hazard `command_processor.rs:524`).

## 6 AutoProposals

*State.* The folder is what a scan finds in it (`Contents`, or `Clean`); a finding is its own
fingerprint, the idempotency key of its command. `command` and `status` are the server's tables,
with proposals under two keys (the submission's and the outbox's), `outbox` and `queued` the
durable rows, `op` what the tick and a command of the window are doing.

*Actions.* A tick scans (`Scan`), asks how many proposals are open, creates, claims and answers a
command of its own, then polls pending commands, analyses and queues, and flushes the outbox; each
request is a step that may be lost before or after it was served. The window may run the same passes.
`Crash` drops `op`. The user edits and decides; an approved proposal is executed in one step (Delegation
has its details).

*Run* `auto_proposals`: `OneAtATime` and `NotOfferedAgain` hold as long as no request is lost, nothing crashes and nobody
is at the window (`extras = 0`), however the folder changes between the steps; `OrphansSettle` and
`FindingsAreOffered` hold in spite of two lost requests, crashes or window passes. Two findings and two edits
let one finding be left behind while another is offered and the first comes back. *Fairness:* the tick goes on
(its timer fires), and a command of the window that was begun goes on.

## 7 FileIndex

*State.* `disk`; the tables `files` and `entries` with `generation` and `initialized`; the room's `binding`;
the watcher and its queue of events; one `job` per thread (the watcher, a watcher that was stopped while it
worked, the background tick, the window); the phone's `request` with the pages answered so far. A page is a set of
entries: their order is that of `Rank`, the place of a path in `ORDER BY normalized_name, relative_path`, and the offset of a cursor is
the number of a row in it (`RowNumber`, `ListNumber`).

*Actions.* A rebuild is three steps (`AnalyzeRoot`, `CollectSearchEntries`, `CommitReindex`), a patch
two (`StatFile`, `UpsertFile`) or one (`RemovePath`). `StartRootWatcher` / `BeginWatch`, `StopWatching`,
`DetachRoom` / `StopDetachedWatcher` / `ClearIndex` and `ActivateAgentRoomBinding` follow the lifecycle;
`ReconcileWatchedRootIndexes` is the scheduled rebuild. `SearchRequest`, `SearchPage` and `ListDirectory`
answer the phone. `Restart` drops threads and queue.

*Run* `file_index`: `PagesAreExact` (a finished search shows nothing twice, in index order, and every hit
that stayed), `ClearedIndexIsNeverSearched` (an action property quoting `commands/agent.rs`),
`Converges` (once edits stop, the index of a watched root equals the disk for good, *if* the tick gets to
`ReconcileWatchedRootIndexes` again
and again).
Pages have one entry, so that every search is cut; one edit and one fault at any time, two threads at once.
*Fairness:* threads that have begun go on, and so do the phone's requests. Nothing is assumed of the scheduled rebuild. That it is
reached again and again is the hypothesis of `Converges` (`[]<><<...>>_vars`), and an assumption on the surroundings: a tick stops before
it while the desktop is not paired (`background.rs:474`), while the heartbeat gets no answer (`:519`) or the replay fails (`:585`), and
passes it over when it is light or gets no scan permit (`:751`). Section 13 says what such a desktop is left with.

## 8 ManagedRoots

*State.* `memory` and `database` hold the rows of the roots (absent, unbound, active, detached; the room),
`policies` and `savedPolicies` the automatic approval; `rooms` and the active device are the server's, `log` its
events; `cursor` and `credential` the desktop's. `op` says for each thread (window, background)
which writes are still to come. Five history variables record what the properties except: `unsaved` (folders a write of
whose row failed), `late`
(folders of which a row was written that memory had left behind), `inherited`, `overtaken` (devices paired while a
revocation was being carried
out) and `missed` (rooms whose removal was replayed before a root was bound to them, or before the bound row was written).

*Actions.* One per command (`RegisterManagedRoot`, `UpdateState`, `PatchPolicy`, `EnsureAgentRoom`,
`DisconnectAgentRoom`, `UnregisterManagedRoot`, `PollPairing`, `RevokeAgentDevice`), each followed by its
request and its writes (`Continue`); `PersistFails` is a write that fails. The window and the background work at the
same time, step by step;
within each, one operation comes after the other, and a request is served in one step. `UpdateHealth` is the watcher's
and the tick's, which write
the whole row. `Heartbeat`, `ReplayEvents` and `ReplayRefused` are the tick's; a replay applies the page event by event (`ReplayEvent`) and
moves the cursor last. `ReplayRule` is a `rule.created`, created by the phone (`PhoneCreatesRule`): any error of it ends
the replay with the cursor
where it was. `Restart` loads the tables; the phone removes rooms and revokes the device.

| Run | Checks | Shows |
|---|---|---|
| `managed_roots` | `StoreLoads`, `DatabaseMirrors`, `DetachedMeansClosed`, `PolicyIsNotInherited`, `RemovedRoomIsDetached` | whatever the two threads, the phone, crashes, failing writes and lost answers do to each other: the table loads, memory and table agree at rest, a root is detached only from a closed room, no policy is inherited, and a removal the cursor has passed took effect for good |
| `managed_roots_mirror` | `DatabaseMirrorsMemory` violated | the sentence of `managed_roots.rs:51` without the exception of late writes: two operations of the tick and the window on one root leave the older row in the table, with no fault at all |

The exceptions. `StoreLoads` and `DatabaseMirrors` leave out `unsaved` and `late` roots, `PolicyIsNotInherited`
`unsaved` ones. `DetachedMeansClosed`
excepts rooms of `overtaken` devices: the revocation takes every active root for one of the device it revokes.
`RemovedRoomIsDetached` excepts `unsaved`,
`late` and `missed`. All are in section 13. `RemovedRoomIsDetached` is about the removals the cursor has *passed*: it does not
say that the cursor gets there. It does unless a rule blocks the replay (`EventsAreActedOn`, section 9).

*Bounds.* Two folders, one inside the other; one of them is bound to rooms (`Linked`) and has a policy, the other is
registered, switched and
unregistered, which is enough for overlaps. Rooms, pairings, rules and faults share the budget `MaxIncidents` of four: a
root bound again to a second room after a crash, a second pairing
that replays the log from the start while a room is removed, a replay that fails at a rule and starts again, two faults in a row.

## 9 Background and EventLog

`Background.tla` models the loop of `background.rs` and the log it follows. On the server, transactions
(`Writers`) insert what they change and number their events with `max + 1` under the advisory lock, then commit.
The desktop's `op` has a program counter that goes through the phases of a tick: heartbeat, replay (a page,
event by event, then the cursor), and one phase per processor. The tick's mode follows
`scheduled_tick_mode`; a push is only a wake-up (`wake`). The window replays on its own. The device may be revoked
and paired again, the loop paused, suspended, started, and the process restarted.

`EventLog.tla` is what the log promises: a list that grows at its end, and a reader that acts on
its elements in order, none left out. `EventsInOrder` is the refinement, with the mapping
`log <- InOrder(rows)` (the committed rows by number) and `acted` (a history variable: the events in the
order they were first acted on).

| Run | Checks | Shows |
|---|---|---|
| `background` | `WorkIsCurrent`, `EventsInOrder`, `EventsAreActedOn`, `RevocationIsNoticed` | a tick works with the rooms its replay left, the log refines EventLog, the desktop catches up without any push unless a rule of a closed room blocks the replay, a revoked desktop notices |

`EventsAreActedOn` excepts a replay that is `Blocked` by a rule of a closed room (section 13).

Pages of two events and a log of three make a replay need a second page; two writers let numbers be taken in one
order and commits wanted in another; two devices let a new pairing read the log from the start.
*Fairness:* `WF(LoopStep)`: the task is scheduled and its timer fires. Nothing is assumed of the window, the
server's pushes or the user.

## 10 Transfers

*State.* The source `file` as a version number; the server's `row`s, the deletion `jobs` and the object store;
the upload `pass` of the desktop, the `outbox` row of a completion and the `flush` under way; uploads the desktop gave
up that may still arrive (`flight`); `late` transfers.

*Actions.* `Pass` is the desktop's pass step by step: poll, announce, hash, check again, upload, queue the completion.
The server's completion reads the row, looks at the object and commits under the lock (two steps). The phone creates, cancels
and acknowledges; `TimePasses`, `Dispatch`, `ProcessTransferJob` are clock and worker; both processes restart.

*Run* `transfers`: `ReadyIsFaithful`, `DeadLetterIsFinal`, `Settles`, `ObjectsAreDeleted` (stranded objects
excepted: section 13). Four versions: two of one size, one too large, one empty, and an upload that spans an edit is `Torn`.
One transfer (transfers share only the pass, which takes them one after the other), three faults.
*Fairness:* the clock, the worker's 30-second tick and the flush of the outbox; the upload pass itself is not fair, so
`Settles` holds with the desktop gone for good.

## 11 SmartCache

*State.* Versions, usage and preferences of the files; the watcher (`watching`, the paths it holds back in `pending`,
the `change` in its hands); the server's
policy, batches, reservations and copies; objects by reservation with version and nonce; the desktop's `pass`, `outbox`
and `flush`; `doomed` objects, `late` reservations.
`uncounted`, `overtaken` and `lost` are history variables for the exceptions named below: completions in neither sum of a batch,
until a later batch has counted them; completions of a version that was already overwritten; files whose stale mark was
lost on its way. The outbox is a set, since every
pending item is due at every flush; the reservations of a pass are taken in the order of their ids.

*Actions.* An edit (`EditFile`) only changes the file and, if a watcher runs, reaches `pending`. `TakeChanges` is the
end of the debounce, which may
coalesce the paths into a mark of the whole room (`Coalesced`); `EnqueueStaleForChange` follows the patch of the index
and the scan, and queues the mark or fails
and only logs it; `StopWatcher` and a restart drop what is pending or in hand; `StartRootWatcher` queues nothing.
The pass chooses candidates, submits (two sums in two steps, since a completion takes no part in submit's lock), checks, encrypts and
uploads each reservation, checks again and queues the completion. The flush delivers completions and stale marks, each in
a read and a commit. The phone changes the policy by the same two sums (`BeginUpdatePolicy`, `UpdatePolicy`), removes
copies and opens them (`RecordAccess`, which raises the
score by five); reservations expire; the worker deletes. The two nested loops of submit are a function of its turns
(`Turn`, `Admitted`): a turn admits a candidate, passes over it or evicts
a copy.

*Run* `smart_cache`: `AvailableIsBacked`, `QuotaIsKept` (but for completions no sum has counted) and
`OverwrittenIsReported` (but for edits that overtook the completion and marks that were lost). *Bounds:* two files
compete for a quota of one that may become two; one of them is edited, opened
and pinned, the other only competes. Two versions, two reservations and two uploads, two acts of the user, one fault.
All files have size one. There is no liveness property: a file
that does not fit is never promised anything.

## 12 Proofs

TLAPS checks the theorems for every value of the constants that satisfies the named
assumptions (`PathAssumption`, `DataAssumption`, `ProposalAssumption`, `BoundAssumption` in
`FileEngine.tla`; `DelegationAssumption`, `TransfersAssumption`, `AutoProposalsAssumption`,
`BackgroundAssumption`, `RootsAssumption`, `CacheAssumption` and, in `FileIndex.tla`, `BoundsAssumption`). TLC evaluates those
assumptions in every run. The bounds on crashes, timeouts and operations are constants, so "any number" below
means "for every bound". Each inductive invariant was checked with TLC before it was proved.

| Theorem | Property |
|---|---|
| `FileEngineProofs!TypeCorrect` | `TypeOK` |
| `FileEngineProofs!JournalRowsAreKept` | `RowsAreKept` |
| `FileEngineProofs!DisplacedIsAlwaysJournaled` | `DisplacedIsJournaled` |
| `FileEngineProofs!DataIsKept` | `NoDataLost`, if other programs keep out of three windows |
| `FileEngineProofs!HistoryAlwaysMirrorsUndo` | `HistoryMirrorsUndo` |
| `DelegationProofs!TypeCorrect`, `TablesAlwaysAgree`, `ExecutedOnceApproved`, `ReportsAreTrue`, `FinalStaysFinal` | `TypeOK`, `TablesAgree`, `RunsOnceApproved`, `ReportIsTrue`, `FinalIsFinal` |
| `TransfersProofs!TransfersReadyIsFaithful`, `TransfersDeadLetterIsFinal` | `ReadyIsFaithful`, `DeadLetterIsFinal` |
| `AutoProposalsProofs!AutoProposalsOneAtATime`, `AutoProposalsNotOfferedAgain` | `OneAtATime`, `NotOfferedAgain` |
| `BackgroundProofs!BackgroundWorkIsCurrent`, `BackgroundEventsInOrder` | `WorkIsCurrent`, the refinement `EventsInOrder` |
| `ManagedRootsProofs!RootsPolicyIsNotInherited` | `PolicyIsNotInherited` |
| `ManagedRootsProofs!RootsDatabaseMirrors`, `RootsStoreLoads`, `RootsDetachedMeansClosed` | `DatabaseMirrors`, `StoreLoads`, `DetachedMeansClosed`, with the window and the background at work at once |
| `FileIndexProofs!IndexClearedIsNeverSearched`, `IndexPagesAreExact` | `ClearedIndexIsNeverSearched`, `PagesAreExact` |
| `SmartCacheProofs!SmartCacheBacked`, `SmartCacheQuota`, `SmartCacheReported` | `AvailableIsBacked`, `QuotaIsKept`, `OverwrittenIsReported` |

**`FileEngineProofs.tla`**

* `TypeCorrect`: `Spec => []TypeOK`. Not inductive by itself: `LogExecuted` appends the row of item
  `batch[pos]` with id `cur`, which is well typed only because of the step the call has reached.
  `TypeInv` adds `CallShape`, which says what the program counter implies for the locals: which calls can
  be at which step, that `pos` points into the batch or the journal, that `cur` has been given out,
  and that enough ids are left for the rest of a batch. There is one lemma per action.
* `JournalRowsAreKept`, `DisplacedIsAlwaysJournaled`: other programs may act at any step. Both rest on `RecordInv`, which ties the
  call in progress to the journal: before a file is moved or trashed a row names its destination (`PlannedInv`); an undo
  under way is at an executed row and has journaled where the file goes (`CursorInv`); a dump under way has written every row, which
  is what lets the table be cleared (`DumpInv`); an executed README row names README.md and the
  row of a moved file the path it came from (`RowsInv`, `BatchInv`). A displaced file is then traced by cases over
  the system calls: each moves a file to the destination a row already names.
* `DataIsKept`: from `SlotsInv` (the trash slot, backup and marker of an operation id that was not given out are empty) and
  `AheadInv` (what the last check found is still so when the step takes effect). The hypothesis `StaysOut`
  keeps other programs out of the windows after the check of a destination, after the backup of README.md and after
  `undo_planned`, the exposures of section 13; everywhere else they may act. Run `file_engine_user`
  satisfies it.
* `HistoryAlwaysMirrorsUndo`: History and undo are compared verdict by verdict over any well-typed journal and folder. That the undo
  of a README write which History offers also *works* needs `BackedInv`: the backup, or the marker that there was none,
  of every executed README write is still there.

**`DelegationProofs.tla`**

* `TypeCorrect`, `TablesAlwaysAgree`, `ExecutedOnceApproved`, `ReportsAreTrue`: the four invariants of
  run `delegation_safe`;
* `FinalStaysFinal`: its action property.

All rest on `Invariance: Spec => []Inv`. `TablesAgree` is inductive given the types, by one lemma per
transaction (`UpdateStatusKeeps`, `InsertProposalKeeps`, `CreateExecutionKeeps`, `UpdateExecutionKeeps`).
The others are not, because the facts they need are spread over the places a result can be in:

* `OutboxInv`, `CallInv`, `LateInv`: a result in the outbox, in a request under way or in a request that
  was given up is the result of the only run (`IsTrue`). This makes repeated and late delivery harmless;
* `RunsInv`: a command that has been run has an execution row;
* `WriteInv`: there is one write pass (the write permit), and neither what it polled nor what it is
  claiming has been run.

The argument for "at most once": `PendingDecisions` returns only decisions without an execution row,
so by `RunsInv` they have not been run; the permit keeps every other pass from running them; and the
run takes the decision out of the pass. The claim itself, being idempotent, does not help:
it answers a repeated claim as it answered the first. The proof has one lemma per action, which
follow from frame lemmas for the parts an action leaves alone. `FinalStaysFinal` is a case split over the handlers: the transition table
has no way out of a final status, and `TablesAgree` says that the guards of the handlers that write
the status unconditionally (no proposal, an open proposal, an execution that is EXECUTING) are
false for a final command.

**`TransfersProofs.tla`** (`TransfersInvariant`, `TransfersTypeOK` and the two properties). Version numbers of the
source only grow, except that the file may vanish, so two checks that find the announced version bracket every
read between them: `BracketInv` says, per step of the pass, that *if the file still is the announced
version* then the hash (after it was computed) or the object (after the upload) is of that version. The second check
turns the condition into a fact, and `QueuedInv` carries it in the outbox until the completion is
delivered. `JobInv` keeps the object of a READY transfer: it is deleted only through a job, and only a finished
transfer has one. `AnsweredInv` says that the answer that settled an outbox item stays true of the row.

**`AutoProposalsProofs.tla`** (`AutoProposalsInvariant`, `AutoProposalsTypeOK` and the two properties). While `extras =
0` the tick is alone and
every request is answered, so `QuietInv` can say which commands and proposals exist at each
of its steps: a submission that counted no open proposal still finds none when it inserts, and nothing is left in
the outbox or ANALYZING for the passes that follow.

**`BackgroundProofs.tla`** (`BackgroundInvariant` and the two properties). `ServerInv`: the committed events are numbered
`1..Latest` without gaps and at most one transaction has appended, with the numbers that follow. `ReaderInv`: the events acted on are
the first `Len(acted)` of the log; every cursor, in memory or saved, is at most `Len(acted)`; a page continues where its
reader stopped, so that acting on its head repeats an event or extends `acted` by the next one. The
refinement follows: a commit appends to `InOrder(rows)`, acting on an event appends to `acted` or stutters, every other
step stutters, a cursor that goes back, a restart and a new pairing included.

**`ManagedRootsProofs.tla`**. The window and the background are at work at the same time, for any number of rooms,
pairings, rules and faults.
`TypeInv` and `JobInv` say what a thread at each step holds, `OwnInv` whose folder a room is, `ServerInv` that the log names closed rooms.
`PolicyInv`: a folder with a policy, in memory or saved, is registered or is about to be
written, and the unregistration drops the policy first. `ShutInv`: every active device is the credential's or
`overtaken`, and what a detachment under way is about to
take is closed or `overtaken`, in memory, in the table and in the rows still to be written; this gives `RootsDetachedMeansClosed`.
`MirrorInv`: the table has memory's row or that row is still to be written, unless a write failed or was late; at rest
nothing is to be written.
`DisjointInv`: the folders of memory together with those of the rows written in time (`Held`) do not overlap; a
registration looks at memory only, and what the
table has beyond memory is what a removal under way is about to delete.

**`FileIndexProofs.tla`**. Any number of threads may be at work.

* `IndexClearedIsNeverSearched` rests on `SearchInv`: while the background thread is about to read a page, the index is built, or
  the root is detached and the window is not about to bind it again. The preflight rebuild of
  `ensure_agent_room` is what keeps the second case from becoming an active binding with a cleared index.
* `IndexPagesAreExact` needs what holds of a search between two of its pages, while the user edits the folder and other threads work on the
  index (`PageInv`): as long as the generation is the cursor's (`Fitting`), the pages are in the order of the index and among its first
  `offset` rows, every hit of the first page that stayed on disk still is a hit, and those among the first `offset` rows
  have been shown. Every commit that changes a row also changes the generation, which ends the search (`StillKeeps`).
  `PageFacts` says what the
  cursor's arithmetic has to: a page has the hits up to the row of the next offset and no others, rows that are skipped
  because they are no hits any
  more included. For a listing `Listed` says the same of the entries of a directory that does not change. `SeekInv` ties the
  background thread to the request it answers.

**`SmartCacheProofs.tla`** (`SmartCacheInvariant`, `SmartCacheTypeOK` and the three properties). The invariant has four parts.

* `WatchInv`: the marks are numbered in the order they are queued, so a mark queued while the flush has an earlier one
  in hand differs from it, and the answer to the
  earlier one does not settle it.
* `BackedInv`: a version of a file is reserved once, ever (`ReservationInv`), so the row, the reservation and the object of a
  copy belong together, and what is evicted, cancelled or deleted belongs to another copy. A completion that has passed its check holds
  its reservation and the room (`CommitInv`); whatever a completion is sent for was uploaded, and its object is only gone if the
  completion can no longer succeed (`UploadInv`). `ItemInv` says what an item of the outbox refers to.
* `ReportInv`: an overwritten copy that is still shown as current is excused (`Excused`): its path is pending with a
  watcher, in the change in its hands, in a mark of
  the outbox, lost on the way, or the edit overtook the completion. A mark whose acceptance the flush has in hand has
  left no copy of its path current but for those (`MarkInv`):
  dropping it drops nothing else.
* `QuotaInv`: `uncounted` holds completed reservations, and what a batch has not summed is among those recorded since it
  began (`CountInv`). A change of the policy sums in the
  same two steps, and what it has not summed is bounded in the same way (`SettingInv`). With
  the invariant of submit's loop, that its running total is the two sums less the evicted copies plus the new reservations, and within the
  quota once anything is reserved, this gives the bound for the batch that commits.

What submit's loop leaves is proved by induction over its turns (`LoopHolds`). The library's induction theorems take an
operator, which these
provers cannot instantiate; `Induction` states the principle for a set of numbers and is derived from the well-foundedness
of the natural numbers. The turns are shown to be a function (`RunsExist`) by the same means, and a finite set to have a first
element in a total order (`FirstElement`), which is what makes `FirstCandidate` and `FirstEvicted` members of their sets.

Only model-checked:

* all liveness (`ApprovedIsSettled`, `CommandSettles`, `OrphansSettle`, `FindingsAreOffered`, `Converges`,
  `EventsAreActedOn`, `RevocationIsNoticed`, `Settles`, `ObjectsAreDeleted`): fairness and ENABLED are out of the prover's reach;
* the four properties of Rules (`GlobIsComplete`, `DraftMeansItsConditions`, `AutoDecisionsAreAccepted`, `DraftComesToRest`): they are about
  what recursive functions, folds and sorts compute, and each needs an induction over the pattern, the conditions or the findings
  that has not been carried out;
* `RemovedRoomIsDetached` of ManagedRoots: the invariant has to tie the page in the tick's hands to the cursor, which
  has not been written down yet;
* `UndoAllRestores` of FileEngine (undo over a whole journal, backwards): it needs an induction over the rows, which has
  not been carried out either.

## 13 Known deviations

The code departs from a sentence of its docs or comments in the following places. `managed_roots_mirror` keeps one of them
as a run. For the others the checked properties state the exception, and dropping the exception or lifting the bound
named here shows the counterexample.
For three of them a cfg is kept that does so: `BackgroundBlocked.cfg` (with `MCBackground`), `FileEngineHistory.cfg` and
`FileEngineTrash.cfg` (with `MCFileEngine`).

* **The database falls behind** (`storage/managed_roots.rs:154`): the map changes under its lock and a clone of the row
  is written after the lock is released. Of two
  operations of the tick and the window, the one that changed memory first may write last; the table then has a row
  memory has left, and the next start loads it. `managed_roots.rs:51`: "the database
  mirrors it so registrations survive restarts". Run `managed_roots_mirror`. For the same reason `StoreLoads` and
  `RemovedRoomIsDetached` leave out the `late` roots: a row written back after the window
  removed the root, next to an overlapping folder registered since, keeps the desktop from starting.
* **A rule of a closed room blocks the replay** (`background.rs:1059`): `list_rules` answers 404, the error ends the
  replay before the cursor is stored, and the tick returns at `:599`, for
  ever; a later removal is never applied. The comment at `background.rs:350` says that the loop "still
  reconciles everything". `BackgroundBlocked.cfg` checks `EverythingReconciles`, which is `EventsAreActedOn` without `Blocked`.
* **A removal that is replayed too early** (`storage/managed_roots.rs:243`): `bind_room` does not ask whether the room
  is still open. A room closed, and its removal replayed, between the answer
  and the binding stays bound; so does one whose bound row is loaded after a restart because it was not yet detached in
  the table when the replay passed over it. `RemovedRoomIsDetached` without `missed`.
* **A revocation that a new pairing overtakes** (`commands/agent.rs:1431`): the heartbeat's refusal, or the window's
  unpairing, detaches all active roots after an await, those of a new pairing included.
  `DetachedMeansClosed` without `overtaken`.
* **The index of a desktop that is not paired** (`watcher_lifecycle.rs:36`): the rebuild comes before the watcher is
  registered, and an edit between the two is in neither. The tick would
  reconcile it, but an unpaired, offline or blocked desktop never gets there: the index stays wrong until the file
  changes again. `Converges` without its hypothesis.
* **History and a folder that is in the way** (`undo.rs:175`): undo makes the original directory first, which fails when
  a file has taken its name, and cannot copy a backup over a directory called README.md; History
  looks at neither and shows the operation as undoable. `journal.rs:383`: "Mirrors the live-filesystem checks
  `undo::undo_operation` makes right before moving a file back, so History can tell
  the user *why* an executed operation would fail to undo". `FileEngineHistory.cfg` checks it without `Unforeseen`.
* **A plan-only row of a trash** (`journal.rs:549`): it names `.mousekeeper_trash` as the destination. Once the file was
  trashed, a second approval of the same proposal finds the source gone and the trash directory there,
  takes that for the completed move, and undo then renames the whole trash directory to the file's path. The test at
  `trash.rs:320` says that undoing a trash restores the file. `FileEngineTrash.cfg`
  checks `TrashedFileComesBack`; in the quiet run `misread` and `TrashRenamed` record it.
* **More than a page of events** (`background.rs:1042`). The comment at `background.rs:589` has a tick fail closed when the replay fails; a
  tick that read one page of 100 goes on although a removal may be further down. `WorkIsCurrent` without `~more`.
* **A destination created between check and rename is replaced** (`execute.rs:393`). `docs/FILE_ENGINE_CLI.md:264`: "Existing destination
  files are not overwritten." `file_engine_user` with `"checked"` in `UserMayActAt` violates `NoDataLost`.
* **Undo of a README write discards later edits** (`undo.rs:355`). `docs/FILE_ENGINE_CLI.md:267`: "Undo refuses to
  overwrite an existing original path."
* **A planned move may be taken for a completed one** (`execute.rs:431`): whatever is at the destination counts.
  `docs/FILE_ENGINE_CLI.md:266`
  speaks of "completed moves". `misread` records it, and `UndoAllRestores` leaves those states out.
* **A later item of a batch moves what an earlier one put there** (`execute.rs:370`): all items are prechecked before the first is executed.
  `docs/FILE_SAFETY_INVARIANTS.md:11` asks for the check right before execution.
* **History and an interrupted undo** (`journal.rs:347`): History shows the operation as not undoable, undo would go on
  with it. `journal.rs:56`:
  "mirroring what `undo::undo_operation` would actually refuse".
* **A claim whose answer is lost** (`execution_processor.rs:122`), or a crash before the result is queued, leaves the execution EXECUTING.
  `execution_processor.rs:29`: "never leaves a claimed execution without a terminal result upload." `delegation_live`
  with `"write"` in `MayTimeOut`
  violates `ApprovedIsSettled`.
* **The FAILED report of a malformed command is refused** (`command_processor.rs:304`): the command is still QUEUED, not
  "already in ANALYZING"
  (`command_processor.rs:302`), and the dead row blocks its key. `delegation_live` with `Malformed = {c1}` violates `CommandSettles`.
* **The first rule that yields a proposal wins** (`rules/mod.rs:58`), not the first that matches
  (`docs/FILE_ENGINE_CLI.md:78`): a file that is where the
  first rule wants it falls through to the next. Needs a rule set with two overlapping move rules; drafts do not have this form.
* **Two open proposals for a room** (`auto_proposal.rs:88`): a command left in ANALYZING is taken up in the tick that
  opened another proposal.
  `auto_proposal.rs:11`: "at most one autonomous proposal per room at a time". `OneAtATime` without `extras = 0`.
* **A room that nobody removes** (`commands/file_engine.rs:184`): "An unbound root has never granted mobile authority, so there is no
  remote room to revoke" is not so after a creation whose answer was lost.
* **A policy may be inherited after a failed write** (`storage/managed_roots.rs:91`, `commands/file_engine.rs:792`):
  memory keeps a root whose row could not be
  written, a policy can be saved for it, and a restart forgets the root and keeps the policy. `PolicyIsNotInherited` without `unsaved`.
* **An upload that arrives after its deletion** (`server/transfers/transfers.service.ts:476`): cancelling deletes at
  once while the URL is valid. The
  removal of a room waits for this reason (`connection-lifecycle.service.ts:400`). A worker that stops between claim and deletion
  (`worker/src/main.ts:450`) strands the object as well. `ObjectsAreDeleted` excepts both (`stranded`).
* **A copy that cannot be deciphered** (`outbox_processor.rs:170`): a reservation whose completion is queued and not
  delivered is uploaded again under a fresh
  nonce, and the queued completion keeps the first. `outbox_processor.rs:6`: "redelivery is safe". The upload recorded
  in `cached[f].upload` then differs from `objects[key]`.
* **A quota that is exceeded** (`smart-cache.service.ts:344`): a completion between submit's two sums is in neither, and so is one whose
  reservation runs out between its check and its commit. The sums of
  a new policy miss it as well (`:157`). `docs/e2e-scenarios.md:150`: "quota-bound". `QuotaIsKept` without `uncounted`.
* **A stale copy shown as current** (`smart_cache_processor.rs:386`): the mark of an edit after the last check may be
  delivered before the completion.
  `docs/offline-file-cache-plan.md:146`. `OverwrittenIsReported` without `overtaken`.
* **A stale mark that is lost** (`watcher.rs:81`, `watcher_lifecycle.rs:50`): an edit waits for the debounce, the index
  and a scan before its mark is queued. A stop of the watcher or the process in between, an error
  of the outbox (which is only logged), an edit while no watcher runs, and a root that was bound after its watcher
  started leave the copy VERIFIED_CURRENT for good. `OverwrittenIsReported` without `lost`.

## 14 Limits

* File contents and names are tokens; a write is atomic. Permissions and canonical
  paths are not modelled; links only where the index and the rules tell them apart.
* Operation ids come from a counter; in the code they contain a millisecond clock.
* Ownership, audit rows, affinity, notifications and chat messages are left out of the server's
  transactions: none of them guards the modelled columns. Proposals do not expire, since the desktop submits
  none with `expiresAt`.
* AutoProposals has one root and one room that stays open, and lost requests are served at once or not at all (late
  service is in Delegation). The cut of long proposals into 50 items is left out.
* Requests of the background loop are answered within one step: an answer to the old device that arrives after a new
  pairing is not modelled.
* Policies are on or off; a patch of several fields is not modelled.
* The commands of the window come one after the other in ManagedRoots. Two of them at once could break more: a policy patched during an
  unregistration of the same folder is one the next registration inherits.
* `delegation_safe` has no command from a chat (`FromChat = {}`); `delegation_live` has, and theorem `TablesAlwaysAgree` covers both.
* Marks of folders and the whole download path are left out of SmartCache.
* The newer modules define `TypeOK` as documentation of their state; their runs spend their
  properties on behaviour. For Transfers, AutoProposals and SmartCache it is proved; adding `INVARIANT TypeOK` to a cfg checks it elsewhere.

*Not modelled.* The cleanliness score is a closed formula, and the order of snapshots is planned. Chat and agent runs
call external models. The Flutter
and React screens are presentation.
