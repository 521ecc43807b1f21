----------------------------- MODULE Background -----------------------------
(***************************************************************************)
(* The background runtime of the desktop and the sync log it follows:      *)
(* background.rs (start, pause, the loop, its ticks and their phases), the *)
(* replay command of commands/agent.rs, the cursor store                   *)
(* storage/agent_sync.rs, the pairing state of agent.rs, and on the server *)
(* the numbering of events (sync.service.ts), the rules, rooms and devices *)
(* whose events the desktop acts on, and the realtime wake-up.             *)
(*                                                                         *)
(* What the phases of a tick do is in the other modules; here a phase is a *)
(* request that may be refused, lost or answered with the verdict that the *)
(* device is gone.  The folders keep their rooms as in ManagedRoots; no    *)
(* new room is bound here.                                                 *)
(***************************************************************************)
EXTENDS Integers, Sequences, FiniteSets, SequencesExt

CONSTANTS
    Rooms,        \* rooms of the first device, open and bound at the start
    Writers,      \* server requests in progress at the same time
    PageSize,     \* events per replay (100 in background.rs)
    FastEvery,    \* BACKGROUND_FAST_RECONCILE_EVERY_TICKS
    FullEvery,    \* BACKGROUND_FULL_RECONCILE_EVERY_TICKS
    MaxEvents,    \* events the server ever commits
    MaxDevices,   \* pairings
    MaxExtras     \* commands from the window, lost requests, failing writes and crashes

ASSUME BackgroundAssumption ==
    /\ PageSize \in Nat \ {0} /\ FastEvery \in Nat \ {0} /\ FullEvery \in Nat \ {0}
    /\ MaxEvents \in Nat /\ MaxDevices \in Nat \ {0} /\ MaxExtras \in Nat /\ IsFiniteSet(Rooms)

Devices == 1..MaxDevices
Threads == {"loop", "window"}
Event(seq, kind, of) == [seq |-> seq, kind |-> kind, of |-> of]
NoTx == [pc |-> "idle", kind |-> "none", of |-> 0, events |-> {}]
Resting == [pc |-> "idle", mode |-> "none", device |-> 0, upTo |-> 0, page |-> <<>>,
            more |-> FALSE, seen |-> 0]

VARIABLES
    rows,         \* server: committed sync events
    tx,           \* server: what each open transaction has inserted
    open,         \* server: active rooms
    device,       \* server: the active device of the user, or 0
    paired,       \* server: devices ever paired
    credential,   \* AgentState.credential: the device the desktop is paired as, or 0
    absent,       \* AgentState.state is Revoked: a request was answered with the verdict
    cursor,       \* AgentSyncStore.cursors: device -> last sequence
    saved,        \* the table sync_cursors
    bound,        \* rooms whose binding is active in the managed root store
    task,         \* BackgroundRuntime.task: none, alive, or ended while still stored
    starting,     \* start has spawned the loop and has not written the status yet
    status,       \* BackgroundRuntimeStatus: running, revoked (suspended with that reason), paused
    wake,         \* the Notify holds a permit
    tick,         \* scheduled_tick_count modulo FullEvery
    op,           \* what the loop and the window's replay command are doing
    acted,        \* events acted on, in the order of the first time (recorded)
    extras        \* commands and faults so far

server == <<rows, tx, open, device, paired>>
agent == <<credential, absent>>
store == <<cursor, saved>>
runtime == <<task, starting, status, tick>>
vars == <<rows, tx, open, device, paired, credential, absent, cursor, saved, bound, task,
          starting, status, wake, tick, op, acted, extras>>

Extra == extras < MaxExtras /\ extras' = extras + 1

Init ==
    /\ rows = {} /\ tx = [w \in Writers |-> NoTx]
    /\ open = Rooms /\ bound = Rooms /\ device = 1 /\ paired = 1
    /\ credential = 1 /\ absent = FALSE
    /\ cursor = [d \in Devices |-> 0] /\ saved = cursor
    /\ task = "alive" /\ starting = FALSE /\ status = "running" /\ wake = FALSE /\ tick = 0
    /\ op = [t \in Threads |-> IF t = "loop" THEN [Resting EXCEPT !.pc = "first"] ELSE Resting]
    /\ acted = <<>> /\ extras = 0

-----------------------------------------------------------------------------
(* The server.                                                             *)

Latest == IF rows = {} THEN 0 ELSE (CHOOSE e \in rows : \A f \in rows : f.seq <= e.seq).seq
Pending == UNION {tx[w].events : w \in Writers}
\* A serial column: numbers are given out when rows are inserted, without the lock.
SerialSequence(w) ==
    {n \in 1..MaxEvents : \A m \in 1..MaxEvents : m < n <=> \E e \in rows \cup Pending : e.seq = m}
\* SyncService.append: the advisory lock of the user is held to the end of the transaction,
\* and the next number follows the committed ones.
FirstSequence(w) == IF \E v \in Writers \ {w} : tx[v].pc = "appended" THEN {} ELSE {Latest + 1}

\* The events a request appends: revokeDevice closes the rooms first.
Appended(kind, of, n) ==
    IF kind # "revoked" THEN {Event(n, kind, of)}
    ELSE LET closing == SetToSeq(open) IN
         {Event(n + i - 1, "removed", closing[i]) : i \in DOMAIN closing}
             \cup {Event(n + Len(closing), "revoked", of)}

\* RulesService.create looks the room up before its transaction.
CreateRule(w, r) ==
    /\ tx[w].pc = "idle" /\ r \in open /\ Latest < MaxEvents
    /\ tx' = [tx EXCEPT ![w] = [NoTx EXCEPT !.pc = "begun", !.kind = "rule", !.of = r]]
    /\ UNCHANGED <<rows, open, device, paired, agent, store, bound, runtime, wake, op, acted, extras>>

\* What may be asked of the server in one transaction, with its row locks: removeRoom,
\* revokeDevice, or the claim of a pairing (one active device), which the desktop ignores.
Asked ==
    {<<"removed", r>> : r \in open} \cup {<<"revoked", d>> : d \in {device} \ {0}}
        \cup (IF device = 0 /\ paired < MaxDevices THEN {<<"paired", paired + 1>>} ELSE {})

AppendEvents(w, kind, of) ==
    \E n \in FirstSequence(w) : LET events == Appended(kind, of, n) IN
        /\ \A e \in events : e.seq <= MaxEvents
        /\ tx' = [tx EXCEPT ![w] = [pc |-> "appended", kind |-> kind, of |-> of, events |-> events]]
        /\ UNCHANGED <<rows, open, device, paired, agent, store, bound, runtime, wake, op, acted, extras>>
AppendRule(w) == tx[w].pc = "begun" /\ AppendEvents(w, tx[w].kind, tx[w].of)
AppendAsked(w) ==
    tx[w].pc = "idle" /\ \E a \in Asked : AppendEvents(w, a[1], a[2])

\* run_realtime_client: a running loop may be woken; events are missed while the socket is
\* down, and pairing is none of them.
RealtimeSignal(kind) == wake' \in {wake} \cup (IF task = "alive" /\ kind # "paired" THEN {TRUE} ELSE {})

\* The transaction commits; the realtime client may be told (publishNow, RealtimeDispatcher).
Commit(w) ==
    /\ tx[w].pc = "appended"
    /\ rows' = rows \cup tx[w].events
    /\ open' = open \ {e.of : e \in {f \in tx[w].events : f.kind = "removed"}}
    /\ device' = CASE tx[w].kind = "revoked" -> 0 [] tx[w].kind = "paired" -> tx[w].of [] OTHER -> device
    /\ paired' = IF tx[w].kind = "paired" THEN tx[w].of ELSE paired
    /\ RealtimeSignal(tx[w].kind)
    /\ tx' = [tx EXCEPT ![w] = NoTx]
    /\ UNCHANGED <<agent, store, bound, runtime, op, acted, extras>>
Abort(w) ==
    /\ tx[w].pc # "idle" /\ Extra
    /\ tx' = [tx EXCEPT ![w] = NoTx]
    /\ UNCHANGED <<rows, open, device, paired, agent, store, bound, runtime, wake, op, acted>>

-----------------------------------------------------------------------------
(* The tick.  The server refuses the token of a device that is not active. *)

Refused == credential # 0 /\ credential # device
Reached == credential # 0 /\ credential = device

At(t, pc) == op[t].pc = pc /\ (t = "loop" => task = "alive")
Goto(t, pc) == op' = [op EXCEPT ![t].pc = pc]
Rest(t) == op' = [op EXCEPT ![t] = Resting]

\* A request is answered with DEVICE_REVOKED or DEVICE_NOT_REGISTERED: record_error drops the
\* credential, whoever asked.
Verdict == Refused /\ credential' = 0 /\ absent' = TRUE
\* mark_suspended and BackgroundTickOutcome::Stop; the finished task stays stored.
Stop ==
    /\ task' = "ended" /\ status' = "revoked" /\ Rest("loop") /\ wake' = FALSE
    /\ UNCHANGED <<starting, tick>>
\* apply_local_device_revoked: every room is detached, the cursor cleared, the device forgotten.
ForgetDevice(d) ==
    /\ bound' = {} /\ cursor' = [cursor EXCEPT ![d] = 0] /\ saved' = [saved EXCEPT ![d] = 0]
    /\ credential' = 0 /\ absent' = FALSE

\* Only realtime events start a reconcile.
HeartbeatMode(n) == "beat"
\* scheduled_tick_mode.
ScheduledTickMode(n) ==
    CASE n % FullEvery = 0 -> "full" [] n % FullEvery # 0 /\ n % FastEvery = 0 -> "fast" [] OTHER -> "beat"

\* run_background_tick begins: an unpaired desktop has nothing to do.
Begin(mode) ==
    op' = [op EXCEPT !["loop"] =
              IF credential = 0 THEN Resting
              ELSE [Resting EXCEPT !.pc = IF mode = "wake" THEN "rooms" ELSE "heartbeat", !.mode = mode]]
FirstTick ==
    /\ At("loop", "first") /\ Begin("full")
    /\ UNCHANGED <<server, agent, store, bound, runtime, wake, acted, extras>>
ScheduledTick ==
    /\ At("loop", "idle") /\ tick' = (tick + 1) % FullEvery /\ Begin(ScheduledTickMode(tick + 1))
    /\ UNCHANGED <<server, agent, store, bound, task, starting, status, wake, acted, extras>>
WakeTick ==
    /\ At("loop", "idle") /\ wake /\ wake' = FALSE /\ Begin("wake")
    /\ UNCHANGED <<server, agent, store, bound, runtime, acted, extras>>

Heartbeat ==
    /\ At("loop", "heartbeat") /\ Reached /\ status' = "running"
    /\ IF op["loop"].mode = "beat" THEN Rest("loop") ELSE Goto("loop", "rooms")
    /\ UNCHANGED <<server, agent, store, bound, task, starting, wake, tick, acted, extras>>
\* Any other error ends the tick; so does a credential that went away in the meantime.
HeartbeatFails ==
    /\ At("loop", "heartbeat") /\ Rest("loop")
    /\ IF credential = 0 THEN UNCHANGED extras ELSE Extra
    /\ UNCHANGED <<server, agent, store, bound, runtime, wake, acted>>
\* Any refusal is taken for being offline.
HeartbeatRefusedIsOffline ==
    /\ At("loop", "heartbeat") /\ Refused /\ Rest("loop")
    /\ UNCHANGED <<server, agent, store, bound, runtime, wake, acted, extras>>
\* DEVICE_REVOKED or DEVICE_NOT_REGISTERED: the desktop forgets the device and the loop ends.
HeartbeatRefused ==
    /\ At("loop", "heartbeat") /\ Refused /\ ForgetDevice(credential) /\ Stop
    /\ UNCHANGED <<server, acted, extras>>

\* sync_unbound_agent_rooms: whatever comes of it the tick goes on, without the replay when
\* there is no device any more.
SyncRooms ==
    /\ At("loop", "rooms")
    /\ \/ UNCHANGED agent \/ Verdict
    /\ Goto("loop", IF credential' = 0 THEN "cleanup" ELSE "replay")
    /\ UNCHANGED <<server, store, bound, runtime, wake, acted, extras>>

-----------------------------------------------------------------------------
(* The replay: background.rs replay_events and the window's                *)
(* replay_agent_events_impl.                                               *)

\* The error is dropped and the tick goes on.
AfterErrorAnyway(t) == IF t = "loop" THEN Goto(t, "cleanup") ELSE Rest(t)
\* An error ends the tick, or the command.
AfterError(t) == Rest(t)
ToWork(row) == [Resting EXCEPT !.pc = "cleanup", !.mode = row.mode, !.more = row.more, !.seen = row.seen]
\* A successful replay: the loop looks whether a verdict came in and goes on with its work.
AfterReplay(t, row) ==
    IF t = "window" THEN Rest(t) /\ UNCHANGED <<runtime, wake>>
    ELSE IF absent THEN Stop
    ELSE op' = [op EXCEPT ![t] = ToWork(row)] /\ UNCHANGED <<runtime, wake>>

\* The cursor is read and the request passes the guard of the server.
Replay(t) ==
    /\ At(t, "replay") /\ Reached
    /\ op' = [op EXCEPT ![t].pc = "read", ![t].device = credential, ![t].upTo = cursor[credential]]
    /\ UNCHANGED <<server, agent, store, bound, runtime, wake, acted, extras>>
ReplayRefused(t) ==
    /\ At(t, "replay") /\ Verdict /\ AfterError(t)
    /\ UNCHANGED <<server, store, bound, runtime, wake, acted, extras>>
ReplayFails(t) ==
    /\ (At(t, "replay") \/ At(t, "read")) /\ AfterError(t)
    /\ IF At(t, "replay") /\ credential = 0 THEN UNCHANGED <<absent, extras>> ELSE Extra /\ absent' = FALSE
    /\ UNCHANGED <<server, credential, store, bound, runtime, wake, acted>>

\* orderBy(asc(sequence)).
InOrder(S) == [i \in 1..Cardinality(S) |-> CHOOSE e \in S : Cardinality({f \in S : f.seq <= e.seq}) = i]
\* SyncService.replay: the next events after the cursor, at most a page.
Page(after) ==
    LET later == InOrder({e \in rows : e.seq > after}) IN
    SubSeq(later, 1, IF Len(later) < PageSize THEN Len(later) ELSE PageSize)
ReadPage(t) ==
    /\ At(t, "read") /\ absent' = FALSE
    /\ LET page == Page(op[t].upTo) IN
       IF page = <<>>
       THEN IF t = "window" THEN Rest(t) ELSE op' = [op EXCEPT ![t] = ToWork([@ EXCEPT !.seen = Latest])]
       ELSE op' = [op EXCEPT ![t].pc = "apply", ![t].page = page, ![t].upTo = Last(page).seq,
                             ![t].more = (Last(page).seq < Latest), ![t].seen = Latest]
    /\ UNCHANGED <<server, credential, store, bound, runtime, wake, acted, extras>>

\* The events of a page, one after the other.
Event1(t) == Head(op[t].page)
Noted(e) == acted' = IF Contains(acted, e) THEN acted ELSE Append(acted, e)
NextEvent(t) ==
    op' = [op EXCEPT ![t].page = Tail(@), ![t].pc = IF Len(op[t].page) = 1 THEN "advance" ELSE @]

\* apply_local_room_detached for room.removed; other events only inform the UI.
ApplyEvent(t) ==
    /\ At(t, "apply") /\ Noted(Event1(t)) /\ NextEvent(t)
    /\ \/ Event1(t).kind = "removed" /\ bound' = bound \ {Event1(t).of} /\ UNCHANGED absent
       \/ Event1(t).kind = "rule" /\ Reached /\ Event1(t).of \in open \cap bound
          /\ absent' = FALSE /\ UNCHANGED bound
       \/ Event1(t).kind = "paired" /\ UNCHANGED <<bound, absent>>
       \/ Event1(t).kind = "revoked" /\ Event1(t).of # op[t].device /\ UNCHANGED <<bound, absent>>
    /\ UNCHANGED <<server, credential, store, runtime, wake, extras>>
\* The revocation of this very device ends the replay; the cursor is not advanced.
ApplyRevoked(t) ==
    /\ At(t, "apply") /\ Event1(t).kind = "revoked" /\ Event1(t).of = op[t].device
    /\ Noted(Event1(t))
    /\ IF credential = 0
       THEN bound' = {} /\ absent' = FALSE /\ UNCHANGED <<credential, cursor, saved>>
       ELSE ForgetDevice(credential)
    /\ IF t = "loop" THEN Stop ELSE Rest(t) /\ UNCHANGED <<runtime, wake>>
    /\ UNCHANGED <<server, extras>>
\* apply_rule_created_event asks for the rules of the room and merges them into the folder bound
\* to it; the server knows no rules of a room that is not active.  A failing write of the rules
\* or the binding and a lost answer are faults.
ApplyRefused(t) ==
    /\ At(t, "apply") /\ Event1(t).kind = "rule" /\ AfterError(t)
    /\ \/ Verdict
       \/ credential = 0 /\ UNCHANGED agent
       \/ Reached /\ Event1(t).of \notin open \cap bound /\ absent' = FALSE /\ UNCHANGED credential
    /\ UNCHANGED <<server, store, bound, runtime, wake, acted, extras>>
ApplyFails(t) ==
    /\ At(t, "apply") /\ Event1(t).kind \in {"rule", "removed"} /\ AfterError(t) /\ Extra
    /\ bound' = IF Event1(t).kind = "removed" THEN bound \ {Event1(t).of} ELSE bound
    /\ UNCHANGED <<server, agent, store, runtime, wake, acted>>

\* AgentSyncStore.advance: the row is written, then the map; the check is on the map as it
\* was before the write.
AdvanceRow(t) ==
    /\ At(t, "advance") /\ LET d == op[t].device IN
       IF op[t].upTo < cursor[d] THEN AfterError(t) /\ UNCHANGED saved
       ELSE /\ saved' = [saved EXCEPT ![d] = IF @ < op[t].upTo THEN op[t].upTo ELSE @]
            /\ Goto(t, "remember")
    /\ UNCHANGED <<server, agent, cursor, bound, runtime, wake, acted, extras>>
AdvanceFails(t) ==
    /\ At(t, "advance") /\ Extra /\ AfterError(t)
    /\ UNCHANGED <<server, agent, store, bound, runtime, wake, acted>>
AdvanceMemory(t) ==
    /\ At(t, "remember") /\ cursor' = [cursor EXCEPT ![op[t].device] = op[t].upTo]
    /\ AfterReplay(t, op[t])
    /\ UNCHANGED <<server, agent, saved, bound, acted, extras>>

-----------------------------------------------------------------------------
(* The work of a tick.                                                     *)

Light == <<"cleanup", "commands", "decisions", "browse", "flush">>
Heavy == <<"cleanup", "commands", "decisions", "index", "browse", "transfers", "cache", "flush">>
Phases == ToSet(Heavy)
Following(phase, mode) ==
    LET order == IF mode = "fast" THEN Light ELSE Heavy
        i == CHOOSE j \in DOMAIN order : order[j] = phase
    IN IF i = Len(order) THEN "idle" ELSE order[i + 1]

\* One phase: its requests are answered, skipped or lost, or one of them brings the verdict;
\* checked when stop_if_agent_revoked follows.
Phase(p, checked) ==
    /\ At("loop", p)
    /\ UNCHANGED agent \/ (checked /\ Verdict)
    /\ IF checked /\ absent' THEN Stop
       ELSE /\ LET next == Following(p, op["loop"].mode) IN
               op' = [op EXCEPT !["loop"] =
                         IF next = "idle" THEN Resting
                         ELSE [Resting EXCEPT !.pc = next, !.mode = op["loop"].mode]]
            /\ UNCHANGED <<runtime, wake>>
    /\ UNCHANGED <<server, store, bound, acted, extras>>
\* process_auto_cleanup and submit_autonomous_proposals, when due: the check comes with them.
AutoCleanup == \E due \in BOOLEAN : Phase("cleanup", due)
PendingCommands == Phase("commands", TRUE)
PendingDecisions == Phase("decisions", TRUE)
ReconcileIndexes == Phase("index", FALSE)
FileBrowse == Phase("browse", TRUE)
FileTransfers == Phase("transfers", TRUE)
SmartCacheRooms == Phase("cache", TRUE)
FlushOutbox == Phase("flush", TRUE)

-----------------------------------------------------------------------------
(* The window, the tray and the process.                                   *)

\* start spawns a loop unless one is stored; a task that ended with the device is replaced.
Start ==
    /\ Extra /\ ~starting
    /\ IF absent
       THEN status' = "revoked" /\ UNCHANGED <<task, starting, tick, wake, op>>
       ELSE IF task # "none" /\ status # "revoked"
       THEN UNCHANGED <<runtime, wake, op>>
       ELSE /\ task' = "alive" /\ starting' = TRUE /\ tick' = 0 /\ wake' = FALSE
            /\ op' = [op EXCEPT !["loop"] = [Resting EXCEPT !.pc = "first"]]
            /\ UNCHANGED status
    /\ UNCHANGED <<server, agent, store, bound, acted>>
\* The status is written after the task's lock is released.
StartStatus ==
    /\ starting /\ starting' = FALSE /\ status' = "running"
    /\ UNCHANGED <<server, agent, store, bound, task, tick, wake, op, acted, extras>>
\* pause stops and aborts the task.
Suspend == task' = "none" /\ status' = "paused" /\ wake' = FALSE /\ Rest("loop")
Pause ==
    /\ Extra /\ Suspend
    /\ UNCHANGED <<server, agent, store, bound, starting, tick, acted>>
\* replay_agent_events from the window, next to the loop.
ReplayAgentEvents ==
    /\ Extra /\ At("window", "idle") /\ credential # 0 /\ Goto("window", "replay")
    /\ UNCHANGED <<server, agent, store, bound, runtime, wake, acted>>
\* revoke_agent_device after the server has revoked the device.
RevokeAgentDevice ==
    /\ Extra /\ Refused /\ Suspend /\ ForgetDevice(credential)
    /\ UNCHANGED <<server, starting, tick, acted>>
\* start_pairing shows a code; poll_pairing saves the credential once the code was claimed.
StartPairing ==
    /\ credential = 0 /\ absent /\ absent' = FALSE
    /\ UNCHANGED <<server, credential, store, bound, runtime, wake, op, acted, extras>>
PollPairing ==
    /\ credential = 0 /\ ~absent /\ device # 0 /\ credential' = device
    /\ UNCHANGED <<server, absent, store, bound, runtime, wake, op, acted, extras>>
\* The process ends and is started again: load_from_db, then start.
Restart ==
    /\ Extra /\ cursor' = saved /\ absent' = FALSE
    /\ task' = "alive" /\ starting' = FALSE /\ status' = "running" /\ wake' = FALSE /\ tick' = 0
    /\ op' = [t \in Threads |-> IF t = "loop" THEN [Resting EXCEPT !.pc = "first"] ELSE Resting]
    /\ UNCHANGED <<server, credential, saved, bound, acted>>

ServerStep == \E w \in Writers :
    (\E r \in Rooms : CreateRule(w, r)) \/ AppendRule(w) \/ AppendAsked(w) \/ Commit(w) \/ Abort(w)
ReplayStep(t) ==
    \/ Replay(t) \/ ReplayRefused(t) \/ ReplayFails(t) \/ ReadPage(t)
    \/ ApplyEvent(t) \/ ApplyRevoked(t) \/ ApplyRefused(t) \/ ApplyFails(t)
    \/ AdvanceRow(t) \/ AdvanceFails(t) \/ AdvanceMemory(t)
LoopStep ==
    \/ FirstTick \/ ScheduledTick \/ WakeTick \/ Heartbeat \/ HeartbeatFails \/ HeartbeatRefused
    \/ SyncRooms \/ ReplayStep("loop")
    \/ AutoCleanup \/ PendingCommands \/ PendingDecisions \/ ReconcileIndexes \/ FileBrowse
    \/ FileTransfers \/ SmartCacheRooms \/ FlushOutbox
WindowStep ==
    \/ ReplayStep("window") \/ Start \/ StartStatus \/ Pause \/ ReplayAgentEvents
    \/ RevokeAgentDevice \/ StartPairing \/ PollPairing

Next == ServerStep \/ LoopStep \/ WindowStep \/ Restart

\* The loop's task is scheduled and its five-second timer fires; nobody has to press a button.
Spec == Init /\ [][Next]_vars /\ WF_vars(LoopStep)

-----------------------------------------------------------------------------
(* Properties.                                                             *)

\* Types of the log, the pairing, the cursors and the two threads.
TypeOK ==
    /\ rows \subseteq [seq : 1..MaxEvents, kind : {"rule", "removed", "revoked", "paired"},
                       of : Rooms \cup 0..MaxDevices]
    /\ \A w \in Writers : tx[w].pc \in {"idle", "begun", "appended"}
    /\ open \subseteq Rooms /\ bound \subseteq Rooms
    /\ device \in 0..paired /\ paired \in Devices /\ credential \in 0..paired /\ absent \in BOOLEAN
    /\ cursor \in [Devices -> 0..MaxEvents] /\ saved \in [Devices -> 0..MaxEvents]
    /\ task \in {"none", "alive", "ended"} /\ status \in {"running", "revoked", "paused"}
    /\ starting \in BOOLEAN /\ wake \in BOOLEAN /\ tick \in 0..FullEvery - 1
    /\ absent => credential = 0
    /\ \A t \in Threads : op[t].pc \in {"idle", "first", "heartbeat", "rooms", "replay", "read", "apply",
                                       "advance", "remember"} \cup Phases

\* The numbering of sync.service.ts, the paged replay, the cursor that is only advanced after a
\* page, restarts, re-pairings and the window's own replay together implement EventLog: no
\* event is ever inserted before one that was visible, and none is skipped or taken out of order.
Log == INSTANCE EventLog WITH
    log <- InOrder(rows), acted <- acted
EventsInOrder == Log!Spec

\* The work of a tick runs with the rooms as the log had them when this tick replayed it (the
\* fail-closed comment of background.rs), unless the log went on after its page.
Outdated == {e \in rows : e.kind = "removed" /\ e.seq <= op["loop"].seen /\ e.of \in bound}
WorkIsCurrent == op["loop"].pc = "cleanup" /\ ~op["loop"].more => Outdated = {}

\* A rule of a room that was closed since stands in the way of the replay.
Blocked ==
    Reached /\ \E e \in rows : e.kind = "rule" /\ e.of \notin open /\ e.seq > cursor[credential]
Running == task = "alive" /\ Reached
CaughtUp == Len(acted) = Cardinality(rows)
\* Without any realtime event the desktop catches up with the log as long as its loop runs for
\* the active device, unless a rule of a closed room blocks the replay (the log ends in a run).
EventsAreActedOn == []<>(CaughtUp \/ ~Running \/ Blocked)
\* The same with no exception: "a disconnect or missed event only costs latency, not
\* correctness - the interval REST loop still reconciles everything".
EverythingReconciles == []<>(CaughtUp \/ ~Running)

\* A revoked desktop finds out as long as its loop runs, even if no event reaches it.
RevocationIsNoticed == []<>~(task = "alive" /\ Refused)
=============================================================================
