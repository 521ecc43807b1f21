---------------------------- MODULE ManagedRoots ----------------------------
(***************************************************************************)
(* The registered folders of the desktop and their binding to the rooms of *)
(* the server: storage/managed_roots.rs, storage/auto_approval.rs, the     *)
(* pairing, room and revocation commands of commands/agent.rs and          *)
(* commands/file_engine.rs, their requests in agent.rs, the replay of the  *)
(* sync log (background.rs, storage/agent_sync.rs) and the server's side   *)
(* of rooms and devices (connection-lifecycle.service.ts).                 *)
(*                                                                         *)
(* Every store operation changes the map in memory under its lock and      *)
(* writes the row to SQLite after the lock is released; a crash, a failing *)
(* write, a lost answer or the phone may come in between.                  *)
(***************************************************************************)
EXTENDS Integers, Sequences, FiniteSets, SequencesExt

CONSTANTS
    Paths,         \* folders; a root's id is the hash of its path
    Overlaps,      \* pairs of folders of which one contains the other
    Toggled,       \* folders the user disables and enables again
    Automated,     \* folders whose auto approval policy the user changes
    Linked,        \* folders that are bound to rooms
    MaxRooms,      \* rooms the server ever creates
    MaxDevices,    \* pairings
    MaxRules,      \* rules the phone creates
    MaxFaults,     \* crashes, failing writes and lost answers
    MaxIncidents   \* rooms, pairings, rules and faults together

ASSUME RootsAssumption ==
    /\ MaxRooms \in Nat /\ MaxDevices \in Nat /\ MaxRules \in Nat /\ MaxFaults \in Nat /\ MaxIncidents \in Nat
    /\ IsFiniteSet(Paths) /\ (Linked \cup Toggled \cup Automated) \subseteq Paths /\ Overlaps \subseteq Paths \X Paths
    /\ \A a, b \in Paths : <<a, b>> \in Overlaps => <<b, a>> \in Overlaps

Threads == {"window", "background"}
Rooms == 1..MaxRooms
NoRow == [status |-> "absent", enabled |-> FALSE, room |-> 0]
Row(status, enabled, room) == [status |-> status, enabled |-> enabled, room |-> room]
Idle == [pc |-> "idle", path |-> CHOOSE p \in Paths : TRUE, room |-> 0, remove |-> FALSE,
         writes |-> <<>>, batch |-> <<>>, upTo |-> 0, device |-> 0]

VARIABLES
    memory,        \* ManagedRootStore.roots: path -> row; room is room_id when active
                   \* and detached_room_id when detached
    database,      \* the table managed_roots
    policies,      \* AutoApprovalStore.policies: path -> absent, off or on
    savedPolicies, \* the table auto_approval_policies
    credential,    \* device the desktop is paired as (keyring and memory), or 0
    cursor,        \* AgentSyncStore's cursor of that device
    devices,       \* server: devices that were paired and not revoked
    paired,        \* server: devices ever paired
    rooms,         \* server: rooms created, [root, device, open]
    log,           \* server: sync events of the user
    op,            \* what each thread is doing
    faults,        \* faults so far
    unsaved,       \* folders a write of whose row failed (recorded for the properties)
    inherited,     \* folders registered anew that found a policy (recorded)
    late,          \* folders of which a row was written that memory had left behind (recorded)
    overtaken,     \* devices paired while a revocation was being carried out (recorded)
    missed         \* rooms whose removal a restart may forget (recorded)

server == <<devices, paired, rooms, log>>
local == <<memory, policies, credential, cursor>>
disk == <<database, savedPolicies>>
ghosts == <<unsaved, inherited, late, overtaken, missed>>
vars == <<memory, database, policies, savedPolicies, credential, cursor, devices, paired,
          rooms, log, op, faults, unsaved, inherited, late, overtaken, missed>>

-----------------------------------------------------------------------------
(* The store.                                                              *)

Present(p) == memory[p].status # "absent"
Registered(table) == {p \in DOMAIN table : table[p].status # "absent"}
\* validate_no_overlaps.
Disjoint(table) == \A p, q \in Registered(table) : p # q => <<p, q>> \notin Overlaps
\* No test at all.
AnyPlace(p) == TRUE
\* ensure_not_overlapping: against every other root in memory.
EnsureNotOverlapping(p) == \A q \in Registered(memory) \ {p} : <<p, q>> \notin Overlaps

PutRoot(p, row) == [table |-> "roots", path |-> p, row |-> row, policy |-> "absent"]
PutPolicy(p, policy) == [table |-> "policies", path |-> p, row |-> NoRow, policy |-> policy]

\* find_by_room and the search of detach_room: the active room or the tombstone.
FindByRoom(r) == {p \in Paths : memory[p].status \in {"active", "detached"} /\ memory[p].room = r}

\* Any root of the room's folder, whatever room it has now.
DetachedByRoot(r) ==
    {p \in Paths : r \in DOMAIN rooms /\ p = rooms[r].root /\ memory[p].status = "active"}
\* apply_local_room_detached: the root of the room unless it is detached already.
DetachedBy(r) == {p \in FindByRoom(r) : memory[p].status # "detached"}

IsIdle(t) == op[t].pc = "idle"
\* The thread goes on at pc after its writes.
After(job, pc, writes) ==
    IF pc = "end" /\ writes = <<>> THEN Idle ELSE [job EXCEPT !.pc = pc, !.writes = writes]
Goto(t, pc, writes) == op' = [op EXCEPT ![t] = After(@, pc, writes)]
Done(t) == op' = [op EXCEPT ![t] = Idle]
\* A store operation that is all the thread does.
Begin(t, writes) == op' = [op EXCEPT ![t] = After(Idle, "end", writes)]
At(t, pc) == op[t].pc = pc /\ op[t].writes = <<>>
RulesCreated == Cardinality({i \in DOMAIN log : log[i].type = "rule.created"})
More == Len(rooms) + paired + RulesCreated + faults < MaxIncidents
Fault == faults < MaxFaults /\ More /\ faults' = faults + 1

Init ==
    /\ memory = [p \in Paths |-> NoRow] /\ database = memory
    /\ policies = [p \in Paths |-> "absent"] /\ savedPolicies = policies
    /\ credential = 0 /\ cursor = 0
    /\ devices = {} /\ paired = 0 /\ rooms = <<>> /\ log = <<>>
    /\ op = [t \in Threads |-> Idle] /\ faults = 0
    /\ unsaved = {} /\ inherited = {} /\ late = {} /\ overtaken = {} /\ missed = {}

\* upsert_root, delete_persisted and the policy store's writes, one row at a time: the row
\* as it was when the operation changed it, whatever another thread has made of it since.
Persist(t) ==
    /\ op[t].writes # <<>>
    /\ LET w == Head(op[t].writes) IN
       \/ /\ w.table = "roots" /\ database' = [database EXCEPT ![w.path] = w.row]
          /\ late' = IF w.row = memory[w.path] THEN late ELSE late \cup {w.path}
          /\ UNCHANGED savedPolicies
       \/ /\ w.table = "policies" /\ savedPolicies' = [savedPolicies EXCEPT ![w.path] = w.policy]
          /\ UNCHANGED <<database, late>>
    /\ Goto(t, op[t].pc, Tail(op[t].writes))
    /\ UNCHANGED <<local, server, faults, unsaved, inherited, overtaken, missed>>

\* A write fails and the operation ends with its error; detach_all_rooms writes no further
\* row either, but apply_local_device_revoked goes on to forget the device.
PersistFails(t) ==
    /\ op[t].writes # <<>> /\ Fault
    /\ IF op[t].pc = "forget" THEN op' = [op EXCEPT ![t].writes = <<>>] ELSE Done(t)
    /\ unsaved' = unsaved \cup {w.path : w \in {v \in Range(op[t].writes) : v.table = "roots"}}
    /\ UNCHANGED <<local, disk, server, inherited, late, overtaken, missed>>

-----------------------------------------------------------------------------
(* Commands that change a root.                                            *)

\* register_managed_root_in_store: a fresh row, also over an existing one.
RegisterManagedRoot(p) ==
    /\ IsIdle("window") /\ EnsureNotOverlapping(p)
    /\ memory' = [memory EXCEPT ![p] = Row("unbound", TRUE, 0)]
    /\ Begin("window", <<PutRoot(p, memory'[p])>>)
    /\ inherited' = IF ~Present(p) /\ policies[p] # "absent" THEN inherited \cup {p} ELSE inherited
    /\ UNCHANGED <<policies, credential, cursor, disk, server, faults, unsaved, late, overtaken, missed>>

\* update_state.
UpdateState(p, enabled) ==
    /\ IsIdle("window") /\ Present(p)
    /\ memory' = [memory EXCEPT ![p].enabled = enabled]
    /\ Begin("window", <<PutRoot(p, memory'[p])>>)
    /\ UNCHANGED <<policies, credential, cursor, disk, server, faults, ghosts>>

\* update_health by a command that starts a watcher or by the reconciliation of the tick: it
\* keeps the fields modelled here as they are and writes the whole row all the same.
UpdateHealth(t, p) ==
    /\ IsIdle(t) /\ Present(p)
    /\ Begin(t, <<PutRoot(p, memory[p])>>)
    /\ UNCHANGED <<local, disk, server, faults, ghosts>>

\* AutoApprovalStore::patch: enabled is set before the rest of the patch is validated,
\* so that a refused patch stays in memory and is not written.
PatchPolicy(p, policy, valid) ==
    /\ IsIdle("window") /\ Present(p)
    /\ policies' = [policies EXCEPT ![p] = policy]
    /\ IF valid THEN Begin("window", <<PutPolicy(p, policy)>>) ELSE UNCHANGED op
    /\ UNCHANGED <<memory, credential, cursor, disk, server, faults, ghosts>>

-----------------------------------------------------------------------------
(* Rooms.                                                                  *)

Start(t, pc, p, r, remove) ==
    op' = [op EXCEPT ![t] = [Idle EXCEPT !.pc = pc, !.path = p, !.room = r, !.remove = remove]]

\* ensure_agent_room by the window for a root the user chose; sync_unbound_agent_rooms
\* for the roots that were never bound.  Both pass preflight_agent_room_binding.
EnsureAgentRoom(t, p) ==
    /\ IsIdle(t) /\ Present(p) /\ memory[p].enabled /\ credential # 0
    /\ t = "background" => memory[p].status = "unbound"
    /\ Start(t, "room", p, 0, FALSE)
    /\ UNCHANGED <<local, disk, server, faults, ghosts>>

\* record_error: the server's verdict that the device is gone deletes the credential.
RefusedAt(t, pc) ==
    /\ At(t, pc) /\ credential \notin devices
    /\ credential' = 0 /\ cursor' = 0 /\ Done(t)
    /\ UNCHANGED <<memory, policies, disk, server, faults, ghosts>>

OpenRoomsOf(p) == {r \in DOMAIN rooms : rooms[r].open /\ rooms[r].root = p /\ rooms[r].device = credential}

\* ensure_room_for_root: the device's open room with the root's alias, or a new one.
\* When the answer is lost, the command ends and the room stays.
EnsureRoomForRoot(t) ==
    /\ At(t, "room") /\ credential \in devices
    /\ LET p == op[t].path IN
       \E r \in Rooms :
         /\ \/ r \in OpenRoomsOf(p) /\ UNCHANGED rooms
            \/ OpenRoomsOf(p) = {} /\ r = Len(rooms) + 1 /\ More
               /\ rooms' = Append(rooms, [root |-> p, device |-> credential, open |-> TRUE])
         /\ \/ op' = [op EXCEPT ![t].pc = "bind", ![t].room = r] /\ UNCHANGED faults
            \/ Fault /\ Done(t)
    /\ UNCHANGED <<local, disk, devices, paired, log, ghosts>>

\* The server cannot be reached.
EnsureRoomFails(t) ==
    /\ At(t, "room") /\ credential \in devices
    /\ Done(t)
    /\ UNCHANGED <<local, disk, server, faults, ghosts>>

\* ensure_active_room_binding for work the phone sent to an open room: an unbound root is
\* adopted; every other state changes nothing.
EnsureActiveRoomBinding(r) ==
    /\ IsIdle("background") /\ credential \in devices
    /\ r \in DOMAIN rooms /\ rooms[r].open /\ rooms[r].device = credential
    /\ memory[rooms[r].root].status = "unbound"
    /\ Start("background", "bind", rooms[r].root, r, FALSE)
    /\ UNCHANGED <<local, disk, server, faults, ghosts>>

\* The removal of room r is still to be replayed.
Removed(r) == [type |-> "room.removed", id |-> r]
Replayed == IF op["background"].pc = "events" THEN op["background"].upTo - Len(op["background"].batch) ELSE cursor
ToCome(r) == \E i \in DOMAIN log : i > Replayed /\ log[i] = Removed(r)

\* bind_room: refused when the root is gone or another root has the room.  Whether the room
\* is still open is not asked.
BindRoom(t) ==
    /\ At(t, "bind")
    /\ LET p == op[t].path
           r == op[t].room
       IN  IF Present(p) /\ \A q \in Paths \ {p} : ~(memory[q].status = "active" /\ memory[q].room = r)
           THEN /\ memory' = [memory EXCEPT ![p].status = "active", ![p].room = r]
                /\ Goto(t, "end", <<PutRoot(p, memory'[p])>>)
                /\ missed' = IF rooms[r].open \/ ToCome(r) THEN missed ELSE missed \cup {r}
           ELSE Done(t) /\ UNCHANGED <<memory, missed>>
    /\ UNCHANGED <<policies, credential, cursor, disk, server, faults, unsaved, inherited, late, overtaken>>

\* disconnect_agent_room_impl for a bound root; of a detached one only disposable cleanup
\* is left, and an unbound one is refused.
DisconnectAgentRoom(p) ==
    /\ IsIdle("window") /\ memory[p].status = "active"
    /\ Start("window", "disconnect", p, memory[p].room, FALSE)
    /\ UNCHANGED <<local, disk, server, faults, ghosts>>

\* unregister_managed_root_impl: the same for a bound root; one without a room, never
\* bound or detached, goes straight on to the removal.
UnregisterManagedRoot(p) ==
    /\ IsIdle("window") /\ Present(p)
    /\ IF memory[p].status = "active" THEN Start("window", "disconnect", p, memory[p].room, TRUE)
       ELSE Start("window", "policy", p, 0, TRUE)
    /\ UNCHANGED <<local, disk, server, faults, ghosts>>

Close(closed) == rooms' = [r \in DOMAIN rooms |-> IF r \in closed THEN [rooms[r] EXCEPT !.open = FALSE] ELSE rooms[r]]

\* disconnect_room: removeRoom closes the room and logs it; a room that is closed already
\* is not found.  When the answer is lost the command ends, the room being closed.
DisconnectRoom ==
    /\ At("window", "disconnect") /\ credential \in devices
    /\ LET r == op["window"].room IN
       IF rooms[r].open /\ rooms[r].device = credential
       THEN /\ Close({r}) /\ log' = Append(log, Removed(r))
            /\ \/ op' = [op EXCEPT !["window"].pc = "detach"] /\ UNCHANGED faults
               \/ Fault /\ Done("window")
       ELSE Done("window") /\ UNCHANGED <<rooms, log, faults>>
    /\ UNCHANGED <<local, disk, devices, paired, ghosts>>

\* apply_local_room_detached with detach_room; then the end or the rest of the
\* unregistration.  A binding that has disappeared is an error.
DetachRoom ==
    /\ At("window", "detach")
    /\ LET found == DetachedBy(op["window"].room) IN
       /\ memory' = [p \in Paths |-> IF p \in found THEN [memory[p] EXCEPT !.status = "detached"] ELSE memory[p]]
       /\ IF FindByRoom(op["window"].room) = {} THEN Done("window")
          ELSE Goto("window", IF op["window"].remove THEN "policy" ELSE "end",
                    SetToSeq({PutRoot(p, memory'[p]) : p \in found}))
    /\ UNCHANGED <<policies, credential, cursor, disk, server, faults, ghosts>>

\* The policy is left behind.
RemoveRootOnly ==
    /\ At("window", "policy")
    /\ memory' = [memory EXCEPT ![op["window"].path] = NoRow]
    /\ Goto("window", "end", <<PutRoot(op["window"].path, NoRow)>>)
    /\ UNCHANGED <<policies, credential, cursor, disk, server, faults, ghosts>>
\* AutoApprovalStore::remove.
RemovePolicy ==
    /\ At("window", "policy")
    /\ policies' = [policies EXCEPT ![op["window"].path] = "absent"]
    /\ Goto("window", "remove", <<PutPolicy(op["window"].path, "absent")>>)
    /\ UNCHANGED <<memory, credential, cursor, disk, server, faults, ghosts>>

\* ManagedRootStore::remove.
RemoveRoot ==
    /\ At("window", "remove")
    /\ memory' = [memory EXCEPT ![op["window"].path] = NoRow]
    /\ Goto("window", "end", <<PutRoot(op["window"].path, NoRow)>>)
    /\ UNCHANGED <<policies, credential, cursor, disk, server, faults, ghosts>>

-----------------------------------------------------------------------------
(* Pairing and revocation.                                                 *)

\* poll_pairing: the phone claimed the session; a new device with its credential.
PollPairing ==
    /\ IsIdle("window") /\ credential = 0 /\ paired < MaxDevices /\ More
    /\ paired' = paired + 1 /\ devices' = devices \cup {paired'}
    /\ credential' = paired' /\ cursor' = 0
    /\ overtaken' = IF op["background"].pc \in {"revoked", "forget"} THEN overtaken \cup {paired'} ELSE overtaken
    /\ UNCHANGED <<memory, policies, disk, rooms, log, op, faults, unsaved, inherited, late, missed>>

\* revokeDevice of the server: every open room of the device is removed, all of it logged.
RevokeDevice(d) ==
    /\ d \in devices /\ devices' = devices \ {d}
    /\ LET closed == {r \in DOMAIN rooms : rooms[r].open /\ rooms[r].device = d} IN
       /\ Close(closed)
       /\ log' = log \o SetToSeq({Removed(r) : r \in closed}) \o <<[type |-> "device.revoked", id |-> d]>>
    /\ UNCHANGED paired

\* The phone removes a room or unpairs the desktop.
PhoneRemovesRoom(r) ==
    /\ r \in DOMAIN rooms /\ rooms[r].open
    /\ Close({r}) /\ log' = Append(log, Removed(r))
    /\ UNCHANGED <<local, disk, devices, paired, op, faults, ghosts>>
\* The phone has a rule for an open room: RulesService.create.
PhoneCreatesRule(r) ==
    /\ r \in DOMAIN rooms /\ rooms[r].open
    /\ RulesCreated < MaxRules /\ More
    /\ log' = Append(log, [type |-> "rule.created", id |-> r])
    /\ UNCHANGED <<local, disk, devices, paired, rooms, op, faults, ghosts>>
PhoneRevokesDevice ==
    /\ \E d \in devices : RevokeDevice(d)
    /\ UNCHANGED <<local, disk, op, faults, ghosts>>

\* revoke_agent_device: revoke_self (which authenticates a revoked device too), then the
\* local part; a lost answer ends the command with the credential kept.
RevokeAgentDevice ==
    /\ IsIdle("window") /\ credential # 0
    /\ IF credential \in devices THEN RevokeDevice(credential) ELSE UNCHANGED server
    /\ \/ Start("window", "revoked", Idle.path, 0, FALSE) /\ UNCHANGED faults
       \/ Fault /\ UNCHANGED op
    /\ UNCHANGED <<local, disk, ghosts>>

\* heartbeat: the verdict DEVICE_REVOKED deletes the credential, then the local part.
Heartbeat ==
    /\ IsIdle("background") /\ credential # 0 /\ credential \notin devices
    /\ credential' = 0 /\ cursor' = 0
    /\ Start("background", "revoked", Idle.path, 0, FALSE)
    /\ UNCHANGED <<memory, policies, disk, server, faults, ghosts>>

\* Nothing is written.
DetachInMemory(t) ==
    /\ At(t, "revoked")
    /\ memory' = [p \in Paths |-> IF memory[p].status = "active" THEN [memory[p] EXCEPT !.status = "detached"] ELSE memory[p]]
    /\ Goto(t, "forget", <<>>)
    /\ UNCHANGED <<policies, credential, cursor, disk, server, faults, ghosts>>
\* apply_local_device_revoked with detach_all_rooms: all active roots in memory at once,
\* their rows written one after the other.
DetachAllRooms(t) ==
    /\ At(t, "revoked")
    /\ LET bound == {p \in Paths : memory[p].status = "active"} IN
       /\ memory' = [p \in Paths |-> IF p \in bound THEN [memory[p] EXCEPT !.status = "detached"] ELSE memory[p]]
       /\ Goto(t, "forget", SetToSeq({PutRoot(p, memory'[p]) : p \in bound}))
    /\ UNCHANGED <<policies, credential, cursor, disk, server, faults, ghosts>>

\* clear_device and forget_device.
ForgetDevice(t) ==
    /\ At(t, "forget")
    /\ credential' = 0 /\ cursor' = 0 /\ Done(t)
    /\ UNCHANGED <<memory, policies, disk, server, faults, ghosts>>

-----------------------------------------------------------------------------
(* Replay of the sync log, which is the user's and not the device's.       *)

\* The cursor moves before the events are applied.
ReplayAdvancesFirst ==
    /\ IsIdle("background") /\ credential \in devices
    /\ op' = [op EXCEPT !["background"] = [Idle EXCEPT
                 !.pc = "events", !.upTo = Len(log), !.device = credential,
                 !.batch = SubSeq(log, cursor + 1, Len(log))]]
    /\ cursor' = Len(log)
    /\ UNCHANGED <<memory, policies, credential, disk, server, faults, ghosts>>
\* replay_events: the events after the cursor.
ReplayEvents ==
    /\ IsIdle("background") /\ credential \in devices
    /\ op' = [op EXCEPT !["background"] = [Idle EXCEPT
                 !.pc = "events", !.upTo = Len(log), !.device = credential,
                 !.batch = SubSeq(log, cursor + 1, Len(log))]]
    /\ UNCHANGED <<local, disk, server, faults, ghosts>>

\* The request is refused: record_error deletes the credential, and that is all.
ReplayRefused ==
    /\ IsIdle("background") /\ credential # 0 /\ credential \notin devices
    /\ credential' = 0 /\ cursor' = 0
    /\ UNCHANGED <<memory, policies, disk, server, op, faults, ghosts>>

\* room.removed detaches the root of the room; of device.revoked only the events of other
\* devices can be read, and they change nothing.  A root that memory has detached or dropped
\* already is passed over, also while the table still has it bound to the room.
NextEvent == Head(op["background"].batch)
ReplayEvent ==
    /\ At("background", "events") /\ op["background"].batch # <<>> /\ NextEvent.type # "rule.created"
    /\ LET event == NextEvent
           found == IF event.type = "room.removed" THEN DetachedBy(event.id) ELSE {}
       IN  /\ memory' = [p \in Paths |-> IF p \in found THEN [memory[p] EXCEPT !.status = "detached"] ELSE memory[p]]
           /\ op' = [op EXCEPT !["background"].batch = Tail(@),
                               !["background"].writes = SetToSeq({PutRoot(p, memory'[p]) : p \in found})]
           /\ missed' = IF event.type = "room.removed" /\ \E p \in Paths \ found : database[p].status = "active" /\ database[p].room = event.id
                        THEN missed \cup {event.id} ELSE missed
    /\ UNCHANGED <<policies, credential, cursor, disk, server, faults, unsaved, inherited, late, overtaken>>

\* apply_rule_created_event: the rules of the room are asked for, which the server answers
\* for open rooms, and merged into the folder bound to it.  Any error, the refusal of a
\* revoked device, a room not found, a folder not found, a lost answer or a file not
\* written, ends the replay with the cursor where it was.
CanMerge(r) == rooms[r].open /\ FindByRoom(r) # {}
ReplayRule ==
    /\ At("background", "events") /\ op["background"].batch # <<>> /\ NextEvent.type = "rule.created"
    /\ \/ /\ credential \in devices /\ CanMerge(NextEvent.id)
          /\ op' = [op EXCEPT !["background"].batch = Tail(@)]
          /\ UNCHANGED <<credential, cursor, faults>>
       \/ /\ credential \in devices
          /\ (~CanMerge(NextEvent.id) /\ UNCHANGED faults) \/ Fault
          /\ Done("background") /\ UNCHANGED <<credential, cursor>>
       \/ /\ credential \notin devices
          /\ credential' = 0 /\ cursor' = 0 /\ Done("background") /\ UNCHANGED faults
    /\ UNCHANGED <<memory, policies, disk, server, ghosts>>

\* The cursor of the device they were read for moves when all of them are applied.
AdvanceCursor ==
    /\ At("background", "events") /\ op["background"].batch = <<>>
    /\ cursor' = IF credential = op["background"].device THEN op["background"].upTo ELSE cursor
    /\ Done("background")
    /\ UNCHANGED <<memory, policies, credential, disk, server, faults, ghosts>>

\* The desktop crashes and starts again with what the databases and the keyring hold.
Restart ==
    /\ Fault /\ Disjoint(database)
    /\ memory' = database /\ policies' = savedPolicies
    /\ op' = [t \in Threads |-> Idle]
    /\ UNCHANGED <<credential, cursor, disk, server, ghosts>>

-----------------------------------------------------------------------------

Continue(t) ==
    \/ Persist(t) \/ EnsureRoomForRoot(t) \/ EnsureRoomFails(t) \/ BindRoom(t)
    \/ DetachAllRooms(t) \/ ForgetDevice(t)
    \/ \E pc \in {"room", "disconnect"} : RefusedAt(t, pc)
    \/ t = "window" /\ (DisconnectRoom \/ DetachRoom \/ RemovePolicy \/ RemoveRoot)
    \/ t = "background" /\ (ReplayEvent \/ ReplayRule \/ AdvanceCursor)

Next ==
    \/ \E t \in Threads : Continue(t) \/ PersistFails(t)
    \/ \E p \in Paths : \/ RegisterManagedRoot(p)
                        \/ \E t \in Threads : p \in Linked /\ EnsureAgentRoom(t, p)
                        \/ DisconnectAgentRoom(p) \/ UnregisterManagedRoot(p)
    \/ \E p \in Toggled, enabled \in BOOLEAN : UpdateState(p, enabled)
    \/ \E p \in Linked, t \in Threads : UpdateHealth(t, p)
    \/ \E p \in Automated, valid \in BOOLEAN : PatchPolicy(p, "on", valid)
    \/ \E r \in Rooms : EnsureActiveRoomBinding(r) \/ PhoneRemovesRoom(r) \/ PhoneCreatesRule(r)
    \/ PollPairing \/ PhoneRevokesDevice \/ RevokeAgentDevice
    \/ Heartbeat \/ ReplayEvents \/ ReplayRefused
    \/ Restart

Spec == Init /\ [][Next]_vars

-----------------------------------------------------------------------------
(* Properties.                                                             *)

RowOK(row) ==
    /\ row.status \in {"absent", "unbound", "active", "detached"} /\ row.enabled \in BOOLEAN
    /\ row.room \in 0..Len(rooms) /\ row.room = 0 <=> row.status \in {"absent", "unbound"}
\* Types of the variables.
TypeOK ==
    /\ \A p \in Paths : /\ RowOK(memory[p]) /\ RowOK(database[p])
                        /\ {policies[p], savedPolicies[p]} \subseteq {"absent", "off", "on"}
    /\ credential \in 0..paired /\ paired \in 0..MaxDevices /\ devices \subseteq 1..paired
    /\ cursor \in 0..Len(log) /\ Len(rooms) <= MaxRooms
    /\ \A r \in DOMAIN rooms : rooms[r].root \in Paths /\ rooms[r].device \in 1..paired
    /\ \A t \in Threads : \A w \in Range(op[t].writes) : w.path \in Paths /\ RowOK(w.row)
    /\ faults \in 0..MaxFaults

\* load_from_db refuses a table with overlapping roots, and then the desktop does not
\* start: no crash, whatever was half done, leaves such a table among the roots of which
\* every write was made and none was late; and no two roots are bound to one room.
StoreLoads ==
    /\ Disjoint([p \in Paths \ (unsaved \cup late) |-> database[p]])
    /\ \A p, q \in Paths : database[p].status = "active" /\ database[q] = database[p] => p = q

\* managed_roots.rs: "the database mirrors it so registrations survive restarts".  When no
\* operation is under way, memory and table differ only in a root a write of whose row
\* failed, or came after another thread had changed the row again.
DatabaseMirrors ==
    (\A t \in Threads : IsIdle(t)) => \A p \in Paths \ (unsaved \cup late) : database[p] = memory[p]

\* The same as the comment has it: once everything is written the database mirrors memory.
DatabaseMirrorsMemory ==
    (\A t \in Threads : IsIdle(t)) => \A p \in Paths \ unsaved : database[p] = memory[p]

\* "A user-requested mobile disconnect must never be silently reversed", nor the reverse: a
\* detached root's tombstone names a room the server has closed.  No replay of an old
\* event, from the first one on after a new pairing, no other thread's operation and no
\* crash, lost answer or failed write detaches a root from a room that is open, unless the
\* room is of a device that was paired while the revocation of an earlier one was still
\* being carried out, which takes all roots for those of the device it revokes.
DetachedMeansClosed ==
    \A p \in Paths : \A row \in {memory[p], database[p]} :
        row.status = "detached" => ~rooms[row.room].open \/ rooms[row.room].device \in overtaken

\* AutoApprovalStore::remove: "so a later folder with the same generated id cannot inherit
\* a stale policy", whatever step of the unregistration a crash or a failure cuts off.  A
\* folder a write of whose row failed is the exception: memory has it, so that a policy can
\* be saved for it, and a restart forgets the folder and keeps the policy.
PolicyIsNotInherited == inherited \subseteq unsaved

\* A cursor that has passed the removal of a room says that its root was detached, and for
\* good: neither memory nor the table a restart loads has a root bound to the room,
\* through failing replays, crashes, lost answers, new pairings and the operations of the
\* other thread.  Not so when the room was bound after its removal had been replayed, or
\* the replay passed over a row that was not yet written (missed), and for a root of which
\* a write failed or was late.
RemovedRoomIsDetached ==
    \A i \in 1..cursor, p \in Paths \ (unsaved \cup late) : \A row \in {memory[p], database[p]} :
        row.status = "active" /\ log[i] = Removed(row.room) => row.room \in missed
=============================================================================
