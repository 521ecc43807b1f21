------------------------------ MODULE FileEngine ------------------------------
(***************************************************************************)
(* The file engine of one managed root (tools/file-engine-cli): every      *)
(* operation that changes the user's folder, the SQLite operation journal  *)
(* it is recorded in, and undo.  One engine call runs at a time (the       *)
(* desktop takes the Write permit of WorkLimiter around each of them), but *)
(* a call is many steps: the process may crash between any two of them,    *)
(* and the user works in the same folder with other programs all along.    *)
(*                                                                         *)
(* The disk maps locations to what is there.  Contents of user files are   *)
(* tokens of Data: two files have the same token only if one is a copy of  *)
(* the other, which is what the engine's identity/size/mtime comparison    *)
(* decides.                                                                *)
(***************************************************************************)
EXTENDS Naturals, Sequences

CONSTANTS
    Path,          \* relative paths inside the managed root
    Top,           \* the root directory itself (always there, not a Path)
    Parent,        \* the directory of a path
    Readme,        \* README.md at the top of the root
    Data,          \* contents of the user's non-empty files
    InitDisk,      \* what the user's folder holds at the start
    Proposals,     \* the [action, from, to] items that batches are made of
    Renames,       \* the <<from, to>> pairs the user renames by hand
    MaxBatch,      \* bound: items of one execution
    PlanOnly,      \* whether the CLI's plan-only `journal` command is used
    UndoScopes,    \* subset of {"all", "one"}: undo_root and undo_operation
    UserMayActAt,  \* the engine steps at which another program may interleave
    MaxOp,         \* bound: operation ids
    MaxCrash,      \* bound: crashes of the engine's process
    MaxUser,       \* bound: changes made by the user and by other programs
    MaxTrouble,    \* bound: crashes, such changes and unreadable rows together
    MaxRows,       \* bound: an undo starts only while the journal is shorter
    MaxGarbled     \* bound: journal rows this version cannot read

OpId == 1..MaxOp

\* .mousekeeper_trash/<id>/file, .mousekeeper/readme_backups/<id>.bak and
\* <id>.absent: places of the engine's own that no other program touches.  An
\* undo may move the whole .mousekeeper_trash away: the file of slot id is then
\* at Adrift(id), a place no path of the journal leads to.
TrashDir      == <<"trash", 0>>
TrashSlot(id) == <<"trash", id>>
Backup(id)    == <<"backup", id>>
Marker(id)    == <<"marker", id>>
Adrift(id)    == <<"adrift", id>>
Internal == {"trash", "backup", "marker", "adrift"} \X OpId
Dest == Path \cup {TrashDir}
Loc == Dest \cup Internal

\* A file is user data, an empty file, or the text of an approved README.  A
\* trash directory ("trash") keeps the metadata of its slots: it is never empty.
Node == Data \cup {"absent", "dir", "trash", "empty", "generated"}
IsDir(n) == n \in {"dir", "trash"}
IsFile(n) == n # "absent" /\ ~IsDir(n)

Action == {"move", "trash", "create_dir", "create_file", "readme_write"}
CheckStatus == {"ready", "missing_source", "source_changed",
                "destination_exists", "rejected_path"}
JournalStatus == {"planned", "executed", "undo_planned", "undone", "garbled"}

Check == [action: Action, from: Path, to: Dest, expect: Node \cup {"stale"},
          status: CheckStatus]
Row == [id: OpId, status: JournalStatus, action: Action, from: Loc, to: Loc]

Steps == {"idle", "next", "backed", "planned", "checked", "changed",
          "undo_planned", "restored", "dumped"}
Calls == {"none", "execute", "trash", "rename", "undo", "recover"}

ASSUME PathAssumption ==
    /\ Top \notin Loc
    /\ Parent \in [Path -> Path \cup {Top}]
    /\ \A p \in Path : Parent[p] # Top => Parent[Parent[p]] = Top
    /\ Readme \in Path /\ Parent[Readme] = Top
    /\ Path \cap (Internal \cup {TrashDir}) = {}

ASSUME DataAssumption ==
    /\ {"absent", "dir", "trash", "empty", "generated", "stale"} \cap Data = {}
    /\ InitDisk \in [Path -> Node \ {"trash"}]
    /\ \A p, q \in Path : InitDisk[p] = InitDisk[q] /\ InitDisk[p] \in Data => p = q

\* Moves go from file to file; a README write has no other target; a trash
\* item names the trash directory; what creates something has no source, which
\* is written from = to.
ASSUME ProposalAssumption ==
    /\ Proposals \subseteq [action: Action, from: Path, to: Dest]
    /\ \A pr \in Proposals :
          /\ pr.to = TrashDir <=> pr.action = "trash"
          /\ pr.action = "move" => pr.from # pr.to
          /\ pr.action \in {"create_dir", "create_file"} => pr.from = pr.to
          /\ pr.action = "readme_write" => pr.from = Readme /\ pr.to = Readme
    /\ Renames \subseteq Path \X Path
    /\ \A r \in Renames : r[1] # r[2] /\ Parent[r[1]] = Parent[r[2]]

ASSUME BoundAssumption ==
    /\ MaxBatch \in Nat /\ MaxOp \in Nat \ {0} /\ MaxCrash \in Nat
    /\ MaxUser \in Nat /\ MaxTrouble \in Nat /\ MaxRows \in Nat /\ MaxGarbled \in Nat
    /\ PlanOnly \in BOOLEAN /\ UndoScopes \subseteq {"all", "one"}
    /\ UserMayActAt \subseteq Steps

VARIABLES
    disk,        \* Loc -> Node
    journal,     \* the operation_journal table in seq order
    quarantine,  \* rows dumped to journal.jsonl.corrupted-<ts> files
    nextId,      \* the next operation id (ids come from the clock)
    call,        \* the engine call in progress
    step,        \* how far its current item is
    batch, pos,  \* execute: the prechecked items, the current one;
                 \* undo: pos is the journal row being undone, 0 after the last
    prior,       \* number of rows that read_all returned at the call's start
    cur,         \* execute: the operation id of the current item
    todo,        \* undo: the ids of the operations to undo
    scope,       \* undo: "all" or "one"
    skipped,     \* undo: the operations reported as skipped
    crashes, userActs, garbled,  \* the bounds' counters
    home,        \* history: the paths where the user has put each token
    moved,       \* history: the node an operation's change displaced, or "none"
    misread      \* history: "reconcile" or "undo" took another file for the
                 \* one that the operation had moved

engineVars == <<call, step, batch, pos, prior, cur, todo, scope, skipped>>
bounds == <<crashes, userActs, garbled>>
history == <<home, moved, misread>>
vars == <<disk, journal, quarantine, nextId, engineVars, bounds, history>>

-----------------------------------------------------------------------------
(* Looking at the disk and at the journal.                                 *)

Exists(l) == disk[l] # "absent"
Children(p) == {q \in Path : Parent[q] = p /\ Exists(q)}

\* resolve_for_create only asks that the parent exists, be it a file; creating
\* something in it, or renaming something into it, needs a directory.
ParentResolves(l) == l \in Path /\ Parent[l] # Top => Exists(Parent[l])
ParentThere(l) == l \in Path /\ Parent[l] # Top => IsDir(disk[Parent[l]])
\* create_dir_all on the parent succeeds: the parent is no file.
ParentCreatable(l) ==
    l \in Path /\ Parent[l] # Top => ~IsFile(disk[Parent[l]])
\* The disk once create_dir_all made the parent of l.
WithParent(l) ==
    [x \in Loc |-> IF l \in Path /\ x = Parent[l] /\ ~Exists(x) THEN "dir" ELSE disk[x]]
Renamed(d, from, to) ==
    [x \in Loc |-> IF x = to THEN d[from] ELSE IF x = from THEN "absent" ELSE d[x]]
\* The disk once the trash directory, with what is in it, was renamed to p.
TrashRenamed(p) ==
    [x \in Loc |->
        CASE x = p -> disk[TrashDir]
          [] x \in {TrashDir} \cup {TrashSlot(id) : id \in OpId} -> "absent"
          [] x \in {Adrift(id) : id \in OpId} /\ Exists(TrashSlot(x[2])) -> disk[TrashSlot(x[2])]
          [] OTHER -> disk[x]]

Rows == {journal[i] : i \in 1..Len(journal)}
Corrupt == \E r \in Rows : r.status = "garbled"
IdsWith(n, statuses) ==
    {journal[i].id : i \in {k \in 1..n : journal[k].status \in statuses}}

\* Indices of the Planned Move rows read at the start of the call that no
\* later row completes.  (A row with from = to has no source: it matches no item.)
PendingPlanned(from, to) ==
    {i \in 1..prior :
        /\ journal[i].status = "planned" /\ journal[i].action = "move"
        /\ from # to /\ journal[i].from = from /\ journal[i].to = to
        /\ journal[i].id \notin IdsWith(prior, {"executed", "undo_planned", "undone"})}

\* Mutant: an undo that was begun counts as done.
UndoableUnbegun ==
    IdsWith(Len(journal), {"executed"}) \ IdsWith(Len(journal), {"undo_planned", "undone"})

\* The operations undo_with_filter selects: executed and not yet undone.
Undoable == IdsWith(Len(journal), {"executed"}) \ IdsWith(Len(journal), {"undone"})
UndoTargets(s) == IF s = "all" THEN {Undoable} ELSE {{id} : id \in Undoable}

\* Row i is the one that the reversed scan for ids visits after row n.
Selected(ids, i) == journal[i].status = "executed" /\ journal[i].id \in ids
ScansTo(ids, n, i) ==
    /\ i > 0 => Selected(ids, i)
    /\ \A j \in (i + 1)..(n - 1) : ~Selected(ids, j)

\* The tokens that are somewhere on the disk, the engine's places included.
Stored(d) == {d[l] : l \in Loc} \cap Data

-----------------------------------------------------------------------------

TypeOK ==
    /\ disk \in [Loc -> Node]
    /\ journal \in Seq(Row)
    /\ quarantine \subseteq Row
    /\ nextId \in 1..(MaxOp + 1)
    /\ call \in Calls
    /\ step \in Steps
    /\ batch \in Seq(Check)
    /\ pos \in Nat
    /\ prior \in Nat
    /\ cur \in 0..MaxOp
    /\ todo \subseteq OpId
    /\ scope \in {"none", "all", "one"}
    /\ skipped \subseteq OpId
    /\ crashes \in 0..MaxCrash /\ userActs \in 0..MaxUser /\ garbled \in 0..MaxGarbled
    /\ home \in [Data -> SUBSET Path]
    /\ moved \in [OpId -> Node \cup {"none"}]
    /\ misread \subseteq {"reconcile", "undo"}

Init ==
    /\ disk = [l \in Loc |-> IF l \in Path THEN InitDisk[l] ELSE "absent"]
    /\ journal = <<>> /\ quarantine = {}
    /\ nextId = 1
    /\ call = "none" /\ step = "idle"
    /\ batch = <<>> /\ pos = 1 /\ prior = 0 /\ cur = 0
    /\ todo = {} /\ scope = "none" /\ skipped = {}
    /\ crashes = 0 /\ userActs = 0 /\ garbled = 0
    /\ home = [t \in Data |-> {p \in Path : InitDisk[p] = t}]
    /\ moved = [id \in OpId |-> "none"] /\ misread = {}

-----------------------------------------------------------------------------
(* Shapes shared by the actions.                                           *)

\* The engine call returns, with or without an error; its locals are gone.
Return ==
    /\ call' = "none" /\ step' = "idle"
    /\ batch' = <<>> /\ pos' = 1 /\ prior' = 0 /\ cur' = 0
    /\ todo' = {} /\ scope' = "none" /\ skipped' = {}

Log(id, status, action, from, to) ==
    journal' = Append(journal, [id |-> id, status |-> status, action |-> action,
                                from |-> from, to |-> to])

Item == batch[pos]
AtItem == call = "execute" /\ step = "next" /\ pos <= Len(batch)
Target == IF Item.action = "trash" THEN TrashSlot(cur) ELSE Item.to
\* What a journal row names as its source: a README row names its backup.
Source == IF Item.action = "readme_write" THEN Backup(cur) ELSE Item.from

\* A step inside one item of execute, trash or rename.
ToStep(s) ==
    /\ step' = s
    /\ UNCHANGED <<call, batch, pos, prior, todo, scope, skipped>>
NextItem ==
    /\ step' = "next" /\ pos' = pos + 1 /\ cur' = 0
    /\ UNCHANGED <<call, batch, prior, todo, scope, skipped>>

-----------------------------------------------------------------------------
(* precheck_proposals, then execute_prechecked item by item.               *)

PrecheckStatus(pr) ==
    CASE pr.status = "destination_exists" -> "destination_exists"
      [] pr.status # "destination_exists" /\ pr.action \in {"create_dir", "create_file"} ->
            IF ~ParentResolves(pr.to) THEN "rejected_path"
            ELSE IF Exists(pr.to) THEN "destination_exists" ELSE "ready"
      [] OTHER ->
            IF ~Exists(pr.from)
            THEN IF pr.action = "readme_write" /\ pr.expect = "absent"
                 THEN "ready" ELSE "missing_source"
            ELSE IF disk[pr.from] # pr.expect THEN "source_changed" ELSE "ready"

PrecheckProposal(pr) == [pr EXCEPT !.status = PrecheckStatus(pr)]

\* A proposal made earlier: the source recorded with it is the one that is
\* there now, or it is not (stale); its destination may have been taken.
SourceNow(pr) == IF IsDir(disk[pr.from]) THEN "stale" ELSE disk[pr.from]
ProposalsFor(pr) ==
    {[action |-> pr.action, from |-> pr.from, to |-> pr.to,
      expect |-> e, status |-> s] :
        e \in {SourceNow(pr), "stale"}, s \in {"ready", "destination_exists"}}

\* execute_proposals: precheck all items, read the whole journal (and refuse
\* to run if a row is unreadable), then go through the items in order.
StartExecute ==
    /\ call = "none" /\ ~Corrupt
    /\ \E n \in 1..MaxBatch :
          /\ nextId + n <= MaxOp + 1
          /\ \E prs \in [1..n -> Proposals] :
             \E b \in [1..n -> UNION {ProposalsFor(prs[i]) : i \in 1..n}] :
                /\ \A i \in 1..n : b[i] \in ProposalsFor(prs[i])
                /\ batch' = [i \in 1..n |-> PrecheckProposal(b[i])]
    /\ call' = "execute" /\ step' = "next"
    /\ pos' = 1 /\ prior' = Len(journal)
    /\ UNCHANGED <<disk, journal, quarantine, nextId, cur, todo, scope, skipped,
                   bounds, history>>

\* recover_planned_move: the source is gone, the destination is there and an
\* earlier call planned this very move: record it as executed.
RecoverPlannedMove ==
    /\ AtItem /\ Item.status = "missing_source"
    /\ Exists(Item.to)
    /\ \E i \in PendingPlanned(Item.from, Item.to) :
          /\ \A j \in PendingPlanned(Item.from, Item.to) : j <= i
          /\ Log(journal[i].id, "executed", Item.action, Item.from, Item.to)
          /\ misread' = IF moved[journal[i].id] = disk[Item.to] THEN misread
                        ELSE misread \cup {"reconcile"}
    /\ NextItem
    /\ UNCHANGED <<disk, quarantine, nextId, bounds, home, moved>>

SkipUnready ==
    /\ AtItem /\ Item.status # "ready"
    /\ ~ /\ Item.status = "missing_source"
         /\ PendingPlanned(Item.from, Item.to) # {}
         /\ Exists(Item.to)
    /\ NextItem
    /\ UNCHANGED <<disk, journal, quarantine, nextId, bounds, history>>

\* Mutant: the change is made before anything is journaled.
PlanItemUnlogged ==
    /\ AtItem /\ Item.status = "ready"
    /\ Item.action \in {"move", "create_dir", "create_file"}
    /\ cur' = nextId /\ nextId' = nextId + 1
    /\ ToStep("planned")
    /\ UNCHANGED <<disk, journal, quarantine, bounds, history>>

\* execute_move, execute_create_dir and execute_create_file journal first.
PlanItem ==
    /\ AtItem /\ Item.status = "ready"
    /\ Item.action \in {"move", "create_dir", "create_file"}
    /\ Log(nextId, "planned", Item.action, Item.from, Item.to)
    /\ cur' = nextId /\ nextId' = nextId + 1
    /\ ToStep("planned")
    /\ UNCHANGED <<disk, quarantine, bounds, history>>

\* Mutant: the precheck's answer about the destination is trusted.
CheckMoveNoDestination ==
    /\ step = "planned" /\ Item.action = "move"
    /\ UNCHANGED <<journal, quarantine, nextId, bounds, history>>
    /\ \/ /\ ~Exists(Item.from)
          /\ NextItem /\ UNCHANGED disk
       \/ /\ Exists(Item.from) /\ ParentCreatable(Item.to)
          /\ disk' = WithParent(Item.to)
          /\ ToStep("checked") /\ UNCHANGED cur

\* execute_move: the source is resolved again, the destination's parent made,
\* and an existing destination refused.
CheckMove ==
    /\ step = "planned" /\ Item.action = "move"
    /\ UNCHANGED <<journal, quarantine, nextId, bounds, history>>
    /\ \/ /\ ~Exists(Item.from)
          /\ NextItem /\ UNCHANGED disk
       \/ /\ Exists(Item.from) /\ ~ParentCreatable(Item.to)
          /\ Return /\ UNCHANGED disk
       \/ /\ Exists(Item.from) /\ ParentCreatable(Item.to)
          /\ disk' = WithParent(Item.to)
          /\ IF Exists(Item.to) THEN NextItem
             ELSE ToStep("checked") /\ UNCHANGED cur

CheckCreateDir ==
    /\ step = "planned" /\ Item.action = "create_dir"
    /\ UNCHANGED <<disk, journal, quarantine, nextId, bounds, history>>
    /\ IF ~ParentResolves(Item.to) \/ Exists(Item.to)
       THEN NextItem
       ELSE ToStep("checked") /\ UNCHANGED cur

\* execute_create_file opens with create_new: check and creation are one step.
ApplyCreateFile ==
    /\ step = "planned" /\ Item.action = "create_file"
    /\ UNCHANGED <<journal, quarantine, nextId, bounds, home, misread>>
    /\ IF ~ParentResolves(Item.to) \/ Exists(Item.to)
       THEN NextItem /\ UNCHANGED <<disk, moved>>
       ELSE IF ~ParentThere(Item.to)
       THEN Return /\ UNCHANGED <<disk, moved>>
       ELSE /\ disk' = [disk EXCEPT ![Item.to] = "empty"]
            /\ moved' = [moved EXCEPT ![cur] = "empty"]
            /\ ToStep("changed") /\ UNCHANGED cur

\* fs::create_dir fails if something appeared meanwhile: the batch is aborted.
ApplyCreateDir ==
    /\ step = "checked" /\ Item.action = "create_dir"
    /\ UNCHANGED <<journal, quarantine, nextId, bounds, home, misread>>
    /\ IF ParentThere(Item.to) /\ ~Exists(Item.to)
       THEN /\ disk' = [disk EXCEPT ![Item.to] = "dir"]
            /\ moved' = [moved EXCEPT ![cur] = "dir"]
            /\ ToStep("changed") /\ UNCHANGED cur
       ELSE Return /\ UNCHANGED <<disk, moved>>

\* fs::rename replaces a file at the destination.  It fails, and the error
\* ends the call, if the source is gone or the destination cannot take it.
ApplyRename ==
    /\ step = "checked" /\ Item.action \in {"move", "trash"}
    /\ UNCHANGED <<journal, quarantine, nextId, bounds, home, misread>>
    /\ IF /\ Exists(Item.from) /\ ParentThere(Target) /\ ~IsDir(disk[Target])
          /\ IsDir(disk[Item.from]) => ~Exists(Target)
       THEN /\ disk' = Renamed(disk, Item.from, Target)
            /\ moved' = [moved EXCEPT ![cur] = disk[Item.from]]
            /\ ToStep("changed") /\ UNCHANGED cur
       ELSE Return /\ UNCHANGED <<disk, moved>>

\* trash_file as an item of a batch: its errors abort the batch.
PlanTrash ==
    /\ AtItem /\ Item.status = "ready" /\ Item.action = "trash"
    /\ UNCHANGED <<disk, quarantine, bounds, history>>
    /\ IF IsFile(disk[Item.from])
       THEN /\ Log(nextId, "planned", "trash", Item.from, TrashSlot(nextId))
            /\ cur' = nextId /\ nextId' = nextId + 1
            /\ ToStep("planned")
       ELSE Return /\ UNCHANGED <<journal, nextId>>

\* trash_file makes the slot's directory in the trash, and writes its metadata.
MakeTrashDir ==
    /\ step = "planned" /\ Item.action = "trash"
    /\ disk' = [disk EXCEPT ![TrashDir] = "trash"]
    /\ ToStep("checked")
    /\ UNCHANGED <<journal, quarantine, nextId, cur, bounds, history>>

\* execute_readme_write keeps a copy of README.md (or a marker that there was
\* none), journals, and only then writes.
BackupReadme ==
    /\ AtItem /\ Item.status = "ready" /\ Item.action = "readme_write"
    /\ UNCHANGED <<journal, quarantine, bounds, history>>
    /\ IF IsDir(disk[Readme])
       THEN Return /\ UNCHANGED <<disk, nextId>>
       ELSE /\ disk' = IF Exists(Readme)
                       THEN [disk EXCEPT ![Backup(nextId)] = disk[Readme]]
                       ELSE [disk EXCEPT ![Marker(nextId)] = "empty"]
            /\ cur' = nextId /\ nextId' = nextId + 1
            /\ ToStep("backed")

PlanReadme ==
    /\ step = "backed"
    /\ Log(cur, "planned", "readme_write", Backup(cur), Readme)
    /\ ToStep("checked")
    /\ UNCHANGED <<disk, quarantine, nextId, cur, bounds, history>>

WriteReadme ==
    /\ step = "checked" /\ Item.action = "readme_write"
    /\ UNCHANGED <<journal, quarantine, nextId, bounds, home, misread>>
    /\ IF IsDir(disk[Readme])
       THEN Return /\ UNCHANGED <<disk, moved>>
       ELSE /\ disk' = [disk EXCEPT ![Readme] = "generated"]
            /\ moved' = [moved EXCEPT ![cur] = disk[Readme]]
            /\ ToStep("changed") /\ UNCHANGED cur

LogExecuted ==
    /\ step = "changed"
    /\ Log(cur, "executed", Item.action, Source, Target)
    /\ NextItem
    /\ UNCHANGED <<disk, quarantine, nextId, bounds, history>>

FinishBatch ==
    /\ call \in {"execute", "trash", "rename"} /\ step = "next" /\ pos > Len(batch)
    /\ Return
    /\ UNCHANGED <<disk, journal, quarantine, nextId, bounds, history>>

-----------------------------------------------------------------------------
(* The manual tools.  trash_file and rename_file journal but do not read   *)
(* the journal; create_empty_file does not journal at all.                 *)

OneItem(action, from, to) ==
    <<[action |-> action, from |-> from, to |-> to,
       expect |-> disk[from], status |-> "ready"]>>

StartTrash(p) ==
    /\ call = "none" /\ nextId <= MaxOp
    /\ IsFile(disk[p])
    /\ Log(nextId, "planned", "trash", p, TrashSlot(nextId))
    /\ call' = "trash" /\ step' = "planned" /\ batch' = OneItem("trash", p, TrashDir)
    /\ cur' = nextId /\ nextId' = nextId + 1
    /\ UNCHANGED <<disk, quarantine, pos, prior, todo, scope, skipped, bounds, history>>

\* rename_file looks at the destination before it journals, not after.
StartRename(p, q) ==
    /\ call = "none" /\ nextId <= MaxOp
    /\ IsFile(disk[p]) /\ ParentThere(q) /\ ~Exists(q)
    /\ Log(nextId, "planned", "move", p, q)
    /\ call' = "rename" /\ step' = "checked" /\ batch' = OneItem("move", p, q)
    /\ cur' = nextId /\ nextId' = nextId + 1
    /\ UNCHANGED <<disk, quarantine, pos, prior, todo, scope, skipped, bounds, history>>

CreateEmptyFile(p) ==
    /\ call = "none" /\ ParentThere(p) /\ ~Exists(p)
    /\ disk' = [disk EXCEPT ![p] = "empty"]
    /\ UNCHANGED <<journal, quarantine, nextId, engineVars, bounds, history>>

\* The CLI's write_planned_journal: a Planned Move row for each ready item the
\* rules propose, also one that trashes a file or creates a directory.
WritePlannedJournal ==
    /\ PlanOnly /\ call = "none" /\ nextId <= MaxOp
    /\ \E pr \in Proposals : \E p \in ProposalsFor(pr) :
          /\ pr.action \in {"move", "trash", "create_dir"} /\ PrecheckStatus(p) = "ready"
          /\ Log(nextId, "planned", "move", p.from, p.to)
    /\ nextId' = nextId + 1
    /\ UNCHANGED <<disk, quarantine, engineVars, bounds, history>>

-----------------------------------------------------------------------------
(* undo_with_filter.                                                       *)

StartUndo(s) ==
    /\ call = "none" /\ ~Corrupt
    /\ Undoable # {} /\ Len(journal) < MaxRows
    /\ \E ids \in UndoTargets(s), i \in 1..Len(journal) :
          /\ ScansTo(ids, Len(journal) + 1, i)
          /\ todo' = ids /\ pos' = i
    /\ prior' = Len(journal)
    /\ call' = "undo" /\ step' = "next" /\ scope' = s /\ skipped' = {}
    /\ UNCHANGED <<disk, journal, quarantine, nextId, batch, cur, bounds, history>>

URow == journal[pos]
AtRow == call = "undo" /\ step = "next" /\ pos > 0

\* What undo finds for an executed row: nothing left to do ("recorded"), a
\* change to make ("plan"), a refusal ("skip"), or an error that ends the call.
UndoVerdict(r) ==
    CASE r.action = "create_dir" ->
            IF ~Exists(r.to) THEN "recorded"
            ELSE IF disk[r.to] = "dir" /\ Children(r.to) = {} THEN "plan" ELSE "skip"
      [] r.action = "create_file" ->
            IF ~Exists(r.to) THEN "recorded"
            ELSE IF disk[r.to] = "empty" THEN "plan" ELSE "skip"
      [] r.action = "readme_write" -> "plan"
      [] OTHER ->
            IF ~Exists(r.to) THEN IF Exists(r.from) THEN "recorded" ELSE "skip"
            ELSE IF ~ParentCreatable(r.from) THEN "error"
            ELSE IF Exists(r.from) THEN "skip" ELSE "plan"

\* Mutant: a completion status that read_all does not know.
LogUndoMisspelt(status) ==
    Log(URow.id, IF status = "undone" THEN "undo" ELSE status,
        URow.action, URow.to, URow.from)

\* undo_entry: the row's paths are swapped.
LogUndo(status) == Log(URow.id, status, URow.action, URow.to, URow.from)
NextRow(refused) ==
    /\ step' = "next"
    /\ \E i \in 0..(pos - 1) : ScansTo(todo, pos, i) /\ pos' = i
    /\ skipped' = skipped \cup refused
    /\ UNCHANGED <<call, batch, prior, cur, todo, scope>>

UndoRecorded ==
    /\ AtRow /\ UndoVerdict(URow) = "recorded"
    /\ LogUndo("undone") /\ NextRow({})
    /\ UNCHANGED <<disk, quarantine, nextId, bounds, history>>

UndoSkip ==
    /\ AtRow /\ UndoVerdict(URow) = "skip"
    /\ NextRow({URow.id})
    /\ UNCHANGED <<disk, journal, quarantine, nextId, bounds, history>>

UndoError ==
    /\ AtRow /\ UndoVerdict(URow) = "error"
    /\ Return
    /\ UNCHANGED <<disk, journal, quarantine, nextId, bounds, history>>

UndoPlan ==
    /\ AtRow /\ UndoVerdict(URow) = "plan"
    /\ LogUndo("undo_planned")
    /\ disk' = IF URow.action \in {"move", "trash"} THEN WithParent(URow.from) ELSE disk
    /\ ToStep("undo_planned")
    /\ UNCHANGED <<quarantine, nextId, cur, bounds, history>>

Undoing(actions) == step = "undo_planned" /\ URow.action \in actions
Restore(d) == disk' = d /\ ToStep("restored") /\ UNCHANGED cur
UndoFails == Return /\ UNCHANGED disk

\* rename back; an original that appeared since the check is replaced.  The
\* row of a trash that recover_planned_move completed names the trash directory.
RestoreMoved ==
    /\ Undoing({"move", "trash"})
    /\ UNCHANGED <<journal, quarantine, nextId, bounds, home, moved>>
    /\ IF /\ Exists(URow.to) /\ ParentThere(URow.from) /\ ~IsDir(disk[URow.from])
          /\ IsDir(disk[URow.to]) => ~Exists(URow.from)
       THEN /\ Restore(IF URow.to = TrashDir THEN TrashRenamed(URow.from)
                       ELSE Renamed(disk, URow.to, URow.from))
            /\ misread' = IF moved[URow.id] = disk[URow.to] THEN misread
                          ELSE misread \cup {"undo"}
       ELSE UndoFails /\ UNCHANGED misread

\* remove_dir refuses a directory that is not empty; remove_file any directory.
RemoveCreated ==
    /\ Undoing({"create_dir", "create_file"})
    /\ UNCHANGED <<journal, quarantine, nextId, bounds, history>>
    /\ IF IF URow.action = "create_dir"
          THEN disk[URow.to] = "dir" /\ Children(URow.to) = {}
          ELSE IsFile(disk[URow.to])
       THEN Restore([disk EXCEPT ![URow.to] = "absent"])
       ELSE UndoFails

\* The backup is copied over README.md whatever README.md holds by now.
RestoreReadme ==
    /\ Undoing({"readme_write"})
    /\ UNCHANGED <<journal, quarantine, nextId, bounds, history>>
    /\ \/ /\ Exists(Backup(URow.id)) /\ ~IsDir(disk[Readme])
          /\ Restore([disk EXCEPT ![Readme] = disk[Backup(URow.id)]])
       \/ /\ ~Exists(Backup(URow.id)) /\ Exists(Marker(URow.id)) /\ ~IsDir(disk[Readme])
          /\ Restore([disk EXCEPT ![Readme] = "absent"])
       \/ /\ Exists(Backup(URow.id)) \/ Exists(Marker(URow.id))
          /\ IsDir(disk[Readme])
          /\ UndoFails
       \/ /\ ~Exists(Backup(URow.id)) /\ ~Exists(Marker(URow.id))
          /\ NextRow({URow.id}) /\ UNCHANGED disk

LogUndone ==
    /\ step = "restored"
    /\ LogUndo("undone") /\ NextRow({})
    /\ UNCHANGED <<disk, quarantine, nextId, bounds, history>>

FinishUndo ==
    /\ call = "undo" /\ step = "next" /\ pos = 0
    /\ Return
    /\ UNCHANGED <<disk, journal, quarantine, nextId, bounds, history>>

-----------------------------------------------------------------------------
(* recover_journal: only a journal with an unreadable row is dumped, then  *)
(* cleared.                                                                *)

\* Mutant: only the rows that could be read are dumped.
DumpJournalReadable ==
    /\ call = "none" /\ Corrupt
    /\ quarantine' = quarantine \cup {r \in Rows : r.status # "garbled"}
    /\ call' = "recover" /\ step' = "dumped"
    /\ UNCHANGED <<disk, journal, nextId, batch, pos, prior, cur, todo, scope, skipped,
                   bounds, history>>

DumpJournal ==
    /\ call = "none" /\ Corrupt
    /\ quarantine' = quarantine \cup Rows
    /\ call' = "recover" /\ step' = "dumped"
    /\ UNCHANGED <<disk, journal, nextId, batch, pos, prior, cur, todo, scope, skipped,
                   bounds, history>>

ClearJournal ==
    /\ step = "dumped"
    /\ journal' = <<>>
    /\ Return
    /\ UNCHANGED <<disk, quarantine, nextId, bounds, history>>

-----------------------------------------------------------------------------
(* The environment: the process dies, another version of the program       *)
(* writes a row this one cannot read, the user works in the folder.        *)

Trouble == userActs + garbled + crashes < MaxTrouble

Crash ==
    /\ step # "idle" /\ crashes < MaxCrash /\ Trouble
    /\ crashes' = crashes + 1
    /\ Return
    /\ UNCHANGED <<disk, journal, quarantine, nextId, userActs, garbled, history>>

GarbledRow ==
    /\ call = "none" /\ garbled < MaxGarbled /\ Trouble
    /\ garbled' = garbled + 1
    /\ Log(1, "garbled", "move", Readme, Readme)
    /\ UNCHANGED <<disk, quarantine, nextId, engineVars, crashes, userActs, history>>

UserChange(d, h) ==
    /\ step \in UserMayActAt /\ userActs < MaxUser /\ Trouble
    /\ userActs' = userActs + 1
    /\ disk' = d /\ home' = h
    /\ UNCHANGED <<journal, quarantine, nextId, engineVars, crashes, garbled, moved, misread>>

\* A new file, or new content in a file.
UserWrite(p, t) ==
    /\ t \notin Stored(disk)
    /\ ParentThere(p) /\ ~IsDir(disk[p])
    /\ UserChange([disk EXCEPT ![p] = t], [home EXCEPT ![t] = {p}])

UserMkdir(p) ==
    /\ ParentThere(p) /\ ~Exists(p)
    /\ UserChange([disk EXCEPT ![p] = "dir"], home)

UserDelete(p) ==
    /\ disk[p] \notin {"absent", "trash"} /\ Children(p) = {}
    /\ UserChange([disk EXCEPT ![p] = "absent"], home)

UserMove(p, q) ==
    /\ IsFile(disk[p]) /\ ParentThere(q) /\ ~Exists(q)
    /\ UserChange(Renamed(disk, p, q),
                  [t \in Data |-> IF t = disk[p]
                                  THEN {q} \cup {h \in home[t] \ {p} : disk[h] = t}
                                  ELSE home[t]])

-----------------------------------------------------------------------------

Execute ==
    \/ StartExecute \/ RecoverPlannedMove \/ SkipUnready \/ PlanItem
    \/ CheckMove \/ CheckCreateDir \/ ApplyCreateFile \/ ApplyCreateDir
    \/ ApplyRename \/ PlanTrash \/ MakeTrashDir \/ BackupReadme \/ PlanReadme \/ WriteReadme
    \/ LogExecuted \/ FinishBatch

Manual ==
    \/ \E p \in Path : StartTrash(p) \/ CreateEmptyFile(p)
    \/ \E r \in Renames : StartRename(r[1], r[2])
    \/ WritePlannedJournal

Undo ==
    \/ \E s \in UndoScopes : StartUndo(s)
    \/ UndoRecorded \/ UndoSkip \/ UndoError \/ UndoPlan
    \/ RestoreMoved \/ RemoveCreated \/ RestoreReadme
    \/ LogUndone \/ FinishUndo

Recover == DumpJournal \/ ClearJournal

User ==
    \/ \E p \in Path, t \in Data : UserWrite(p, t)
    \/ \E p \in Path : UserMkdir(p) \/ UserDelete(p)
    \/ \E p, q \in Path : UserMove(p, q)

Next == Execute \/ Manual \/ Undo \/ Recover \/ Crash \/ GarbledRow \/ User

Spec == Init /\ [][Next]_vars

-----------------------------------------------------------------------------
(* Properties.                                                             *)

\* The undo of a README write copies the backup over README.md.
RestoringReadme == step = "undo_planned" /\ step' = "restored" /\ URow.action = "readme_write"

\* No step of the engine, in whatever order calls, crashes and the user's own
\* changes come, makes a user's file disappear: every token that was on the
\* disk is still in the folder, in the trash or in a backup
\* (docs/FILE_ENGINE_CLI.md, "Existing destination files are not overwritten",
\* "Undo refuses to overwrite an existing original path").  Restoring a README
\* is the exception: the backup replaces what the user wrote since.
NoDataLost ==
    [][userActs' = userActs /\ ~RestoringReadme => Stored(disk) \subseteq Stored(disk')]_vars

\* Wherever the engine left a user's file, also when it died halfway, some
\* journal row, readable or quarantined, names that place as its destination:
\* the write-ahead journal is enough to trace every displaced file.  (Not the
\* files of a trash directory that an undo moved away, see TrashRenamed.)
DisplacedIsJournaled ==
    \A l \in Path \cup ({"trash"} \X OpId) :
        disk[l] \in Data /\ l \notin home[disk[l]] =>
            \E r \in Rows \cup quarantine : r.to = l

\* Planned operations of which the journal does not know that they happened.
Unfinished == {r \in Rows : r.status = "planned" /\ r.id \notin IdsWith(Len(journal), {"executed"})}
AtHome(t) == \E p \in home[t] : disk[p] = t

\* undo_root that skipped nothing puts every file back to where the user had
\* it, through any chain of moves, trashes, README writes, crashes in the
\* middle of them and interrupted undos; only an operation that crashed before
\* its completion was journaled may still keep a file away.  (As long as the
\* journal was not quarantined, which undo does not read, and the engine took
\* no file for another: recover_planned_move and, after an interrupted chain,
\* undo take whatever is at a destination for the file they mean.)
UndoAllRestores ==
    [][FinishUndo /\ scope = "all" /\ skipped = {} /\ misread = {} /\ quarantine = {} =>
          \A t \in Stored(disk) :
             AtHome(t) \/ \E r \in Unfinished : t \in {disk[r.from], disk[r.to]}]_vars

\* recover_journal and the crashes around it lose no journal row: a row leaves
\* the table only once it is in a quarantine file.
RowsAreKept ==
    [][Rows \cup quarantine \subseteq Rows' \cup quarantine']_vars

\* Undoing a trash puts a file back (trash.rs, the test
\* undo_restores_trashed_file_to_original_path).
TrashedFileComesBack ==
    [][step = "undo_planned" /\ step' = "restored" /\ URow.action = "trash" =>
          IsFile(disk'[URow.from])]_vars

\* Mutant: a moved file whose original path is taken again is shown as undoable.
HistoryCanUndoBlind(r) ==
    /\ r.id \notin IdsWith(Len(journal), {"undo_planned", "undone"})
    /\ r.action \in {"move", "trash"} => Exists(r.from) \/ Exists(r.to)

\* read_operation_history's can_undo for an executed operation.
HistoryCanUndo(r) ==
    /\ r.id \notin IdsWith(Len(journal), {"undo_planned", "undone"})
    /\ CASE r.action = "create_dir" ->
               Exists(r.to) => disk[r.to] = "dir" /\ Children(r.to) = {}
         [] r.action = "create_file" -> Exists(r.to) => disk[r.to] = "empty"
         [] r.action = "readme_write" -> TRUE
         [] OTHER -> Exists(r.from) # Exists(r.to)

\* Undo takes the operation back: it only has to record that, or the step that
\* follows its UndoPlanned row succeeds.
UndoWorks(r) ==
    /\ UndoVerdict(r) \in {"recorded", "plan"}
    /\ r.action = "readme_write" =>
          ~IsDir(disk[Readme]) /\ (Exists(Backup(r.id)) \/ Exists(Marker(r.id)))

\* What History does not look at: a file took the place of the directory that a
\* moved file came from, or a directory the place of README.md.
Unforeseen(r) ==
    IF r.action = "readme_write" THEN IsDir(disk[Readme])
    ELSE r.action \in {"move", "trash"} /\ ~ParentCreatable(r.from)

\* Executed operations whose undo was not begun; History takes an interrupted
\* undo for being in progress, undo takes it up again.
Offered == {r \in Rows : r.status = "executed" /\ r.id \notin IdsWith(Len(journal), {"undo_planned"})}

\* What History shows is what undo does, although the two derive it in different
\* ways, from different rows: whatever the user did to the folder, an operation
\* shown as undoable is one that undo takes back, unless something the check
\* does not look at is in the way (Unforeseen), and undo takes back none of the
\* others.
HistoryMirrorsUndo ==
    call = "none" /\ ~Corrupt =>
        \A r \in Offered :
            /\ HistoryCanUndo(r) /\ ~Unforeseen(r) => r.id \in Undoable /\ UndoWorks(r)
            /\ ~HistoryCanUndo(r) => r.id \notin Undoable \/ ~UndoWorks(r)

\* The claim of journal.rs without the exception: "Mirrors the live-filesystem
\* checks `undo::undo_operation` makes right before moving a file back, so
\* History can tell the user *why* an executed operation would fail to undo
\* instead of only finding out after they click the button".
HistoryTellsWhyUndoFails ==
    call = "none" /\ ~Corrupt =>
        \A r \in Offered : HistoryCanUndo(r) => r.id \in Undoable /\ UndoWorks(r)
====
